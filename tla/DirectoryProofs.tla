-------------------------- MODULE DirectoryProofs --------------------------
(***************************************************************************)
(* For any number of users, roles, permissions and overlapping calls: no    *)
(* two rows have one key, a pair is granted once, errors go to those who    *)
(* lost a race or asked for a user there is not, and a permission check is  *)
(* explained by a moment of its run.                                        *)
(*                                                                         *)
(* The invariant says what a call at each step knows of the tables.  A      *)
(* writer that has answered owns its key, and no other that has answered    *)
(* wants it.  One that has only looked knows the key is free until another  *)
(* call crosses it.  A check remembers the roles of a table `was` from      *)
(* which at most one change leads to the present one, and one change either *)
(* adds or removes: that is why one change does not mislead it.             *)
(***************************************************************************)
EXTENDS Directory, TLAPS

\* The assignments the tables admit.
Known == (Registered \X Created) \cup (Created \X Permissions)

Names == {"create_role", "update_role"}
Assigns == {"grant", "revoke"}

\* What call c holds at step s.
HoldsWhatItNeeds(s, c) ==
    /\ s \in {"email", "username", "insert"} =>
          c.op = "register" /\ c.email \in Emails /\ c.username \in Usernames
    /\ s = "save" => c.op = "update_profile" /\ c.user \in Registered
    /\ s = "name" => c.op \in Names
    /\ s = "has" => c.op \in Assigns
    /\ s \in {"has", "write"} /\ c.op \in Assigns => MayAskFor(c.pair)
    /\ s = "write" => c.op \in {"create_role", "grant", "revoke"}
    /\ s = "answered" => c.op \in RoleOps
    /\ s \in {"roles", "permissions"} =>
          c.op = "check" /\ c.user \in Users /\ c.permission \in Permissions
    /\ IF c.op \in Names THEN c.name \in RoleNames ELSE c.name = None
    /\ IF c.op \in Assigns THEN c.pair \in Pairs ELSE c.pair = None
    /\ IF c.op = "update_role" THEN c.role \in Created ELSE c.role = None

\* What a look at the tables told stays true unless another call crosses.
KeyUnlessCrossed(s, c) ==
    /\ s = "write" =>
          /\ c.crossed \/ KeyIsFree(c)
          /\ c.op = "grant" => c.pair \in (Users \X Created) \cup (Created \X Permissions)
    /\ s = "answered" /\ c.op = "update_role" => c.crossed \/ Named(c.name) \subseteq {c.role}

\* What was written and answered is as good as committed.
KeyIsHeld(s, c) ==
    s = "answered" => /\ KeyIsFree(c)
                      /\ c.op = "grant" => c.pair \in Known

\* The truth if ps are the pairs is among the truths of c.
Witnessed(c, ps) ==
    /\ Holds(c.user, c.permission, ps) => TRUE \in c.truths
    /\ ~Holds(c.user, c.permission, ps) => FALSE \in c.truths

\* The roles of a check are those of a table from which one change leads to `pairs`.
Explains(s, c, was) ==
    /\ was \subseteq pairs \/ pairs \subseteq was
    /\ c.changes = 0 => was = pairs
    /\ Witnessed(c, was) /\ Witnessed(c, pairs)
    /\ c.roles = {ro \in Roles : <<c.user, ro>> \in was}
    /\ s = "permissions" => c.again \in {c.roles, RolesOf(c.user)}

CheckIsExplained(s, c) ==
    s \in {"roles", "permissions"} /\ c.changes < 2 => \E was : Explains(s, c, was)

ErrorIsExplained(s, c) ==
    s = "error" => c.op \notin UserOps /\ (c.crossed \/ c.changes > 0 \/ NoSuchUser(c))

VerdictIsExplained(s, c) ==
    /\ s = "allowed" => TRUE \in c.truths \/ c.changes > 1
    /\ s = "denied" => FALSE \in c.truths \/ c.changes > 1

Sound(s, c) ==
    /\ HoldsWhatItNeeds(s, c)
    /\ KeyUnlessCrossed(s, c)
    /\ KeyIsHeld(s, c)
    /\ CheckIsExplained(s, c)
    /\ ErrorIsExplained(s, c)
    /\ VerdictIsExplained(s, c)

\* A written key that is not committed.
Holding(s, c) == s = "answered" /\ c.op # "update_role"

\* No two calls hold one key.
HoldersApart ==
    \A q, r \in Requests :
        q # r /\ Holding(pc[q], call[q]) /\ Holding(pc[r], call[r]) => ~Crosses(call[q], call[r])

DirectoryInv ==
    /\ TypeOK
    /\ IdentitiesUnique
    /\ \A r \in Requests : Sound(pc[r], call[r])
    /\ HoldersApart

-----------------------------------------------------------------------------
(* The initial state, and steps that leave the tables alone *)

\* A call that is not being made is sound.
LEMMA NoCallIsSound ==
    /\ NoCall \in Calls
    /\ \A s \in {"idle", "rejected", "conflict", "done"} : Sound(s, NoCall)
<1>1. NoCall \in Calls
  BY DEF NoCall, Calls, NoProfile, ProfileRows
<1>2. ASSUME NEW s \in {"idle", "rejected", "conflict", "done"}
      PROVE  Sound(s, NoCall)
  BY DirectoryConstants
  DEF NoCall, Sound, HoldsWhatItNeeds, KeyUnlessCrossed, KeyIsHeld, CheckIsExplained,
      ErrorIsExplained, VerdictIsExplained, Names, Assigns
<1> QED
  BY <1>1, <1>2

\* The invariant holds before any call.
LEMMA InitDirectoryInv == Init => DirectoryInv
<1> SUFFICES ASSUME Init PROVE DirectoryInv
  OBVIOUS
<1> USE DirectoryConstants
<1>1. PICK u \in Users, row \in ProfileRows \ {NoProfile} :
         profile = [[v \in Users |-> NoProfile] EXCEPT ![u] = row]
  BY DEF Init
<1>2. profile \in [Users -> ProfileRows]
  BY <1>1 DEF ProfileRows
<1>3. Registered = {u}
  BY <1>1 DEF Registered
<1>4. TypeOK
  <2>1. PICK ro \in Created, ps \in SUBSET (Created \X Permissions) :
           pairs = (Registered \X {ro}) \cup ps
    BY DEF Init
  <2>2. pairs \subseteq (Registered \X Created) \cup (Created \X Permissions)
    BY <2>1
  <2>3. pc \in [Requests -> PCs] /\ call \in [Requests -> Calls]
    BY NoCallIsSound DEF Init, PCs, Ended
  <2> QED
    BY <1>2, <2>2, <2>3 DEF Init, TypeOK
<1>5. IdentitiesUnique
  BY <1>3 DEF IdentitiesUnique, Init
<1>6. \A r \in Requests : Sound(pc[r], call[r])
  BY NoCallIsSound DEF Init
<1>7. HoldersApart
  BY DEF Init, HoldersApart, Holding
<1> QED
  BY <1>4, <1>5, <1>6, <1>7 DEF DirectoryInv

\* What a call knows depends on the tables only.
LEMMA SoundOfTables ==
    ASSUME UNCHANGED tables
    PROVE  \A s, c : Sound(s, c)' <=> Sound(s, c)
  BY DEF tables, Sound, HoldsWhatItNeeds, KeyUnlessCrossed, KeyIsHeld, CheckIsExplained,
         ErrorIsExplained, VerdictIsExplained, Registered, Created, Known, KeyIsFree, Named,
         Explains, RolesOf, Witnessed, MayAskFor

\* Crossing is mutual.
LEMMA CrossesBothWays == \A c, d : Crosses(c, d) <=> Crosses(d, c)
  BY DEF Crosses

\* A step of r that writes no table keeps the invariant if what r holds next is
\* sound, and the key it may hold is held by no other.
LEMMA QuietStep ==
    ASSUME DirectoryInv, NEW r \in Requests, NEW s \in PCs, NEW c \in Calls,
           UNCHANGED tables,
           pc' = [pc EXCEPT ![r] = s], call' = [call EXCEPT ![r] = c],
           calls' \in 0..MaxCalls, faults' \in 0..MaxFaults,
           Sound(s, c),
           Holding(s, c) => \A q \in Requests \ {r} :
                               Holding(pc[q], call[q]) => ~Crosses(call[q], c)
    PROVE  DirectoryInv'
<1> USE DEF DirectoryInv
<1>1. TypeOK'
  BY DEF TypeOK, tables, Registered, Created
<1>2. IdentitiesUnique'
  BY DEF IdentitiesUnique, tables, Registered, Created
<1>3. \A q \in Requests : pc'[q] = (IF q = r THEN s ELSE pc[q])
                          /\ call'[q] = (IF q = r THEN c ELSE call[q])
  BY DEF TypeOK
<1>4. ASSUME NEW q \in Requests PROVE Sound(pc[q], call[q])'
  <2>1. Sound(pc'[q], call'[q])
    BY <1>3
  <2> QED
    BY <2>1, SoundOfTables
<1>5. HoldersApart'
  BY <1>3, CrossesBothWays DEF HoldersApart
<1> QED
  BY <1>1, <1>2, <1>4, <1>5

\* A call starts.
LEMMA BeginKeepsInv ==
    ASSUME DirectoryInv, NEW r \in Requests, NEW c \in Calls, NEW first \in PCs \ {"answered"},
           Begin(r, c, first), Sound(first, c)
    PROVE  DirectoryInv'
<1>1. calls' \in 0..MaxCalls /\ faults' \in 0..MaxFaults
  BY DirectoryConstants DEF Begin, DirectoryInv, TypeOK
<1>2. ~Holding(first, c)
  BY DEF Holding
<1> QED
  BY <1>1, <1>2, QuietStep DEF Begin

\* A call goes on, or ends.
LEMMA GotoKeepsInv ==
    ASSUME DirectoryInv, NEW r \in Requests, NEW s \in PCs, Goto(r, s),
           s \notin {"done", "rejected", "conflict"} => Sound(s, call[r]),
           Holding(s, call[r]) => \A q \in Requests \ {r} :
                                     Holding(pc[q], call[q]) => ~Crosses(call[q], call[r])
    PROVE  DirectoryInv'
<1>1. calls' \in 0..MaxCalls /\ faults' \in 0..MaxFaults
  BY DEF Goto, DirectoryInv, TypeOK
<1>2. call \in [Requests -> Calls]
  BY DEF DirectoryInv, TypeOK
<1>3. CASE s \in {"done", "rejected", "conflict"}
  <2>1. call' = [call EXCEPT ![r] = NoCall]
    BY <1>3 DEF Goto
  <2>2. ~Holding(s, NoCall)
    BY <1>3 DEF Holding
  <2> QED
    BY <1>1, <1>3, <2>1, <2>2, QuietStep, NoCallIsSound DEF Goto
<1>4. CASE s \notin {"done", "rejected", "conflict"}
  <2>1. call' = [call EXCEPT ![r] = call[r]]
    BY <1>2, <1>4 DEF Goto
  <2>2. call[r] \in Calls
    BY <1>2
  <2> QED
    BY <1>1, <1>4, <2>1, <2>2, QuietStep DEF Goto
<1> QED
  BY <1>3, <1>4

-----------------------------------------------------------------------------
(* What a commit tells the others *)

\* Calls d and c ask for the same and have read the same.
SameRequest(d, c) ==
    /\ d.op = c.op /\ d.user = c.user /\ d.email = c.email /\ d.username = c.username
    /\ d.was = c.was /\ d.role = c.role /\ d.name = c.name /\ d.pair = c.pair
    /\ d.permission = c.permission /\ d.roles = c.roles /\ d.again = c.again
    /\ d.barred = c.barred

\* A commit of r leaves the other calls what they asked for; they notice a crossing,
\* and the checks the new truth and whether the pairs changed.
LEMMA OthersNotice ==
    ASSUME DirectoryInv, NEW r \in Requests, Committed(r), NEW q \in Requests \ {r}
    PROVE  LET c == call[q]
               d == call'[q]
           IN
           /\ pc'[q] = pc[q]
           /\ d \in Calls
           /\ SameRequest(d, c)
           /\ d.crossed <=> (c.crossed \/ Crosses(c, call[r]))
           /\ q \notin Checks => d.truths = c.truths /\ d.changes = c.changes
           /\ q \in Checks =>
                /\ d.truths = c.truths \cup {Holds(c.user, c.permission, pairs')}
                /\ d.changes = IF pairs' # pairs /\ c.changes < 2 THEN c.changes + 1
                               ELSE c.changes
<1> DEFINE c == call[q]
           seen == Holds(c.user, c.permission, pairs')
           crossing == c.crossed \/ Crosses(c, call[r])
           truths == IF q \in Checks THEN c.truths \cup {seen} ELSE c.truths
           changes == IF q \in Checks /\ pairs' # pairs /\ c.changes < 2 THEN c.changes + 1
                      ELSE c.changes
<1>1. c \in Calls
  BY DEF DirectoryInv, TypeOK
<1>2. call'[q] = [c EXCEPT !.crossed = crossing, !.truths = truths, !.changes = changes]
  BY DEF Committed
<1>3. pc'[q] = pc[q]
  BY DEF Committed, DirectoryInv, TypeOK
<1>4. c.truths \in SUBSET BOOLEAN /\ c.changes \in 0..2 /\ c.crossed \in BOOLEAN
  BY <1>1 DEF Calls
<1>5. crossing \in BOOLEAN /\ seen \in BOOLEAN
  BY <1>4 DEF Crosses, Holds
<1>6. truths \in SUBSET BOOLEAN
  BY <1>4, <1>5
<1>7. changes \in 0..2
  BY <1>4
<1>8. /\ truths = IF q \in Checks THEN c.truths \cup {seen} ELSE c.truths
      /\ changes = IF q \in Checks /\ pairs' # pairs /\ c.changes < 2 THEN c.changes + 1
                   ELSE c.changes
      /\ crossing <=> (c.crossed \/ Crosses(c, call[r]))
  OBVIOUS
<1> HIDE DEF truths, changes, crossing, seen
<1> HIDE DEF c
<1>9. call'[q].crossed <=> crossing
  BY <1>1, <1>2, <1>5 DEF Calls
<1>10. call'[q].truths = truths /\ call'[q].changes = changes
  BY <1>1, <1>2 DEF Calls
<1>11. SameRequest(call'[q], c)
  BY <1>1, <1>2 DEF Calls, SameRequest
<1>12. call'[q] \in Calls
  BY <1>1, <1>2, <1>5, <1>6, <1>7 DEF Calls
<1> QED
  BY <1>3, <1>8, <1>9, <1>10, <1>11, <1>12 DEF seen, c

\* A commit makes no table entry but those of its own key, and forgets no row.
CommitsOnly(c) ==
    /\ Registered \subseteq Registered' /\ Created \subseteq Created'
    /\ \A n \in RoleNames \ {c.name} : Named(n)' \subseteq Named(n)
    /\ pairs' \ pairs \subseteq {c.pair}
    /\ pairs \subseteq pairs' \/ pairs' \subseteq pairs

\* What a call has looked up stays true across the commit of another, or is crossed.
LEMMA CommitKeepsKeys ==
    ASSUME DirectoryInv, NEW r \in Requests, Committed(r), CommitsOnly(call[r]),
           NEW q \in Requests \ {r},
           Holding(pc[q], call[q]) => ~Crosses(call[q], call[r])
    PROVE  /\ KeyUnlessCrossed(pc[q], call[q])'
           /\ KeyIsHeld(pc[q], call[q])'
<1>0. PICK c : c = call[q]
  OBVIOUS
<1>1. PICK d : d = call'[q]
  OBVIOUS
<1>2. PICK s : s = pc'[q]
  OBVIOUS
<1>3. SameRequest(d, c) /\ (d.crossed <=> (c.crossed \/ Crosses(c, call[r]))) /\ s = pc[q]
  BY <1>0, <1>1, <1>2, OthersNotice
<1>4. HoldsWhatItNeeds(s, c) /\ KeyUnlessCrossed(s, c) /\ KeyIsHeld(s, c)
  BY <1>0, <1>3 DEF DirectoryInv, Sound
<1>5. ASSUME KeyIsFree(c), ~Crosses(c, call[r]) PROVE KeyIsFree(d)'
  <2>1. ASSUME c.op = "create_role" PROVE Named(c.name)' = {}
    <3>1. c.name \in RoleNames \ {call[r].name}
      BY <1>4, <1>5, <2>1, DirectoryConstants DEF HoldsWhatItNeeds, Names, Crosses
    <3> QED
      BY <3>1, <1>5, <2>1 DEF CommitsOnly, KeyIsFree
  <2>2. ASSUME c.op = "grant" PROVE c.pair \notin pairs'
    <3>1. c.pair # call[r].pair
      BY <1>4, <1>5, <2>2, DirectoryConstants DEF HoldsWhatItNeeds, Assigns, Crosses
    <3> QED
      BY <3>1, <1>5, <2>2 DEF CommitsOnly, KeyIsFree
  <2>3. d.op = c.op /\ d.name = c.name /\ d.pair = c.pair
    BY <1>3 DEF SameRequest
  <2> QED
    BY <2>1, <2>2, <2>3 DEF KeyIsFree
<1>6. Created \subseteq Created' /\ Registered \subseteq Registered'
  BY DEF CommitsOnly
<1>7. KeyUnlessCrossed(s, d)'
  <2>1. ASSUME s = "write" PROVE d.crossed \/ KeyIsFree(d)'
    BY <2>1, <1>3, <1>4, <1>5 DEF KeyUnlessCrossed
  <2>2. ASSUME s = "write", d.op = "grant"
        PROVE  d.pair \in (Users \X Created') \cup (Created' \X Permissions)
    BY <2>2, <1>3, <1>4, <1>6 DEF KeyUnlessCrossed, SameRequest
  <2>3. ASSUME s = "answered", d.op = "update_role", ~d.crossed
        PROVE  Named(d.name)' \subseteq {d.role}
    <3>1. c.op = "update_role" /\ d.name = c.name /\ d.role = c.role
      BY <1>3, <2>3 DEF SameRequest
    <3>2. ~c.crossed /\ ~Crosses(c, call[r])
      BY <1>3, <2>3
    <3>3. c.name \in RoleNames \ {call[r].name}
      BY <1>4, <3>1, <3>2, DirectoryConstants DEF HoldsWhatItNeeds, Names, Crosses
    <3>4. Named(c.name) \subseteq {c.role}
      BY <1>4, <2>3, <3>1, <3>2 DEF KeyUnlessCrossed
    <3> QED
      BY <3>1, <3>3, <3>4 DEF CommitsOnly
  <2> QED
    BY <2>1, <2>2, <2>3 DEF KeyUnlessCrossed
<1>8. KeyIsHeld(s, d)'
  <2> SUFFICES ASSUME s = "answered"
               PROVE  KeyIsFree(d)' /\ (d.op = "grant" => d.pair \in Known')
    BY DEF KeyIsHeld
  <2>1. KeyIsFree(d)'
    <3>1. CASE c.op = "update_role"
      BY <1>3, <3>1 DEF KeyIsFree, SameRequest
    <3>2. CASE c.op # "update_role"
      BY <1>0, <1>3, <1>4, <1>5, <3>2 DEF KeyIsHeld, Holding
    <3> QED
      BY <3>1, <3>2
  <2>2. ASSUME d.op = "grant" PROVE d.pair \in Known'
    BY <1>3, <1>4, <1>6, <2>2 DEF KeyIsHeld, Known, SameRequest
  <2> QED
    BY <2>1, <2>2
<1> QED
  BY <1>1, <1>2, <1>7, <1>8

\* A check across the commit of another call: the first change of the pairs makes the
\* present table the one its roles are from.
LEMMA CommitKeepsChecks ==
    ASSUME DirectoryInv, NEW r \in Requests, Committed(r), CommitsOnly(call[r]),
           NEW q \in Requests \ {r}
    PROVE  CheckIsExplained(pc[q], call[q])'
<1>0. PICK c : c = call[q]
  OBVIOUS
<1>1. PICK d : d = call'[q]
  OBVIOUS
<1>2. PICK s : s = pc'[q]
  OBVIOUS
<1>3. /\ SameRequest(d, c) /\ s = pc[q]
      /\ q \in Checks => /\ d.truths = c.truths \cup {Holds(c.user, c.permission, pairs')}
                         /\ d.changes = IF pairs' # pairs /\ c.changes < 2 THEN c.changes + 1
                                        ELSE c.changes
  BY <1>0, <1>1, <1>2, OthersNotice
<1> SUFFICES ASSUME s \in {"roles", "permissions"}, d.changes < 2
             PROVE  \E was : Explains(s, d, was)'
  BY <1>1, <1>2 DEF CheckIsExplained
<1>4. HoldsWhatItNeeds(s, c) /\ CheckIsExplained(s, c) /\ c \in Calls
  BY <1>0, <1>3 DEF DirectoryInv, Sound, TypeOK
<1>5. q \in Checks
  BY <1>0, <1>3, <1>4 DEF Checks, HoldsWhatItNeeds, Ended
<1>6. c.changes \in 0..2
  BY <1>4 DEF Calls
<1>7. c.changes < 2
  BY <1>3, <1>5, <1>6
<1>8. PICK was : Explains(s, c, was)
  BY <1>4, <1>7 DEF CheckIsExplained
<1>9. /\ d.user = c.user /\ d.permission = c.permission /\ d.roles = c.roles
      /\ d.again = c.again
  BY <1>3 DEF SameRequest
<1>10. Holds(c.user, c.permission, pairs') \in BOOLEAN
  BY DEF Holds
<1>11. Witnessed(d, pairs)' /\ (\A ps : Witnessed(c, ps) => Witnessed(d, ps))
  BY <1>3, <1>5, <1>9, <1>10 DEF Witnessed
<1>12. CASE pairs' = pairs
  <2>1. d.changes = c.changes
    BY <1>3, <1>5, <1>12
  <2>2. Explains(s, d, was)'
    BY <2>1, <1>8, <1>9, <1>11, <1>12 DEF Explains, Witnessed, RolesOf
  <2> QED
    BY <2>2
<1>13. CASE pairs' # pairs
  <2>1. c.changes = 0 /\ d.changes = 1
    BY <1>3, <1>5, <1>6, <1>7, <1>13
  <2>2. was = pairs
    BY <1>8, <2>1 DEF Explains
  <2>3. was \subseteq pairs' \/ pairs' \subseteq was
    BY <2>2 DEF CommitsOnly
  <2>4. c.roles = RolesOf(c.user)
    BY <1>8, <2>2 DEF Explains, RolesOf
  <2>5. s = "permissions" => d.again = d.roles
    BY <1>8, <1>9, <2>4 DEF Explains
  <2>6. d.roles = {ro \in Roles : <<d.user, ro>> \in was}
    BY <1>8, <1>9 DEF Explains
  <2>7. Witnessed(d, was)
    BY <1>8, <1>11 DEF Explains
  <2>8. Witnessed(d, was)'
    BY <2>7 DEF Witnessed
  <2>9. Explains(s, d, was)'
    BY <2>1, <2>3, <2>5, <2>6, <2>8, <1>11 DEF Explains
  <2> QED
    BY <2>9
<1> QED
  BY <1>12, <1>13

\* The commit of r keeps the invariant, if it keeps the constraints of the tables and
\* no other call holds its key.
LEMMA CommittedKeepsInv ==
    ASSUME DirectoryInv, NEW r \in Requests, Committed(r), CommitsOnly(call[r]),
           \A q \in Requests \ {r} :
               Holding(pc[q], call[q]) => ~Crosses(call[q], call[r]),
           profile' \in [Users -> ProfileRows],
           roleName' \in [Roles -> RoleNames \cup {None}],
           pairs' \subseteq Known',
           IdentitiesUnique'
    PROVE  DirectoryInv'
<1> USE DEF DirectoryInv
<1>1. pc'[r] = "done" /\ call'[r] = NoCall
  BY DEF Committed, TypeOK
<1>2. \A q \in Requests \ {r} : /\ pc'[q] = pc[q] /\ call'[q] \in Calls
                                /\ SameRequest(call'[q], call[q])
  BY OthersNotice
<1>3. call' \in [Requests -> Calls]
  BY <1>1, <1>2, NoCallIsSound DEF Committed
<1>4. TypeOK'
  BY <1>3 DEF TypeOK, Committed, PCs, Ended, Known
<1>5. ASSUME NEW q \in Requests PROVE Sound(pc[q], call[q])'
  <2>1. CASE q = r
    BY <2>1, <1>1, DirectoryConstants
    DEF NoCall, Sound, HoldsWhatItNeeds, KeyUnlessCrossed, KeyIsHeld, CheckIsExplained,
        ErrorIsExplained, VerdictIsExplained, Names, Assigns
  <2>2. CASE q # r
    <3>1. PICK d, s : d = call'[q] /\ s = pc'[q]
      OBVIOUS
    <3>2. /\ SameRequest(d, call[q]) /\ s = pc[q]
          /\ call[q].crossed => d.crossed
          /\ q \notin Checks => d.truths = call[q].truths /\ d.changes = call[q].changes
      BY <2>2, <3>1, OthersNotice
    <3>3. Sound(s, call[q])
      BY <3>2
    <3>4. HoldsWhatItNeeds(s, d)'
      BY <3>2, <3>3 DEF Sound, HoldsWhatItNeeds, SameRequest, CommitsOnly, MayAskFor
    <3>5. ErrorIsExplained(s, d)' /\ VerdictIsExplained(s, d)'
      BY <3>2, <3>3
      DEF Sound, ErrorIsExplained, NoSuchUser, VerdictIsExplained, SameRequest, Checks, Ended
    <3>6. (KeyUnlessCrossed(pc[q], call[q]) /\ KeyIsHeld(pc[q], call[q]))'
      BY <2>2, CommitKeepsKeys
    <3>7. CheckIsExplained(pc[q], call[q])'
      BY <2>2, CommitKeepsChecks
    <3> QED
      BY <3>1, <3>4, <3>5, <3>6, <3>7 DEF Sound
  <2> QED
    BY <2>1, <2>2
<1>6. HoldersApart'
  <2> SUFFICES ASSUME NEW p \in Requests, NEW q \in Requests, p # q,
                      Holding(pc'[p], call'[p]), Holding(pc'[q], call'[q])
               PROVE  ~Crosses(call'[p], call'[q])
    BY DEF HoldersApart
  <2>1. p # r /\ q # r
    BY <1>1 DEF Holding
  <2>2. Holding(pc[p], call[p]) /\ Holding(pc[q], call[q])
    BY <1>2, <2>1 DEF Holding, SameRequest
  <2> QED
    BY <1>2, <2>1, <2>2 DEF HoldersApart, Crosses, SameRequest
<1> QED
  BY <1>4, <1>5, <1>6

-----------------------------------------------------------------------------
(* The steps of each call *)

\* What a call asks for is typed, and what it holds at its first step is all it needs.
LEMMA RequestsAreSound ==
    /\ \A e \in Emails, n \in Usernames :
          LET c == [Request("register") EXCEPT !.email = e, !.username = n]
          IN  c \in Calls /\ Sound("email", c)
    /\ \A u \in Registered, e \in Emails \cup {None, Null},
          n \in Usernames \cup {None, Null}, row \in ProfileRows :
          LET c == [Request("update_profile") EXCEPT !.user = u, !.email = e, !.username = n,
                                                     !.was = row]
          IN  c \in Calls /\ Sound("save", c)
    /\ \A n \in RoleNames :
          LET c == [Request("create_role") EXCEPT !.name = n]
          IN  c \in Calls /\ Sound("name", c)
    /\ \A ro \in Created, n \in RoleNames :
          LET c == [Request("update_role") EXCEPT !.role = ro, !.name = n]
          IN  c \in Calls /\ Sound("name", c)
    /\ \A op \in Assigns, p \in Pairs :
          LET c == [Request(op) EXCEPT !.pair = p]
          IN  MayAskFor(p) => c \in Calls /\ Sound("has", c)
<1> USE DirectoryConstants
<1>1. ASSUME NEW e \in Emails, NEW n \in Usernames
      PROVE  LET c == [Request("register") EXCEPT !.email = e, !.username = n]
             IN  c \in Calls /\ Sound("email", c)
  <2> DEFINE c == [Request("register") EXCEPT !.email = e, !.username = n]
  <2>1. c \in Calls
    BY NoCallIsSound DEF Calls, Request, UserOps
  <2>2. /\ c.op = "register" /\ c.email = e /\ c.username = n
        /\ c.name = None /\ c.pair = None /\ c.role = None
    BY DEF Request, NoCall
  <2> HIDE DEF c
  <2>3. Sound("email", c)
    BY <2>2 DEF Sound, HoldsWhatItNeeds, KeyUnlessCrossed, KeyIsHeld, CheckIsExplained,
                ErrorIsExplained, VerdictIsExplained, Names, Assigns, UserOps
  <2> QED
    BY <2>1, <2>3 DEF c
<1>2. ASSUME NEW u \in Registered, NEW e \in Emails \cup {None, Null},
             NEW n \in Usernames \cup {None, Null}, NEW row \in ProfileRows
      PROVE  LET c == [Request("update_profile") EXCEPT !.user = u, !.email = e,
                                                        !.username = n, !.was = row]
             IN  c \in Calls /\ Sound("save", c)
  <2> DEFINE c == [Request("update_profile") EXCEPT !.user = u, !.email = e,
                                                    !.username = n, !.was = row]
  <2>1. c \in Calls
    BY NoCallIsSound DEF Calls, Request, UserOps, Registered
  <2>2. /\ c.op = "update_profile" /\ c.user = u
        /\ c.name = None /\ c.pair = None /\ c.role = None
    BY DEF Request, NoCall
  <2> HIDE DEF c
  <2>3. Sound("save", c)
    BY <2>2 DEF Sound, HoldsWhatItNeeds, KeyUnlessCrossed, KeyIsHeld, CheckIsExplained,
                ErrorIsExplained, VerdictIsExplained, Names, Assigns, UserOps
  <2> QED
    BY <2>1, <2>3 DEF c
<1>3. ASSUME NEW n \in RoleNames
      PROVE  LET c == [Request("create_role") EXCEPT !.name = n]
             IN  c \in Calls /\ Sound("name", c)
  <2> DEFINE c == [Request("create_role") EXCEPT !.name = n]
  <2>1. c \in Calls
    BY NoCallIsSound DEF Calls, Request, RoleOps
  <2>2. c.op = "create_role" /\ c.name = n /\ c.pair = None /\ c.role = None
    BY DEF Request, NoCall
  <2> HIDE DEF c
  <2>3. Sound("name", c)
    BY <2>2 DEF Sound, HoldsWhatItNeeds, KeyUnlessCrossed, KeyIsHeld, CheckIsExplained,
                ErrorIsExplained, VerdictIsExplained, Names, Assigns, UserOps
  <2> QED
    BY <2>1, <2>3 DEF c
<1>4. ASSUME NEW ro \in Created, NEW n \in RoleNames
      PROVE  LET c == [Request("update_role") EXCEPT !.role = ro, !.name = n]
             IN  c \in Calls /\ Sound("name", c)
  <2> DEFINE c == [Request("update_role") EXCEPT !.role = ro, !.name = n]
  <2>1. c \in Calls
    BY NoCallIsSound DEF Calls, Request, RoleOps, Created
  <2>2. c.op = "update_role" /\ c.name = n /\ c.pair = None /\ c.role = ro
    BY DEF Request, NoCall
  <2> HIDE DEF c
  <2>3. Sound("name", c)
    BY <2>2 DEF Sound, HoldsWhatItNeeds, KeyUnlessCrossed, KeyIsHeld, CheckIsExplained,
                ErrorIsExplained, VerdictIsExplained, Names, Assigns, UserOps
  <2> QED
    BY <2>1, <2>3 DEF c
<1>5. ASSUME NEW op \in Assigns, NEW p \in Pairs, MayAskFor(p)
      PROVE  LET c == [Request(op) EXCEPT !.pair = p]
             IN  c \in Calls /\ Sound("has", c)
  <2> DEFINE c == [Request(op) EXCEPT !.pair = p]
  <2>1. c \in Calls
    BY NoCallIsSound DEF Calls, Request, RoleOps, Assigns
  <2>2. c.op = op /\ c.name = None /\ c.pair = p /\ c.role = None
    BY DEF Request, NoCall
  <2> HIDE DEF c
  <2>3. Sound("has", c)
    BY <1>5, <2>2
    DEF Sound, HoldsWhatItNeeds, KeyUnlessCrossed, KeyIsHeld, CheckIsExplained,
        ErrorIsExplained, VerdictIsExplained, Names, Assigns, UserOps
  <2> QED
    BY <2>1, <2>3 DEF c
<1> QED
  BY <1>1, <1>2, <1>3, <1>4, <1>5

\* Calls of users and of roles start.
LEMMA BeginningKeepsInv ==
    ASSUME DirectoryInv, NEW r \in Requests, BeginUserCall(r) \/ BeginRoleCall(r)
    PROVE  DirectoryInv'
<1> USE DEF PCs, Ended
<1>1. ASSUME NEW e \in Emails, NEW n \in Usernames,
             Begin(r, [Request("register") EXCEPT !.email = e, !.username = n], "email")
      PROVE  DirectoryInv'
  BY <1>1, RequestsAreSound, BeginKeepsInv
<1>2. ASSUME NEW u \in Registered, NEW e \in Emails \cup {None, Null},
             NEW n \in Usernames \cup {None, Null},
             Begin(r, [Request("update_profile") EXCEPT !.user = u, !.email = e, !.username = n,
                                                        !.was = profile[u]], "save")
      PROVE  DirectoryInv'
  <2>1. profile[u] \in ProfileRows
    BY DEF DirectoryInv, TypeOK, Registered
  <2> DEFINE c == [Request("update_profile") EXCEPT !.user = u, !.email = e,
                                                    !.username = n, !.was = profile[u]]
  <2>2. c \in Calls /\ Sound("save", c)
    BY <2>1, RequestsAreSound
  <2>3. Begin(r, c, "save")
    BY <1>2
  <2> HIDE DEF c
  <2> QED
    BY <2>2, <2>3, BeginKeepsInv
<1>3. ASSUME NEW n \in RoleNames, Begin(r, [Request("create_role") EXCEPT !.name = n], "name")
      PROVE  DirectoryInv'
  BY <1>3, RequestsAreSound, BeginKeepsInv
<1>4. ASSUME NEW ro \in Created, NEW n \in RoleNames,
             Begin(r, [Request("update_role") EXCEPT !.role = ro, !.name = n], "name")
      PROVE  DirectoryInv'
  BY <1>4, RequestsAreSound, BeginKeepsInv
<1>5. ASSUME NEW op \in Assigns, NEW p \in Pairs, MayAskFor(p),
             Begin(r, [Request(op) EXCEPT !.pair = p], "has")
      PROVE  DirectoryInv'
  BY <1>5, RequestsAreSound, BeginKeepsInv
<1>6. CASE BeginUserCall(r)
  BY <1>1, <1>2, <1>6 DEF BeginUserCall
<1>7. CASE BeginRoleCall(r)
  BY <1>3, <1>4, <1>5, <1>7 DEF BeginRoleCall, Assigns
<1> QED
  BY <1>6, <1>7

\* The looks at the users table write nothing.
LEMMA LookingUpUsersKeepsInv ==
    ASSUME DirectoryInv, NEW r \in Requests, CheckEmail(r) \/ CheckUsername(r)
    PROVE  DirectoryInv'
<1> DEFINE c == call[r]
<1>1. PICK s \in {"conflict", "username", "insert"} : Goto(r, s)
  BY DEF CheckEmail, CheckUsername
<1>2. pc[r] \in {"email", "username"} /\ Sound(pc[r], c)
  BY DEF CheckEmail, CheckUsername, DirectoryInv
<1>3. s # "conflict" => Sound(s, c)
  BY <1>2 DEF Sound, HoldsWhatItNeeds, KeyUnlessCrossed, KeyIsHeld, CheckIsExplained,
              ErrorIsExplained, VerdictIsExplained
<1>4. s \in PCs
  BY DEF PCs, Ended
<1>5. ~Holding(s, c)
  BY DEF Holding
<1> QED
  BY <1>1, <1>3, <1>4, <1>5, GotoKeepsInv

\* The constraints let a row through only if it has an email and a username, and no
\* other user has either.
LEMMA SavingUserKeepsInv ==
    ASSUME DirectoryInv, NEW r \in Requests, NEW u \in Users,
           NEW row \in [email: Emails \cup {Null}, username: Usernames \cup {Null}],
           call[r].op \in UserOps, pc[r] \in {"insert", "save"}, SaveUser(r, u, row)
    PROVE  DirectoryInv'
<1> DEFINE c == call[r]
<1>1. CASE ~Fits(u, row)
  <2>1. Goto(r, "conflict")
    BY <1>1 DEF SaveUser, OnConflict
  <2> QED
    BY <2>1, GotoKeepsInv DEF PCs, Ended, Holding
<1>2. CASE Fits(u, row)
  <2>1. profile' = [profile EXCEPT ![u] = row] /\ UNCHANGED <<roleName, pairs>> /\ Committed(r)
    BY <1>2 DEF SaveUser
  <2>2. profile \in [Users -> ProfileRows]
    BY DEF DirectoryInv, TypeOK
  <2>3. row \in ProfileRows /\ row # NoProfile
    <3>1. row.email \in Emails /\ row.username \in Usernames
      BY <1>2 DEF Fits
    <3>2. row \in [email: Emails, username: Usernames]
      BY <3>1
    <3> QED
      BY <3>1, <3>2, DirectoryConstants DEF ProfileRows, NoProfile
  <2>4. \A v \in Users : profile'[v] = IF v = u THEN row ELSE profile[v]
    BY <2>1, <2>2
  <2>5. Registered' = Registered \cup {u} /\ Created' = Created
    BY <2>1, <2>3, <2>4 DEF Registered, Created
  <2>6. c.name = None /\ c.pair = None
    BY DEF DirectoryInv, Sound, HoldsWhatItNeeds, Names, Assigns, UserOps
  <2>7. CommitsOnly(c)
    BY <2>1, <2>5 DEF CommitsOnly, Named
  <2>8. \A q \in Requests : ~Crosses(call[q], c)
    BY <2>6 DEF Crosses
  <2>9. pairs' \subseteq Known'
    BY <2>1, <2>5 DEF Known, DirectoryInv, TypeOK
  <2>10. IdentitiesUnique'
    <3>1. \A v, w \in Registered' :
             profile'[v].email = profile'[w].email \/ profile'[v].username = profile'[w].username
               => v = w
      BY <1>2, <2>4, <2>5 DEF Fits, DirectoryInv, IdentitiesUnique, Registered
    <3> QED
      BY <2>1, <2>5, <3>1 DEF DirectoryInv, IdentitiesUnique
  <2>11. profile' \in [Users -> ProfileRows] /\ roleName' \in [Roles -> RoleNames \cup {None}]
    BY <2>1, <2>2, <2>3 DEF DirectoryInv, TypeOK
  <2> QED
    BY <2>1, <2>7, <2>8, <2>9, <2>10, <2>11, CommittedKeepsInv
<1> QED
  BY <1>1, <1>2

\* A registration is inserted, a profile updated.
LEMMA WritingUsersKeepsInv ==
    ASSUME DirectoryInv, NEW r \in Requests, InsertUser(r) \/ SaveProfile(r)
    PROVE  DirectoryInv'
<1> DEFINE c == call[r]
<1>1. c \in Calls /\ HoldsWhatItNeeds(pc[r], c)
  BY DEF DirectoryInv, TypeOK, Sound
<1>2. CASE InsertUser(r)
  <2>1. PICK u \in Users \ (Registered \cup {Unknown}) :
           SaveUser(r, u, [email |-> c.email, username |-> c.username])
    BY <1>2 DEF InsertUser
  <2>2. pc[r] = "insert" /\ c.op = "register" /\ c.email \in Emails /\ c.username \in Usernames
    BY <1>1, <1>2 DEF InsertUser, HoldsWhatItNeeds
  <2> QED
    BY <2>1, <2>2, SavingUserKeepsInv DEF UserOps
<1>3. CASE SaveProfile(r)
  <2> DEFINE now == profile[c.user]
             email == Column(c.email, c.was.email, now.email)
             username == Column(c.username, c.was.username, now.username)
  <2>1. SaveUser(r, c.user, [email |-> email, username |-> username])
    BY <1>3 DEF SaveProfile
  <2>2. pc[r] = "save" /\ c.op = "update_profile" /\ c.user \in Registered
    BY <1>1, <1>3 DEF SaveProfile, HoldsWhatItNeeds
  <2>3. now \in [email: Emails, username: Usernames]
    BY <2>2 DEF DirectoryInv, TypeOK, ProfileRows, Registered
  <2>4. c.email \in Emails \cup {None, Null} /\ c.username \in Usernames \cup {None, Null}
    BY <1>1 DEF Calls
  <2>5. email \in Emails \cup {Null} /\ username \in Usernames \cup {Null}
    BY <2>3, <2>4 DEF Column
  <2> HIDE DEF email, username
  <2> QED
    BY <2>1, <2>2, <2>5, SavingUserKeepsInv DEF UserOps, Registered
<1> QED
  BY <1>2, <1>3

\* The looks at the tables of roles tell what the key is, until another call crosses.
LEMMA LookingUpRolesKeepsInv ==
    ASSUME DirectoryInv, NEW r \in Requests, CheckRoleName(r) \/ CheckPair(r)
    PROVE  DirectoryInv'
<1> DEFINE c == call[r]
<1> USE DirectoryConstants
<1>1. Sound(pc[r], c) /\ pairs \subseteq Known
  BY DEF DirectoryInv, TypeOK, Known
<1>2. CASE CheckRoleName(r)
  <2>1. pc[r] = "name" /\ c.op \in Names /\ c.name \in RoleNames
    BY <1>1, <1>2 DEF CheckRoleName, Sound, HoldsWhatItNeeds
  <2>2. CASE Named(c.name) \ {c.role} # {}
    <3>1. Goto(r, "rejected")
      BY <1>2, <2>2 DEF CheckRoleName
    <3> QED
      BY <3>1, GotoKeepsInv DEF PCs, Ended, Holding
  <2>3. CASE Named(c.name) \ {c.role} = {} /\ c.op = "update_role"
    <3>1. Goto(r, "answered") /\ ~Holding("answered", c)
      BY <1>2, <2>3 DEF CheckRoleName, Holding
    <3>2. Sound("answered", c)
      BY <1>1, <2>1, <2>3
      DEF Sound, HoldsWhatItNeeds, KeyUnlessCrossed, KeyIsHeld, CheckIsExplained, KeyIsFree,
          ErrorIsExplained, VerdictIsExplained, RoleOps
    <3> QED
      BY <3>1, <3>2, GotoKeepsInv DEF PCs
  <2>4. CASE Named(c.name) \ {c.role} = {} /\ c.op = "create_role"
    <3>1. Goto(r, "write") /\ ~Holding("write", c)
      BY <1>2, <2>4 DEF CheckRoleName, Holding
    <3>2. Named(c.name) = {}
      BY <1>1, <2>4 DEF Sound, HoldsWhatItNeeds, Named
    <3>3. Sound("write", c)
      BY <1>1, <2>1, <2>4, <3>2
      DEF Sound, HoldsWhatItNeeds, KeyUnlessCrossed, KeyIsHeld, CheckIsExplained, KeyIsFree,
          ErrorIsExplained, VerdictIsExplained, Assigns
    <3> QED
      BY <3>1, <3>3, GotoKeepsInv DEF PCs
  <2> QED
    BY <2>1, <2>2, <2>3, <2>4 DEF Names
<1>3. CASE CheckPair(r)
  <2>1. pc[r] = "has" /\ c.op \in Assigns /\ c.pair \in Pairs
    BY <1>1, <1>3 DEF CheckPair, Sound, HoldsWhatItNeeds
  <2> DEFINE fits == IF c.op = "grant" THEN RoleExists(c.pair) /\ c.pair \notin pairs
                                       ELSE c.pair \in pairs
  <2>2. CASE ~fits
    <3>1. Goto(r, "rejected")
      BY <1>3, <2>2 DEF CheckPair
    <3> QED
      BY <3>1, GotoKeepsInv DEF PCs, Ended, Holding
  <2>3. CASE fits
    <3>1. Goto(r, "write") /\ ~Holding("write", c)
      BY <1>3, <2>3 DEF CheckPair, Holding
    <3>2. c.op = "grant" => c.pair \in (Users \X Created) \cup (Created \X Permissions)
      BY <2>1, <2>3 DEF RoleExists, Pairs, Created
    <3>3. Sound("write", c)
      BY <1>1, <2>1, <2>3, <3>2
      DEF Sound, HoldsWhatItNeeds, KeyUnlessCrossed, KeyIsHeld, CheckIsExplained, KeyIsFree,
          ErrorIsExplained, VerdictIsExplained, Assigns, Names
    <3> QED
      BY <3>1, <3>3, GotoKeepsInv DEF PCs
  <2> QED
    BY <2>2, <2>3
<1> QED
  BY <1>2, <1>3

\* A write waits for the holders of its key, if it can see them; what it then gets
\* through is its own.  A DELETE that finds its pair meets no grant of it under way.
LEMMA WriteKeepsInv ==
    ASSUME DirectoryInv, NEW r \in Requests, Write(r)
    PROVE  DirectoryInv'
<1> DEFINE c == call[r]
           gone == c.op = "revoke" /\ c.pair \notin pairs
<1>1. /\ pc[r] = "write" /\ Holders(r) = {}
      /\ Sound("write", c) /\ c \in Calls
      /\ Goto(r, IF gone THEN "done"
                 ELSE IF Refers(c) /\ KeyIsFree(c) THEN "answered" ELSE "error")
  BY DEF Write, DirectoryInv, TypeOK
<1>2. c.op \in {"create_role", "grant", "revoke"}
  BY <1>1 DEF Sound, HoldsWhatItNeeds
<1>3. CASE gone
  <2>1. Goto(r, "done") /\ ~Holding("done", c)
    BY <1>1, <1>3 DEF Holding
  <2> QED
    BY <2>1, GotoKeepsInv DEF PCs, Ended
<1>4. CASE ~gone /\ ~(Refers(c) /\ KeyIsFree(c))
  <2>1. Goto(r, "error") /\ ~Holding("error", c)
    BY <1>1, <1>4 DEF Holding
  <2>2. c.crossed \/ NoSuchUser(c)
    <3>1. ASSUME ~Refers(c) PROVE NoSuchUser(c)
      <4>1. c.op = "grant" /\ c.pair[1] \in Users \ Registered
        BY <3>1 DEF Refers
      <4>2. MayAskFor(c.pair)
        BY <1>1, <4>1 DEF Sound, HoldsWhatItNeeds, Assigns
      <4> QED
        BY <4>1, <4>2 DEF MayAskFor, NoSuchUser
    <3>2. ASSUME ~KeyIsFree(c) PROVE c.crossed
      BY <1>1, <3>2 DEF Sound, KeyUnlessCrossed
    <3> QED
      BY <1>4, <3>1, <3>2
  <2>3. Sound("error", c)
    BY <1>1, <1>2, <2>2
    DEF Sound, HoldsWhatItNeeds, KeyUnlessCrossed, KeyIsHeld, CheckIsExplained,
        ErrorIsExplained, VerdictIsExplained, UserOps
  <2> QED
    BY <2>1, <2>3, GotoKeepsInv DEF PCs, Ended
<1>5. CASE ~gone /\ Refers(c) /\ KeyIsFree(c)
  <2>1. Goto(r, "answered")
    BY <1>1, <1>5
  <2>2. ASSUME NEW q \in Requests \ {r}, Holding(pc[q], call[q])
        PROVE  ~Crosses(call[q], c)
    <3>1. CASE c.op = "revoke" => call[q].op = "revoke"
      BY <1>1, <2>2, <3>1 DEF Holders, Holding
    <3>2. CASE c.op = "revoke" /\ call[q].op # "revoke"
      <4>1. c.pair \in pairs /\ c.name = None
        BY <1>1, <1>5, <3>2 DEF Sound, HoldsWhatItNeeds, Names
      <4>2. /\ call[q].op \in {"create_role", "grant"}
            /\ call[q].op = "grant" => call[q].pair \notin pairs
            /\ call[q].op = "create_role" => call[q].pair = None
        BY <2>2, <3>2
        DEF DirectoryInv, Sound, HoldsWhatItNeeds, KeyIsHeld, KeyIsFree, Holding, RoleOps,
            Assigns
      <4> QED
        BY <4>1, <4>2 DEF Crosses
    <3> QED
      BY <3>1, <3>2
  <2>3. c.op = "grant" => c.pair \in Known
    <3> SUFFICES ASSUME c.op = "grant" PROVE c.pair \in Known
      OBVIOUS
    <3>1. c.pair \in (Users \X Created) \cup (Created \X Permissions)
      BY <1>1 DEF Sound, KeyUnlessCrossed
    <3>2. c.pair[1] \in Users => c.pair[1] \in Registered
      BY <1>5 DEF Refers
    <3> QED
      BY <3>1, <3>2 DEF Known
  <2>4. Sound("answered", c)
    BY <1>1, <1>2, <1>5, <2>3
    DEF Sound, HoldsWhatItNeeds, KeyUnlessCrossed, KeyIsHeld, CheckIsExplained,
        ErrorIsExplained, VerdictIsExplained, RoleOps
  <2> QED
    BY <2>1, <2>2, <2>4, GotoKeepsInv DEF PCs
<1> QED
  BY <1>3, <1>4, <1>5

\* The commit of a name that no other role has.
LEMMA NamingKeepsInv ==
    ASSUME DirectoryInv, NEW r \in Requests, NEW ro \in Roles, Committed(r),
           call[r].name \in RoleNames,
           roleName' = [roleName EXCEPT ![ro] = call[r].name],
           UNCHANGED <<profile, pairs>>,
           Named(call[r].name) \subseteq {ro},
           \A q \in Requests \ {r} : Holding(pc[q], call[q]) => ~Crosses(call[q], call[r])
    PROVE  DirectoryInv'
<1> DEFINE n == call[r].name
<1>1. roleName \in [Roles -> RoleNames \cup {None}] /\ pairs \subseteq Known
  BY DEF DirectoryInv, TypeOK, Known
<1>2. \A q \in Roles : roleName'[q] = IF q = ro THEN n ELSE roleName[q]
  BY <1>1
<1>3. Registered' = Registered /\ Created' = Created \cup {ro}
  BY <1>2, DirectoryConstants DEF Registered, Created
<1>4. \A m \in RoleNames \ {n} : Named(m)' \subseteq Named(m)
  BY <1>2 DEF Named
<1>5. CommitsOnly(call[r])
  BY <1>3, <1>4 DEF CommitsOnly
<1>6. pairs' \subseteq Known'
  BY <1>1, <1>3 DEF Known
<1>7. IdentitiesUnique'
  <2>1. \A q, p \in Created' : roleName'[q] = roleName'[p] => q = p
    BY <1>2, <1>3 DEF Named, Created, DirectoryInv, IdentitiesUnique
  <2> QED
    BY <2>1, <1>3 DEF DirectoryInv, IdentitiesUnique
<1>8. profile' \in [Users -> ProfileRows] /\ roleName' \in [Roles -> RoleNames \cup {None}]
  BY <1>1 DEF DirectoryInv, TypeOK
<1> QED
  BY <1>5, <1>6, <1>7, <1>8, CommittedKeepsInv

\* get_session commits what was written, or finds the new name taken.
LEMMA CommitKeepsInv ==
    ASSUME DirectoryInv, NEW r \in Requests, Commit(r)
    PROVE  DirectoryInv'
<1> DEFINE c == call[r]
<1>1. /\ pc[r] = "answered" /\ Sound("answered", c)
      /\ c.op = "update_role" => Holders(r) = {}
  BY DEF Commit, DirectoryInv
<1>2. \A q \in Requests \ {r} : Holding(pc[q], call[q]) => ~Crosses(call[q], c)
  <2>1. CASE c.op = "update_role"
    BY <1>1, <2>1 DEF Holders, Holding
  <2>2. CASE c.op # "update_role"
    BY <1>1, <2>2 DEF DirectoryInv, HoldersApart, Holding
  <2> QED
    BY <2>1, <2>2
<1>3. c.op \in Names => c.name \in RoleNames
  BY <1>1 DEF Sound, HoldsWhatItNeeds
<1>4. ASSUME c.op = "create_role",
             \E ro \in Roles \ Created : roleName' = [roleName EXCEPT ![ro] = c.name],
             UNCHANGED <<profile, pairs>>, Committed(r)
      PROVE  DirectoryInv'
  <2>1. PICK ro \in Roles \ Created : roleName' = [roleName EXCEPT ![ro] = c.name]
    BY <1>4
  <2>2. Named(c.name) \subseteq {ro}
    BY <1>1, <1>4 DEF Sound, KeyIsHeld, KeyIsFree
  <2> QED
    BY <1>2, <1>3, <1>4, <2>1, <2>2, NamingKeepsInv DEF Names
<1>5. ASSUME c.op = "update_role", Named(c.name) \subseteq {c.role},
             roleName' = [roleName EXCEPT ![c.role] = c.name],
             UNCHANGED <<profile, pairs>>, Committed(r)
      PROVE  DirectoryInv'
  <2>1. c.role \in Roles
    BY <1>1, <1>5 DEF Sound, HoldsWhatItNeeds, Created
  <2> QED
    BY <1>2, <1>3, <1>5, <2>1, NamingKeepsInv DEF Names
<1>6. ASSUME c.op = "update_role", ~(Named(c.name) \subseteq {c.role}), Goto(r, "error")
      PROVE  DirectoryInv'
  <2>1. c.crossed /\ c.op \notin UserOps
    BY <1>1, <1>6 DEF Sound, KeyUnlessCrossed, UserOps
  <2>2. Sound("error", c)
    BY <1>1, <2>1 DEF Sound, HoldsWhatItNeeds, KeyUnlessCrossed, KeyIsHeld, CheckIsExplained,
                      ErrorIsExplained, VerdictIsExplained
  <2> QED
    BY <1>6, <2>2, GotoKeepsInv DEF PCs, Ended, Holding
<1>7. ASSUME c.op \in {"grant", "revoke"},
             pairs' = IF c.op = "grant" THEN pairs \cup {c.pair} ELSE pairs \ {c.pair},
             UNCHANGED <<profile, roleName>>, Committed(r)
      PROVE  DirectoryInv'
  <2>1. Registered' = Registered /\ Created' = Created
    BY <1>7 DEF Registered, Created
  <2>2. CommitsOnly(c)
    BY <1>7, <2>1 DEF CommitsOnly, Named
  <2>3. pairs \subseteq Known /\ (c.op = "grant" => c.pair \in Known)
    BY <1>1 DEF DirectoryInv, TypeOK, Known, Sound, KeyIsHeld
  <2>4. pairs' \subseteq Known'
    BY <1>7, <2>1, <2>3 DEF Known
  <2>5. IdentitiesUnique'
    BY <1>7, <2>1 DEF DirectoryInv, IdentitiesUnique
  <2>6. profile' \in [Users -> ProfileRows] /\ roleName' \in [Roles -> RoleNames \cup {None}]
    BY <1>7 DEF DirectoryInv, TypeOK
  <2> QED
    BY <1>2, <1>7, <2>2, <2>4, <2>5, <2>6, CommittedKeepsInv
<1> QED
  BY <1>4, <1>5, <1>6, <1>7 DEF Commit

\* A check that has read less than its permissions is explained by the present pairs.
LEMMA BeginCheckKeepsInv ==
    ASSUME DirectoryInv, NEW r \in Requests, BeginCheck(r)
    PROVE  DirectoryInv'
<1>1. PICK u \in Registered, p \in Permissions :
         Begin(r, [Request("check") EXCEPT !.user = u, !.permission = p, !.roles = RolesOf(u),
                                           !.truths = {Holds(u, p, pairs)},
                                           !.barred = ~Holds(u, p, Told)], "roles")
  BY DEF BeginCheck
<1>2. PICK truth \in BOOLEAN : truth <=> Holds(u, p, pairs)
  BY DEF Holds
<1>3. PICK barred \in BOOLEAN : barred <=> ~Holds(u, p, Told)
  BY DEF Holds
<1>4. {truth} = {Holds(u, p, pairs)} /\ barred = ~Holds(u, p, Told)
  BY <1>2, <1>3 DEF Holds
<1> DEFINE c == [NoCall EXCEPT !.op = "check", !.user = u, !.permission = p,
                               !.roles = RolesOf(u), !.truths = {truth}, !.barred = barred]
<1>5. Begin(r, c, "roles")
  BY <1>1, <1>4 DEF Request
<1>6. u \in Users /\ RolesOf(u) \in SUBSET Roles
  BY DEF Registered, RolesOf
<1>7. c \in Calls
  <2> DEFINE reads == RolesOf(u)
             known == {truth}
  <2>1. reads \in SUBSET Roles /\ known \in SUBSET BOOLEAN
    BY <1>6
  <2> HIDE DEF reads, known
  <2>2. [NoCall EXCEPT !.op = "check", !.user = u, !.permission = p,
                       !.roles = reads, !.truths = known, !.barred = barred] \in Calls
    BY <1>6, <2>1, NoCallIsSound DEF Calls
  <2> QED
    BY <2>2 DEF reads, known
<1>8. /\ c.op = "check" /\ c.user = u /\ c.permission = p /\ c.roles = RolesOf(u)
      /\ c.truths = {truth} /\ c.changes = 0 /\ c.name = None /\ c.pair = None
      /\ c.role = None
  BY DEF NoCall
<1> HIDE DEF c
<1>9. Explains("roles", c, pairs)
  BY <1>2, <1>8 DEF Explains, Witnessed, RolesOf
<1>10. Sound("roles", c)
  BY <1>6, <1>8, <1>9
  DEF Sound, HoldsWhatItNeeds, KeyUnlessCrossed, KeyIsHeld, CheckIsExplained,
      ErrorIsExplained, VerdictIsExplained, Names, Assigns
<1> QED
  BY <1>5, <1>7, <1>10, BeginKeepsInv DEF PCs

\* The second read of the roles.
LEMMA ReadRolesKeepsInv ==
    ASSUME DirectoryInv, NEW r \in Requests, ReadRoles(r)
    PROVE  DirectoryInv'
<1> DEFINE c == call[r]
<1>1. c \in Calls /\ Sound("roles", c) /\ calls \in 0..MaxCalls /\ faults \in 0..MaxFaults
  BY DEF ReadRoles, DirectoryInv, TypeOK
<1>2. RolesOf(c.user) \in SUBSET Roles
  BY DEF RolesOf
<1>3. PICK d : d = [c EXCEPT !.again = RolesOf(c.user)]
  OBVIOUS
<1>4. d \in Calls
  BY <1>1, <1>2, <1>3 DEF Calls
<1>5. /\ d.op = c.op /\ d.user = c.user /\ d.permission = c.permission /\ d.name = c.name
      /\ d.pair = c.pair /\ d.role = c.role /\ d.changes = c.changes /\ d.roles = c.roles
      /\ d.truths = c.truths /\ d.again = RolesOf(c.user)
  BY <1>1, <1>3 DEF Calls
<1>6. CheckIsExplained("permissions", d)
  <2> SUFFICES ASSUME c.changes < 2 PROVE \E was : Explains("permissions", d, was)
    BY <1>5 DEF CheckIsExplained
  <2>1. PICK was : Explains("roles", c, was)
    BY <1>1 DEF Sound, CheckIsExplained
  <2>2. Explains("permissions", d, was)
    BY <1>5, <2>1 DEF Explains, Witnessed
  <2> QED
    BY <2>2
<1>7. Sound("permissions", d)
  BY <1>1, <1>5, <1>6
  DEF Sound, HoldsWhatItNeeds, KeyUnlessCrossed, KeyIsHeld, ErrorIsExplained, VerdictIsExplained
<1>8. call' = [call EXCEPT ![r] = d] /\ ~Holding("permissions", d)
  BY <1>3 DEF ReadRoles, DirectoryInv, TypeOK, Holding
<1> QED
  BY <1>1, <1>4, <1>7, <1>8, QuietStep DEF ReadRoles, PCs

\* The verdict of a check that at most one change overtook was true at some moment:
\* an added pair opens no way that was not there before or is there after, and a
\* removed one closes none without having been open.
LEMMA VerdictFollows ==
    ASSUME NEW c \in Calls, NEW was, Explains("permissions", c, was)
    PROVE  /\ (\E ro \in LookedAt(c) : <<ro, c.permission>> \in pairs) => TRUE \in c.truths
           /\ c.roles \subseteq c.again
                /\ ~(\E ro \in LookedAt(c) : <<ro, c.permission>> \in pairs)
              => FALSE \in c.truths
<1>1. /\ was \subseteq pairs \/ pairs \subseteq was
      /\ Witnessed(c, was) /\ Witnessed(c, pairs)
      /\ c.roles = {ro \in Roles : <<c.user, ro>> \in was}
      /\ c.again = c.roles \/ c.again = {ro \in Roles : <<c.user, ro>> \in pairs}
  BY DEF Explains, RolesOf
<1>2. ASSUME NEW ro \in LookedAt(c), <<ro, c.permission>> \in pairs
      PROVE  TRUE \in c.truths
  <2>1. ro \in Roles /\ <<c.user, ro>> \in was
    BY <1>1, <1>2 DEF LookedAt
  <2>2. CASE <<c.user, ro>> \in pairs
    BY <1>1, <1>2, <2>1, <2>2 DEF Holds, Witnessed
  <2>3. CASE <<c.user, ro>> \notin pairs
    <3>1. pairs \subseteq was
      BY <1>1, <2>1, <2>3
    <3> QED
      BY <1>1, <1>2, <2>1, <3>1 DEF Holds, Witnessed
  <2> QED
    BY <2>2, <2>3
<1>3. ASSUME c.roles \subseteq c.again,
             ~(\E ro \in LookedAt(c) : <<ro, c.permission>> \in pairs)
      PROVE  FALSE \in c.truths
  <2>1. \A ro \in c.roles : <<ro, c.permission>> \notin pairs
    BY <1>3 DEF LookedAt
  <2>2. CASE was \subseteq pairs
    <3>1. ~Holds(c.user, c.permission, was)
      BY <1>1, <2>1, <2>2 DEF Holds
    <3> QED
      BY <1>1, <3>1 DEF Witnessed
  <2>3. CASE pairs \subseteq was
    <3>1. ~Holds(c.user, c.permission, pairs)
      BY <1>1, <2>1, <2>3 DEF Holds
    <3> QED
      BY <1>1, <3>1 DEF Witnessed
  <2> QED
    BY <1>1, <2>2, <2>3
<1> QED
  BY <1>2, <1>3

\* The verdict.
LEMMA DecideKeepsInv ==
    ASSUME DirectoryInv, NEW r \in Requests, Decide(r)
    PROVE  DirectoryInv'
<1> DEFINE c == call[r]
           allowed == \E ro \in LookedAt(c) : <<ro, c.permission>> \in pairs
<1>1. c \in Calls /\ Sound("permissions", c) /\ c.changes \in 0..2
  BY DEF Decide, DirectoryInv, TypeOK, Calls
<1>2. c.op = "check"
  BY <1>1 DEF Sound, HoldsWhatItNeeds
<1>3. ASSUME c.changes < 2
      PROVE  /\ allowed => TRUE \in c.truths
             /\ c.roles \subseteq c.again /\ ~allowed => FALSE \in c.truths
  BY <1>1, <1>3, VerdictFollows DEF Sound, CheckIsExplained
<1>4. ASSUME c.changes = 0 PROVE c.roles \subseteq c.again
  <2>1. PICK was : Explains("permissions", c, was)
    BY <1>1, <1>4 DEF Sound, CheckIsExplained
  <2> QED
    BY <1>4, <2>1 DEF Explains, RolesOf
<1> HIDE DEF allowed
<1>5. PICK s \in {"allowed", "denied", "error"} :
         /\ Goto(r, s)
         /\ s = "allowed" => allowed
         /\ s = "denied" => ~allowed /\ c.roles \subseteq c.again
         /\ s = "error" => ~(c.roles \subseteq c.again)
  BY DEF Decide, allowed
<1>6. Sound(s, c)
  <2>1. HoldsWhatItNeeds(s, c) /\ KeyUnlessCrossed(s, c) /\ KeyIsHeld(s, c)
    BY <1>1 DEF Sound, HoldsWhatItNeeds, KeyUnlessCrossed, KeyIsHeld
  <2>2. CheckIsExplained(s, c)
    BY DEF CheckIsExplained
  <2>3. ErrorIsExplained(s, c)
    BY <1>1, <1>2, <1>4, <1>5 DEF ErrorIsExplained, UserOps
  <2>4. VerdictIsExplained(s, c)
    <3>1. c.changes < 2 \/ c.changes > 1
      BY <1>1
    <3>2. ASSUME c.changes < 2
          PROVE  (s = "allowed" => TRUE \in c.truths) /\ (s = "denied" => FALSE \in c.truths)
      BY <1>3, <1>5, <3>2, Zenon
    <3> QED
      BY <3>1, <3>2 DEF VerdictIsExplained
  <2> QED
    BY <2>1, <2>2, <2>3, <2>4 DEF Sound
<1> QED
  BY <1>5, <1>6, GotoKeepsInv DEF PCs, Ended, Holding

\* A lost process leaves no call.
LEMMA CrashKeepsInv ==
    ASSUME DirectoryInv, NEW r \in Requests, Crash(r)
    PROVE  DirectoryInv'
<1>1. calls' \in 0..MaxCalls /\ faults' \in 0..MaxFaults
  BY DirectoryConstants DEF Crash, DirectoryInv, TypeOK
<1> QED
  BY <1>1, NoCallIsSound, QuietStep DEF Crash, PCs, Ended, Holding

-----------------------------------------------------------------------------
(* The theorems *)

\* The invariant holds throughout.
LEMMA DirectoryInvHolds == Spec => []DirectoryInv
<1>1. DirectoryInv /\ [Next]_vars => DirectoryInv'
  <2> SUFFICES ASSUME DirectoryInv, [Next]_vars PROVE DirectoryInv'
    OBVIOUS
  <2>1. ASSUME NEW r \in Requests, Step(r) PROVE DirectoryInv'
    BY <2>1, BeginningKeepsInv, LookingUpUsersKeepsInv, WritingUsersKeepsInv,
       LookingUpRolesKeepsInv, WriteKeepsInv, CommitKeepsInv, BeginCheckKeepsInv,
       ReadRolesKeepsInv, DecideKeepsInv, CrashKeepsInv
    DEF Step
  <2>2. CASE UNCHANGED vars
    <3>1. UNCHANGED tables /\ pc' = pc /\ call' = call /\ calls' = calls /\ faults' = faults
      BY <2>2 DEF vars
    <3>2. \A r \in Requests : Sound(pc[r], call[r])'
      BY <3>1, SoundOfTables DEF DirectoryInv
    <3> QED
      BY <3>1, <3>2 DEF DirectoryInv, TypeOK, IdentitiesUnique, HoldersApart, tables,
                        Registered, Created
  <2> QED
    BY <2>1, <2>2 DEF Next
<1> QED
  BY <1>1, InitDirectoryInv, PTL DEF Spec

\* Every variable has its type: in particular a role is assigned to registered users
\* only, as the foreign key of user_roles wants it, whatever calls overlap.
THEOREM DirectoryWellTyped == Spec => []TypeOK
<1>1. DirectoryInv => TypeOK
  BY DEF DirectoryInv
<1> QED
  BY <1>1, DirectoryInvHolds, PTL

\* No two users have one email or one username and no two roles one name: two calls may
\* find a key free, and one of them is turned away.
THEOREM KeysStayUnique == Spec => []IdentitiesUnique
<1>1. DirectoryInv => IdentitiesUnique
  BY DEF DirectoryInv
<1> QED
  BY <1>1, DirectoryInvHolds, PTL

\* An unhandled error is given to no call of the users service, and otherwise only to
\* a write that another overtook on its key, to a grant to a user who does not exist
\* (nothing looks the user up, and the foreign key raises), or to a check of a user
\* whose roles changed while it ran.
THEOREM ErrorsAreExplained == Spec => []ErrorsExplained
<1>1. DirectoryInv => ErrorsExplained
  BY DEF DirectoryInv, Sound, ErrorIsExplained, ErrorsExplained
<1> QED
  BY <1>1, DirectoryInvHolds, PTL

\* The verdict of a permission check that at most one change overtook was the truth at
\* some moment while it ran (get_current_user, ensure_permission).
THEOREM VerdictsWereTrue == Spec => []VerdictsExplained
<1>1. DirectoryInv => VerdictsExplained
  BY DEF DirectoryInv, Sound, VerdictIsExplained, VerdictsExplained
<1> QED
  BY <1>1, DirectoryInvHolds, PTL

\* A role or permission that is assigned by several calls at once is assigned by one of
\* them: when the answer to an assignment is out, the pair is still free for its commit.
THEOREM PairsGrantedOnce == Spec => GrantedOnce
<1>1. DirectoryInv =>
        \A r \in Requests :
           call[r].op = "grant" /\ pc[r] = "answered" /\ pc'[r] = "done"
             => call[r].pair \notin pairs
  BY DEF DirectoryInv, Sound, KeyIsHeld, KeyIsFree
<1> QED
  BY <1>1, DirectoryInvHolds, PTL DEF GrantedOnce
=============================================================================
