------------------------------ MODULE Directory ------------------------------
(***************************************************************************)
(* Who there is and who may do what: registration and profiles (users), and *)
(* roles, permissions and the permission check (rbac).                      *)
(*                                                                         *)
(* The users service commits in its repository.  The rbac service does not: *)
(* what it writes is committed when the session dependency is left, and the *)
(* framework leaves it after the response was sent.  Until then the write   *)
(* is visible to nobody, but another insert of the same key waits for it.   *)
(*                                                                         *)
(* A permission check reads three times: the roles that get_current_user    *)
(* loads with the user, then the roles once more, then the permissions of   *)
(* these.  The second read does not replace the first, whose roles are the  *)
(* ones looked at.                                                          *)
(*                                                                         *)
(* Assignments of roles and permissions are alike: a pair of a user and a   *)
(* role, or of a role and a permission.  The fields truths, changes, barred *)
(* and crossed of a call are history for the properties.                    *)
(***************************************************************************)
EXTENDS Integers, FiniteSets

CONSTANTS
    Users, Roles,                    \* identities
    Emails, Usernames, RoleNames, Permissions,
    Requests,
    MaxCalls,                        \* bound on the calls of a behaviour
    MaxFaults,                       \* bound on processes lost
    Unknown,                         \* an id that no user ever has
    None, Null

Pairs == (Users \X Roles) \cup (Roles \X Permissions)

\* None stands for what is not given and Null for an explicit null.  A role is neither
\* a user nor a permission.
ASSUME DirectoryConstants ==
    /\ MaxCalls \in Nat /\ MaxFaults \in Nat
    /\ Unknown \in Users
    /\ Null \notin Emails \cup Usernames \cup {None}
    /\ None \notin Roles \cup Emails \cup Usernames \cup RoleNames \cup Pairs
    /\ Roles \cap (Users \cup Permissions) = {}

VARIABLES
    profile,     \* the users rows
    roleName,    \* the roles rows
    pairs,       \* user_roles and role_permissions, committed
    pc, call,    \* the next step of each call, or how it ended, and what it holds
    calls, faults

tables == <<profile, roleName, pairs>>
vars   == <<tables, pc, call, calls, faults>>

NoProfile   == [email |-> None, username |-> None]
ProfileRows == [email: Emails, username: Usernames] \cup {NoProfile}

NoCall == [op |-> "none", user |-> None, email |-> None, username |-> None, was |-> NoProfile,
           role |-> None, name |-> None, pair |-> None, permission |-> None,
           roles |-> {}, again |-> {}, truths |-> {}, changes |-> 0,
           barred |-> FALSE, crossed |-> FALSE]

UserOps == {"register", "update_profile"}
RoleOps == {"create_role", "update_role", "grant", "revoke"}

Calls == [op: UserOps \cup RoleOps \cup {"check", "none"}, user: Users \cup {None},
          email: Emails \cup {None, Null}, username: Usernames \cup {None, Null},
          was: ProfileRows,
          role: Roles \cup {None}, name: RoleNames \cup {None}, pair: Pairs \cup {None},
          permission: Permissions \cup {None}, roles: SUBSET Roles, again: SUBSET Roles,
          truths: SUBSET BOOLEAN, changes: 0..2, barred: BOOLEAN, crossed: BOOLEAN]

Ended == {"idle", "done", "rejected", "conflict", "error", "allowed", "denied"}
PCs   == Ended \cup {"email", "username", "insert", "save", "name", "has", "write",
                     "answered", "roles", "permissions"}

Registered == {u \in Users : profile[u] # NoProfile}
Created    == {ro \in Roles : roleName[ro] # None}

\* One user with a role, perhaps another role, and any permissions of these.
Init ==
    /\ \E u \in Users \ {Unknown}, row \in ProfileRows \ {NoProfile} :
          profile = [[v \in Users |-> NoProfile] EXCEPT ![u] = row]
    /\ roleName \in [Roles -> RoleNames \cup {None}]
    /\ Cardinality(Created) \in 1..2
    /\ \A q, ro \in Created : roleName[q] = roleName[ro] => q = ro
    /\ \E ro \in Created, ps \in SUBSET (Created \X Permissions) :
          pairs = (Registered \X {ro}) \cup ps
    /\ pc = [r \in Requests |-> "idle"]
    /\ call = [r \in Requests |-> NoCall]
    /\ calls = 0 /\ faults = 0

-----------------------------------------------------------------------------
(* Calls *)

Begin(r, c, first) ==
    /\ pc[r] \in Ended /\ calls < MaxCalls
    /\ calls' = calls + 1
    /\ pc' = [pc EXCEPT ![r] = first]
    /\ call' = [call EXCEPT ![r] = c]
    /\ UNCHANGED <<tables, faults>>

\* What a call holds is kept for the outcomes that a property looks at.
Goto(r, step) ==
    /\ pc' = [pc EXCEPT ![r] = step]
    /\ call' = IF step \in {"done", "rejected", "conflict"} THEN [call EXCEPT ![r] = NoCall] ELSE call
    /\ UNCHANGED <<tables, calls, faults>>

Checks == {r \in Requests : call[r].op = "check" /\ pc[r] \notin Ended}

\* Does user u have permission p, if ps are the pairs?
Holds(u, p, ps) == \E ro \in Roles : <<u, ro>> \in ps /\ <<ro, p>> \in ps

Crosses(c, d) == c.name \in {d.name} \ {None} \/ c.pair \in {d.pair} \ {None}

\* The transaction of call r is committed, and the call is done.  Calls on the same
\* key and checks notice.
Committed(r) ==
    /\ pc' = [pc EXCEPT ![r] = "done"]
    /\ call' = [q \in Requests |->
          IF q = r THEN NoCall
          ELSE [call[q] EXCEPT
                  !.crossed = @ \/ Crosses(call[q], call[r]),
                  !.truths  = IF q \in Checks
                              THEN @ \cup {Holds(call[q].user, call[q].permission, pairs')}
                              ELSE @,
                  !.changes = IF q \in Checks /\ pairs' # pairs /\ @ < 2 THEN @ + 1 ELSE @]]
    /\ UNCHANGED <<calls, faults>>

Request(op) == [NoCall EXCEPT !.op = op]

-----------------------------------------------------------------------------
(* Users: register_user, update_profile *)

BeginUserCall(r) ==
    \/ \E e \in Emails, n \in Usernames :
          Begin(r, [Request("register") EXCEPT !.email = e, !.username = n], "email")
    \/ \E u \in Registered, e \in Emails \cup {None, Null},
          n \in Usernames \cup {None, Null} :
          Begin(r, [Request("update_profile") EXCEPT !.user = u, !.email = e, !.username = n,
                                                     !.was = profile[u]], "save")

\* get_by_email, get_by_username
CheckEmail(r) ==
    /\ pc[r] = "email"
    /\ Goto(r, IF \E u \in Users : profile[u].email = call[r].email THEN "conflict" ELSE "username")

CheckUsername(r) ==
    /\ pc[r] = "username"
    /\ Goto(r, IF \E u \in Users : profile[u].username = call[r].username THEN "conflict" ELSE "insert")

\* Slip: only the two reads guard the columns.
FitsAnyway(u, row) == TRUE

\* The constraints of users: no null, and nobody else's email or username.
Fits(u, row) ==
    /\ Null \notin {row.email, row.username}
    /\ \A v \in Users \ {u} : profile[v].email # row.email /\ profile[v].username # row.username

\* Slip: only register_user catches the IntegrityError.
OnConflictOfRegister(c) == IF c.op = "register" THEN "conflict" ELSE "error"

\* IntegrityError: rolled back and told.
OnConflict(c) == "conflict"

SaveUser(r, u, row) ==
    IF Fits(u, row)
    THEN /\ profile' = [profile EXCEPT ![u] = row]
         /\ UNCHANGED <<roleName, pairs>>
         /\ Committed(r)
    ELSE Goto(r, OnConflict(call[r]))

InsertUser(r) ==
    \E u \in Users \ (Registered \cup {Unknown}) :
        /\ pc[r] = "insert"
        /\ SaveUser(r, u, [email |-> call[r].email, username |-> call[r].username])

\* The UPDATE names the columns that differ from those get_current_user has loaded.
Column(given, loaded, now) == IF given \in {None, loaded} THEN now ELSE given

SaveProfile(r) ==
    LET c == call[r]
        now == profile[c.user]
    IN
    /\ pc[r] = "save"
    /\ SaveUser(r, c.user, [email    |-> Column(c.email, c.was.email, now.email),
                            username |-> Column(c.username, c.was.username, now.username)])

-----------------------------------------------------------------------------
(* Roles and their assignment; the caller has passed a permission check *)

\* Nobody checks that the user of a pair exists.
MayAskFor(p) == p[1] \in Users => p[1] \in Registered \cup {Unknown}

BeginRoleCall(r) ==
    \/ \E n \in RoleNames : Begin(r, [Request("create_role") EXCEPT !.name = n], "name")
    \/ \E ro \in Created, n \in RoleNames :
          Begin(r, [Request("update_role") EXCEPT !.role = ro, !.name = n], "name")
    \/ \E op \in {"grant", "revoke"}, p \in Pairs :
          MayAskFor(p) /\ Begin(r, [Request(op) EXCEPT !.pair = p], "has")

Named(n) == {ro \in Roles : roleName[ro] = n}

\* get_by_name.  A changed name is written at the commit, after the answer.
CheckRoleName(r) ==
    LET c == call[r] IN
    /\ pc[r] = "name"
    /\ Goto(r, IF Named(c.name) \ {c.role} # {} THEN "rejected"
               ELSE IF c.op = "update_role" THEN "answered" ELSE "write")

\* The role of a pair exists.
RoleExists(p) == Created \cap {p[1], p[2]} # {}

\* user_has_role, role_has_permission
CheckPair(r) ==
    LET c == call[r] IN
    /\ pc[r] = "has"
    /\ Goto(r, IF IF c.op = "grant" THEN RoleExists(c.pair) /\ c.pair \notin pairs
                                    ELSE c.pair \in pairs
               THEN "write" ELSE "rejected")

\* Calls that have written the key of r, not committed, and that r waits for: a DELETE
\* waits for another one but does not see a row that is not committed.
Holders(r) ==
    {q \in Requests \ {r} : /\ pc[q] = "answered" /\ call[q].op # "update_role"
                            /\ Crosses(call[q], call[r])
                            /\ call[r].op = "revoke" => call[q].op = "revoke"}

\* Slip: the pair is no primary key.
KeyIsFreeAnyway(c) == c.op = "create_role" => Named(c.name) = {}

\* The constraints of roles, user_roles and role_permissions.
KeyIsFree(c) ==
    /\ c.op = "create_role" => Named(c.name) = {}
    /\ c.op = "grant" => c.pair \notin pairs

\* The foreign key to users.
Refers(c) == c.op = "grant" /\ c.pair[1] \in Users => c.pair[1] \in Registered

\* INSERT or DELETE, and the answer.  Neither the error of a taken key nor that of a
\* user who does not exist is caught; a DELETE of a pair that is gone does nothing.
Write(r) ==
    LET c == call[r] IN
    /\ pc[r] = "write"
    /\ Holders(r) = {}
    /\ Goto(r, IF c.op = "revoke" /\ c.pair \notin pairs THEN "done"
               ELSE IF Refers(c) /\ KeyIsFree(c) THEN "answered" ELSE "error")

\* get_session commits once the answer is sent.  A new name may turn out to be taken.
Commit(r) ==
    LET c == call[r] IN
    /\ pc[r] = "answered"
    /\ c.op = "update_role" => Holders(r) = {}
    /\ \/ /\ c.op = "create_role"
          /\ \E ro \in Roles \ Created : roleName' = [roleName EXCEPT ![ro] = c.name]
          /\ UNCHANGED <<profile, pairs>>
          /\ Committed(r)
       \/ /\ c.op = "update_role" /\ Named(c.name) \subseteq {c.role}
          /\ roleName' = [roleName EXCEPT ![c.role] = c.name]
          /\ UNCHANGED <<profile, pairs>>
          /\ Committed(r)
       \/ /\ c.op = "update_role" /\ ~(Named(c.name) \subseteq {c.role})
          /\ Goto(r, "error")
       \/ /\ c.op \in {"grant", "revoke"}
          /\ pairs' = IF c.op = "grant" THEN pairs \cup {c.pair} ELSE pairs \ {c.pair}
          /\ UNCHANGED <<profile, roleName>>
          /\ Committed(r)

-----------------------------------------------------------------------------
(* The permission check: get_current_user, then ensure_permission *)

\* Revocations and assignments as their callers have been told.
Told == (pairs \cup {call[q].pair : q \in {q \in Requests : pc[q] = "answered" /\ call[q].op = "grant"}})
          \ {call[q].pair : q \in {q \in Requests : pc[q] = "answered" /\ call[q].op = "revoke"}}

RolesOf(u) == {ro \in Roles : <<u, ro>> \in pairs}

\* get_current_user
BeginCheck(r) ==
    \E u \in Registered, p \in Permissions :
        Begin(r, [Request("check") EXCEPT !.user = u, !.permission = p, !.roles = RolesOf(u),
                                          !.truths = {Holds(u, p, pairs)},
                                          !.barred = ~Holds(u, p, Told)], "roles")

\* get_user_with_roles_and_permissions: the roles ...
ReadRoles(r) ==
    /\ pc[r] = "roles"
    /\ pc' = [pc EXCEPT ![r] = "permissions"]
    /\ call' = [call EXCEPT ![r].again = RolesOf(call[r].user)]
    /\ UNCHANGED <<tables, calls, faults>>

\* Slip: the roles are those of all users.
LookedAtAll(c) == Created

\* The roles that are looked at and whose permissions are loaded.
LookedAt(c) == c.roles \cap c.again

\* ... and then their permissions.  A role whose permissions were not loaded cannot be
\* looked at, unless one that allows comes first.
Decide(r) ==
    LET c == call[r]
        allowed == \E ro \in LookedAt(c) : <<ro, c.permission>> \in pairs
    IN
    /\ pc[r] = "permissions"
    /\ \/ allowed /\ Goto(r, "allowed")
       \/ ~allowed /\ c.roles \subseteq c.again /\ Goto(r, "denied")
       \/ ~(c.roles \subseteq c.again) /\ Goto(r, "error")

-----------------------------------------------------------------------------

\* The process is lost, and what was answered is undone.  A call lost earlier leaves
\* nothing behind: it is one that takes no further step.
Crash(r) ==
    /\ pc[r] = "answered" /\ faults < MaxFaults
    /\ faults' = faults + 1
    /\ pc' = [pc EXCEPT ![r] = "idle"]
    /\ call' = [call EXCEPT ![r] = NoCall]
    /\ UNCHANGED <<tables, calls>>

Step(r) ==
    \/ BeginUserCall(r) \/ BeginRoleCall(r) \/ BeginCheck(r)
    \/ CheckEmail(r) \/ CheckUsername(r) \/ InsertUser(r) \/ SaveProfile(r)
    \/ CheckRoleName(r) \/ CheckPair(r) \/ Write(r) \/ Commit(r)
    \/ ReadRoles(r) \/ Decide(r)
    \/ Crash(r)

Next == \E r \in Requests : Step(r)

Spec == Init /\ [][Next]_vars

-----------------------------------------------------------------------------
(* Properties *)

\* Every variable has its type, and what is assigned and to whom exists.
TypeOK ==
    /\ profile \in [Users -> ProfileRows]
    /\ roleName \in [Roles -> RoleNames \cup {None}]
    /\ pairs \subseteq (Registered \X Created) \cup (Created \X Permissions)
    /\ pc \in [Requests -> PCs]
    /\ call \in [Requests -> Calls]
    /\ calls \in 0..MaxCalls /\ faults \in 0..MaxFaults

\* No two users have one email or one username and no two roles one name, although
\* each of them is looked up before it is written and two calls may find it free.
IdentitiesUnique ==
    /\ \A u, v \in Registered :
          profile[u].email = profile[v].email \/ profile[u].username = profile[v].username => u = v
    /\ \A q, ro \in Created : roleName[q] = roleName[ro] => q = ro

NoSuchUser(c) == c.op = "grant" /\ c.pair[1] = Unknown

\* A user call that loses such a race is told of the conflict and never ends in an
\* unhandled error, as a role call does that another overtook on the same key or that
\* gives a role to a user who does not exist, and as a permission check does of a user
\* whose roles changed meanwhile.
ErrorsExplained ==
    \A r \in Requests :
        pc[r] = "error" =>
            /\ call[r].op \notin UserOps
            /\ call[r].crossed \/ call[r].changes > 0 \/ NoSuchUser(call[r])

\* A pair is assigned once: of calls that assign the same role or permission at the
\* same time, each having found it unassigned, one succeeds, and the next one only
\* after the pair was taken away again.
GrantedOnce ==
    [][\A r \in Requests :
           call[r].op = "grant" /\ pc[r] = "answered" /\ pc'[r] = "done" => call[r].pair \notin pairs]_vars

\* A permission check that at most one change of roles or permissions overtakes is as
\* good as one read: its verdict was the truth at some moment while it ran, although
\* it reads the roles twice and the permissions later.
VerdictsExplained ==
    \A r \in Requests :
        /\ pc[r] = "allowed" => TRUE \in call[r].truths \/ call[r].changes > 1
        /\ pc[r] = "denied" => FALSE \in call[r].truths \/ call[r].changes > 1

\* A revoked role or permission takes effect immediately (docs/modules/rbac.md): a
\* check that begins when the answer to the revocation is out, and that no other
\* change overtakes, does not allow what was revoked.
RevocationIsImmediate ==
    \A r \in Requests :
        pc[r] = "allowed" /\ call[r].barred => call[r].changes > 0
=============================================================================
