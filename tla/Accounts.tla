------------------------------ MODULE Accounts ------------------------------
(***************************************************************************)
(* Accounts and their sessions: the auth service (login, logout, refresh,   *)
(* forgotten, reset and changed passwords) and the two admin calls of the   *)
(* users service that disable and enable an account.                        *)
(*                                                                         *)
(* Unlike the order calls, these commit after EVERY write: a call is a      *)
(* chain of small transactions and two calls may interleave between any     *)
(* two of them, or one may be cut off there.  Each action is one of those   *)
(* transactions, or the read a call starts with.                            *)
(*                                                                         *)
(* A password is the number of times it was changed.  A refresh token       *)
(* remembers the password its session was opened with and the token it was  *)
(* rotated from; both, and the variables of history, exist for the          *)
(* properties only: no action is guarded by them.                           *)
(***************************************************************************)
EXTENDS Integers, FiniteSets

CONSTANTS
    Users, Tokens, ResetTokens, Admins, Reasons,
    Requests,        \* calls that may be open at the same time
    MaxPassword,     \* bound on password changes
    MaxCalls,        \* bound on the calls of a behaviour
    MaxFaults,       \* bound on calls that are cut off
    None

ASSUME AccountConstants ==
    /\ MaxPassword \in Nat /\ MaxCalls \in Nat /\ MaxFaults \in Nat
    /\ Tokens \cap ResetTokens = {} /\ Users \cap (Tokens \cup ResetTokens) = {}
    /\ None \notin Users \cup Tokens \cup ResetTokens \cup Admins \cup Reasons

VARIABLES
    password,    \* password[u]: how often it was changed
    disabled,    \* disabled[u]: the audit columns; the account is active iff ~at
    refresh,     \* refresh[t]: the refresh_tokens row
    reset,       \* reset[t]: the password_reset_tokens row
    expired,     \* tokens of both kinds whose time is over
    pc, call,    \* the transaction each call does next, and what it holds
    seen,        \* the audit columns an admin call has loaded
    shared,      \* tokens on which calls overlapped, or a call was cut off
    crossed,     \* tokens stored by a call that overlapped the calls that clear such tokens,
                 \* and users last marked by a call that another one had overtaken
    closed,      \* refresh tokens ended by a logout or a new password
    spent,       \* spent[t]: passwords set with reset token t
    unrevoked,   \* users whose new password was saved by a call cut off later
    late,        \* calls begun on an account that has been disabled ever since
    calls, faults

tables  == <<password, disabled, refresh, reset, expired>>
session == <<pc, call, seen>>
history == <<shared, crossed, closed, spent, unrevoked, late>>
vars    == <<tables, session, history, calls, faults>>

NoAudit == [at |-> FALSE, by |-> None, reason |-> None]
Audits  == [at: BOOLEAN, by: Admins \cup {None}, reason: Reasons \cup {None}]

NoToken == [status |-> "none", user |-> None, parent |-> None, password |-> 0]
StoredTokens == [status: {"active", "revoked"}, user: Users, parent: Tokens \cup {None},
                 password: 0..MaxPassword]
RefreshRows  == StoredTokens \cup {NoToken}

NoReset   == [status |-> "none", user |-> None]
ResetRows == [status: {"valid", "used"}, user: Users] \cup {NoReset}

UserOps  == {"login", "logout", "refresh", "forgot", "reset", "change"}
AdminOps == {"enable", "disable"}

NoCall == [op |-> "none", user |-> None, token |-> None, password |-> 0,
           crossed |-> FALSE, by |-> None, reason |-> None]
OpenCalls == [op: UserOps \cup AdminOps, user: Users, token: Tokens \cup ResetTokens \cup {None},
              password: 0..MaxPassword, crossed: BOOLEAN, by: Admins \cup {None},
              reason: Reasons \cup {None}]
Calls == OpenCalls \cup {NoCall}

PCs == {"idle", "check", "revoke", "issue", "invalidate", "store", "save",
        "spend", "revokeAll", "mark"}

Init ==
    /\ password = [u \in Users |-> 0]
    /\ disabled = [u \in Users |-> NoAudit]
    /\ refresh = [t \in Tokens |-> NoToken]
    /\ reset = [t \in ResetTokens |-> NoReset]
    /\ pc = [r \in Requests |-> "idle"]
    /\ call = [r \in Requests |-> NoCall]
    /\ seen = [r \in Requests |-> NoAudit]
    /\ expired = {} /\ shared = {} /\ crossed = {} /\ closed = {}
    /\ spent = [t \in ResetTokens |-> 0]
    /\ unrevoked = {} /\ late = {}
    /\ calls = 0 /\ faults = 0

-----------------------------------------------------------------------------
(* Calls *)

IsActive(u) == ~disabled[u].at

Open       == {r \in Requests : pc[r] # "idle"}
CallsOn(u) == {r \in Open : call[r].user = u}
Holders(t) == {r \in Open : call[r].token = t}

\* Request r makes call c, whose first read has succeeded; `next` is its first transaction.
Begin(r, c, next) ==
    /\ pc[r] = "idle" /\ calls < MaxCalls
    /\ calls' = calls + 1
    /\ pc' = [pc EXCEPT ![r] = next]
    /\ call' = [call EXCEPT ![r] = c]
    /\ late' = IF IsActive(c.user) THEN late ELSE late \cup {r}
    /\ shared' = IF c.token # None /\ Holders(c.token) # {}
                 THEN shared \cup {c.token} ELSE shared
    /\ UNCHANGED <<crossed, closed, spent, unrevoked, faults>>

Goto(r, next) ==
    /\ pc' = [pc EXCEPT ![r] = next]
    /\ UNCHANGED <<call, seen, late, calls, faults>>

\* The response is on its way.
End(r) ==
    /\ pc' = [pc EXCEPT ![r] = "idle"]
    /\ call' = [call EXCEPT ![r] = NoCall]
    /\ seen' = [seen EXCEPT ![r] = NoAudit]
    /\ late' = late \ {r}
    /\ UNCHANGED <<calls, faults>>

UserCall(op, u, t) == [op |-> op, user |-> u, token |-> t, password |-> 0,
                       crossed |-> FALSE, by |-> None, reason |-> None]

\* Slip: only refresh_session asks whether the account is active.
MayGoOnUnlessReset(c) == c.op = "refresh" => IsActive(c.user)

MayGoOn(c) == IsActive(c.user)

\* get_by_id of a user whose token was found: the account may have been disabled.
CheckUser(r) ==
    /\ pc[r] = "check"
    /\ IF MayGoOn(call[r])
       THEN Goto(r, IF call[r].op = "refresh" THEN "revoke" ELSE "save")
       ELSE End(r)
    /\ UNCHANGED <<tables, shared, crossed, closed, spent, unrevoked>>

-----------------------------------------------------------------------------
(* Sessions: login, refresh_session, logout *)

\* get_by_email: the caller knows the password of that moment and the account is active.
ReadLogin(r, u) ==
    /\ IsActive(u)
    /\ Begin(r, [UserCall("login", u, None) EXCEPT !.password = password[u]], "issue")
    /\ UNCHANGED <<tables, seen>>

\* Slip: get_by_token in place of get_active.
IsStored(t) == refresh[t] # NoToken

\* get_active finds token t; only refresh_session looks at its time.
IsLive(t) == refresh[t].status = "active"

ReadToken(r, t, op) ==
    /\ IsLive(t)
    /\ op = "refresh" => t \notin expired
    /\ Begin(r, [UserCall(op, refresh[t].user, t) EXCEPT !.password = refresh[t].password],
             IF op = "refresh" THEN "check" ELSE "revoke")
    /\ UNCHANGED <<tables, seen>>

\* revoke: by id, whatever has become of the token since it was read.
Revoke(r) ==
    LET t == call[r].token IN
    /\ pc[r] = "revoke"
    /\ refresh' = [refresh EXCEPT ![t].status = "revoked"]
    /\ IF call[r].op = "refresh"
       THEN Goto(r, "issue") /\ UNCHANGED closed
       ELSE End(r) /\ closed' = closed \cup {t}
    /\ UNCHANGED <<password, disabled, reset, expired, shared, crossed, spent, unrevoked>>

\* create: the new token of a login, or the heir of a rotated one.
Issue(r, t) ==
    LET c == call[r] IN
    /\ pc[r] = "issue"
    /\ refresh[t] = NoToken
    /\ refresh' = [refresh EXCEPT ![t] = [status |-> "active", user |-> c.user,
                                          parent |-> c.token, password |-> c.password]]
    /\ crossed' = IF c.crossed \/ c.token \in crossed THEN crossed \cup {t} ELSE crossed
    /\ End(r)
    /\ UNCHANGED <<password, disabled, reset, expired, shared, closed, spent, unrevoked>>

-----------------------------------------------------------------------------
(* Passwords: forgot_password, reset_password, change_password *)

ReadForgot(r, u) ==
    /\ IsActive(u)
    /\ Begin(r, UserCall("forgot", u, None), "invalidate")
    /\ UNCHANGED <<tables, seen>>

\* Slip: only the tokens whose time is over are marked.
ExpiredInvalidated(u) ==
    [t \in ResetTokens |->
        IF reset[t].user = u /\ t \in expired
        THEN [reset[t] EXCEPT !.status = "used"] ELSE reset[t]]

Invalidated(u) ==
    [t \in ResetTokens |->
        IF reset[t].user = u THEN [reset[t] EXCEPT !.status = "used"] ELSE reset[t]]

\* invalidate_all_for_user
InvalidateResets(r) ==
    /\ pc[r] = "invalidate"
    /\ reset' = Invalidated(call[r].user)
    /\ Goto(r, "store")
    /\ UNCHANGED <<password, disabled, refresh, expired, shared, crossed, closed, spent, unrevoked>>

\* create; the mail job that follows, deferred or not, changes nothing here.
StoreReset(r, t) ==
    LET u == call[r].user IN
    /\ pc[r] = "store"
    /\ reset[t] = NoReset
    /\ reset' = [reset EXCEPT ![t] = [status |-> "valid", user |-> u]]
    /\ crossed' = IF \E q \in CallsOn(u) \ {r} : call[q].op = "forgot"
                  THEN crossed \cup {t} ELSE crossed
    /\ End(r)
    /\ UNCHANGED <<password, disabled, refresh, expired, shared, closed, spent, unrevoked>>

\* get_valid
ReadReset(r, t) ==
    /\ reset[t].status = "valid" /\ t \notin expired
    /\ Begin(r, UserCall("reset", reset[t].user, t), "check")
    /\ UNCHANGED <<tables, seen>>

\* get_current_user has let the caller in and verify_password has passed.
ReadChange(r, u) ==
    /\ IsActive(u)
    /\ Begin(r, UserCall("change", u, None), "save")
    /\ UNCHANGED <<tables, seen>>

\* save_user
SavePassword(r) ==
    LET c == call[r] IN
    /\ pc[r] = "save"
    /\ password[c.user] < MaxPassword
    /\ password' = [password EXCEPT ![c.user] = @ + 1]
    /\ IF c.op = "reset"
       THEN Goto(r, "spend") /\ spent' = [spent EXCEPT ![c.token] = @ + 1]
       ELSE Goto(r, "revokeAll") /\ UNCHANGED spent
    /\ UNCHANGED <<disabled, refresh, reset, expired, shared, crossed, closed, unrevoked>>

\* Slip: the token is left to expire.
LeftToExpire(t) == reset

Spent(t) == [reset EXCEPT ![t].status = "used"]

\* invalidate
SpendReset(r) ==
    /\ pc[r] = "spend"
    /\ reset' = Spent(call[r].token)
    /\ Goto(r, "revokeAll")
    /\ UNCHANGED <<password, disabled, refresh, expired, shared, crossed, closed, spent, unrevoked>>

\* Slip: rotated tokens are forgotten.
OpenedBy(u) == {t \in Tokens : IsLive(t) /\ refresh[t].user = u /\ refresh[t].parent = None}

SessionsOf(u) == {t \in Tokens : IsLive(t) /\ refresh[t].user = u}

\* revoke_all_for_user.  Calls that are about to open or rotate a session do not notice.
RevokeAll(r) ==
    LET u == call[r].user
        opening == {q \in CallsOn(u) : call[q].op \in {"login", "refresh"}}
    IN
    /\ pc[r] = "revokeAll"
    /\ refresh' = [t \in Tokens |-> IF t \in SessionsOf(u)
                                    THEN [refresh[t] EXCEPT !.status = "revoked"] ELSE refresh[t]]
    /\ closed' = closed \cup SessionsOf(u)
    /\ shared' = shared \cup ({call[q].token : q \in opening} \ {None})
    /\ pc' = [pc EXCEPT ![r] = "idle"]
    /\ call' = [q \in Requests |-> IF q = r THEN NoCall
                                   ELSE IF q \in opening THEN [call[q] EXCEPT !.crossed = TRUE]
                                   ELSE call[q]]
    /\ unrevoked' = unrevoked \ {u}
    /\ late' = late \ {r}
    /\ UNCHANGED <<password, disabled, reset, expired, seen, crossed, spent,
                   calls, faults>>

-----------------------------------------------------------------------------
(* The admin calls: enable_account, disable_account *)

AdminCall(op, u, a, why) == [op |-> op, user |-> u, token |-> None, password |-> 0,
                             crossed |-> FALSE, by |-> a, reason |-> why]

ReadAdmin(r, u, op, a, why) ==
    /\ Begin(r, AdminCall(op, u, a, why), "mark")
    /\ seen' = [seen EXCEPT ![r] = disabled[u]]
    /\ UNCHANGED tables

\* What the call assigns to the three columns.
Intended(c) ==
    IF c.op = "disable" THEN [at |-> TRUE, by |-> c.by, reason |-> c.reason] ELSE NoAudit

\* Slip: enable_account clears disabled_at only.
WritesAt(c, loaded) == IF c.op = "enable" THEN {"at"} ELSE {"at", "by", "reason"}

\* The UPDATE names the columns that differ from the loaded ones; the time of a
\* disable always differs.
Writes(c, loaded) ==
    {k \in {"at", "by", "reason"} : Intended(c)[k] # loaded[k]}
      \cup (IF c.op = "disable" THEN {"at"} ELSE {})

Mark(r) ==
    LET c == call[r]
        marking == {q \in CallsOn(c.user) : pc[q] = "mark"} \ {r}
    IN
    /\ pc[r] = "mark"
    /\ disabled' = [disabled EXCEPT ![c.user] =
                      [k \in DOMAIN NoAudit |-> IF k \in Writes(c, seen[r])
                                                THEN Intended(c)[k] ELSE @[k]]]
    /\ pc' = [pc EXCEPT ![r] = "idle"]
    /\ call' = [q \in Requests |-> IF q = r THEN NoCall
                                   ELSE IF q \in marking THEN [call[q] EXCEPT !.crossed = TRUE]
                                   ELSE call[q]]
    /\ crossed' = IF c.crossed THEN crossed \cup {c.user} ELSE crossed \ {c.user}
    /\ seen' = [seen EXCEPT ![r] = NoAudit]
    /\ late' = (IF disabled'[c.user].at THEN late ELSE late \ CallsOn(c.user)) \ {r}
    /\ UNCHANGED <<password, refresh, reset, expired, shared, closed, spent,
                   unrevoked, calls, faults>>

-----------------------------------------------------------------------------
(* Time and failure *)

LiveTokens == {t \in Tokens : IsLive(t)} \cup {t \in ResetTokens : reset[t].status = "valid"}

\* The time of a dead token does not matter.
Expire(t) ==
    /\ t \in LiveTokens \ expired
    /\ expired' = expired \cup {t}
    /\ UNCHANGED <<password, disabled, refresh, reset, session, history, calls, faults>>

\* The process or its connection is lost between two transactions of the call.
Crash(r) ==
    /\ r \in Open /\ faults < MaxFaults
    /\ faults' = faults + 1
    /\ pc' = [pc EXCEPT ![r] = "idle"]
    /\ call' = [call EXCEPT ![r] = NoCall]
    /\ seen' = [seen EXCEPT ![r] = NoAudit]
    /\ shared' = shared \cup ({call[r].token} \ {None})
    /\ unrevoked' = IF pc[r] \in {"spend", "revokeAll"}
                    THEN unrevoked \cup {call[r].user} ELSE unrevoked
    /\ late' = late \ {r}
    /\ UNCHANGED <<tables, crossed, closed, spent, calls>>

Auth(r) ==
    \/ \E u \in Users : ReadLogin(r, u) \/ ReadForgot(r, u) \/ ReadChange(r, u)
    \/ \E t \in Tokens : ReadToken(r, t, "logout") \/ ReadToken(r, t, "refresh") \/ Issue(r, t)
    \/ \E t \in ResetTokens : ReadReset(r, t) \/ StoreReset(r, t)
    \/ CheckUser(r) \/ Revoke(r) \/ InvalidateResets(r)
    \/ SavePassword(r) \/ SpendReset(r) \/ RevokeAll(r)

Admin(r) ==
    \/ \E u \in Users, a \in Admins, why \in Reasons : ReadAdmin(r, u, "disable", a, why)
    \/ \E u \in Users : ReadAdmin(r, u, "enable", None, None)
    \/ Mark(r)

Next ==
    \/ \E r \in Requests : Auth(r) \/ Admin(r) \/ Crash(r)
    \/ \E t \in Tokens \cup ResetTokens : Expire(t)

Spec == Init /\ [][Next]_vars

-----------------------------------------------------------------------------
(* Properties *)

\* Every variable has its type.
TypeOK ==
    /\ password \in [Users -> 0..MaxPassword]
    /\ disabled \in [Users -> Audits]
    /\ refresh \in [Tokens -> RefreshRows]
    /\ reset \in [ResetTokens -> ResetRows]
    /\ expired \subseteq Tokens \cup ResetTokens
    /\ pc \in [Requests -> PCs]
    /\ call \in [Requests -> Calls]
    /\ seen \in [Requests -> Audits]
    /\ shared \subseteq Tokens \cup ResetTokens
    /\ crossed \subseteq Tokens \cup ResetTokens \cup Users
    /\ closed \subseteq Tokens
    /\ spent \in [ResetTokens -> Nat]
    /\ unrevoked \subseteq Users
    /\ late \subseteq Requests
    /\ calls \in 0..MaxCalls /\ faults \in 0..MaxFaults

Heirs(t)    == {n \in Tokens : refresh[n].parent = t}
Rotating(t) == {r \in Holders(t) : pc[r] = "issue"}

\* Rotation neither forks nor drops a session: a refresh token on which no two
\* calls overlapped and no call was cut off is live and has no heir, or was closed
\* and never gets one, or has exactly one heir, stored or about to be, although
\* its revocation and the heir are two commits (refresh_session).
RotationKeepsOneSession ==
    \A t \in Tokens \ shared :
        LET heirs == Cardinality(Heirs(t)) + Cardinality(Rotating(t)) IN
        CASE refresh[t].status = "none" -> heirs = 0
          [] refresh[t].status = "active" -> heirs = 0
          [] refresh[t].status = "revoked" -> heirs = IF t \in closed THEN 0 ELSE 1

\* A session opened with an older password is alive only while the call that saved
\* the new one has not come to revoke_all_for_user, or was cut off before it, or
\* when the session was just being opened or rotated while all were revoked.
OldPasswordSessionsExplained ==
    \A t \in Tokens :
        IsLive(t) /\ refresh[t].password # password[refresh[t].user] =>
            \/ t \in crossed
            \/ refresh[t].user \in unrevoked
            \/ \E r \in CallsOn(refresh[t].user) : pc[r] \in {"spend", "revokeAll"}

\* One reset token sets at most one password, unless two calls used it at the same
\* moment or the first was cut off: save_user and invalidate are two commits.
ResetSpentOnce == \A t \in ResetTokens \ shared : spent[t] <= 1

\* At most one reset token of a user is valid, however many were mailed, apart
\* from those stored while another forgot_password of that user was running.
OnlyLatestResetValid ==
    \A t1, t2 \in ResetTokens \ crossed :
        /\ reset[t1].status = "valid" /\ reset[t2].status = "valid"
        /\ reset[t1].user = reset[t2].user
        => t1 = t2

\* A call made on a disabled account gets nothing for as long as the account stays
\* disabled: no session, no reset token and no new password.  Every way in (login,
\* refresh, forgot, reset, change) reads and checks the account at another moment.
DisabledStaysOut ==
    [][\A r \in late : pc'[r] # pc[r] =>
           /\ LiveTokens' \subseteq LiveTokens
           /\ password' = password]_vars

\* The audit columns are written together and cleared together (docs/modules/users.md),
\* but for the write of an admin call that another one overtook after it had loaded
\* the account; the next call that is not overtaken mends them.
AuditTrailTornByOverlap ==
    \A u \in Users \ crossed :
        IF disabled[u].at THEN disabled[u].by # None /\ disabled[u].reason # None
                          ELSE disabled[u] = NoAudit
=============================================================================
