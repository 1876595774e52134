--------------------------- MODULE AccountsProofs ---------------------------
(***************************************************************************)
(* For any number of users, tokens, calls and faults: a reset token sets    *)
(* one password, unless calls on it overlapped or one was cut off; only the *)
(* latest reset token of a user is valid, unless it was asked for twice at  *)
(* once; a rotated refresh token has one heir; a session outlives its       *)
(* password only where calls overlap; a call made on a disabled account gets*)
(* nothing; and an audit trail is torn only by overlapping admin calls.     *)
(*                                                                          *)
(* All rest on where a call may be and what it holds there (Fits).  Beyond  *)
(* that, a result is inductive once it says what holds between two commits  *)
(* of one call: a reset token that was spent is still valid until its one   *)
(* holder invalidates it, a revoked token has no heir until its one holder  *)
(* stores it, a new password is saved before old sessions are revoked.      *)
(***************************************************************************)
EXTENDS Accounts, FiniteSetTheorems, TLAPS

\* Which transactions a call comes to, and what token it holds there.
Fits(step, c) ==
    step # "idle" =>
        /\ c.user \in Users
        /\ \/ c.op = "login" /\ step = "issue" /\ c.token = None
           \/ c.op = "logout" /\ step = "revoke" /\ c.token \in Tokens
           \/ c.op = "refresh" /\ step \in {"check", "revoke", "issue"} /\ c.token \in Tokens
           \/ c.op = "forgot" /\ step \in {"invalidate", "store"} /\ c.token = None
           \/ /\ c.op = "reset" /\ step \in {"check", "save", "spend", "revokeAll"}
              /\ c.token \in ResetTokens
           \/ c.op = "change" /\ step \in {"save", "revokeAll"} /\ c.token = None
           \/ c.op \in AdminOps /\ step = "mark" /\ c.token = None

CallsMakeSense == \A r \in Requests : Fits(pc[r], call[r])

\* A token that was never stored was not spent, and no call holds it.
FreshUnspent ==
    \A t \in ResetTokens : reset[t] = NoReset => spent[t] = 0 /\ Holders(t) = {}

\* Nor does a call hold a refresh token that was never stored.
HeldIsStored ==
    \A t \in Tokens : refresh[t] = NoToken => Holders(t) = {}

SpentInv ==
    \A t \in ResetTokens \ shared :
        /\ \A q, r \in Holders(t) : q = r
        /\ spent[t] <= 1
        /\ spent[t] > 0 =>
              /\ \A r \in Holders(t) : pc[r] \in {"spend", "revokeAll"}
              /\ reset[t].status = "valid" => \E r \in Holders(t) : pc[r] = "spend"

\* A call made on a disabled account, and disabled it still is.
LateInv ==
    \A r \in late :
        /\ pc[r] \in {"check", "mark"} \/ (pc[r] = "revoke" /\ call[r].op = "logout")
        /\ disabled[call[r].user].at

AccountInv == TypeOK /\ CallsMakeSense /\ HeldIsStored /\ FreshUnspent /\ SpentInv /\ LateInv

-----------------------------------------------------------------------------
(* Records *)

\* What a call holds when it starts.
LEMMA CallTyped ==
    ASSUME NEW op \in {"forgot", "reset", "change"}, NEW u \in Users,
           NEW t \in Tokens \cup ResetTokens \cup {None}
    PROVE  /\ UserCall(op, u, t) \in Calls
           /\ UserCall(op, u, t).op = op
           /\ UserCall(op, u, t).user = u
           /\ UserCall(op, u, t).token = t
BY AccountConstants DEF UserCall, NoCall, Calls, OpenCalls, UserOps

\* Empty rows are rows.
LEMMA NoRowsTyped ==
    /\ NoCall \in Calls /\ NoAudit \in Audits
    /\ NoToken \in RefreshRows /\ NoReset \in ResetRows
BY DEF NoCall, Calls, OpenCalls, NoAudit, Audits, NoToken, RefreshRows, NoReset, ResetRows

\* A stored token is that of a user.
LEMMA StoredTyped ==
    ASSUME TypeOK
    PROVE  /\ \A t \in Tokens :
                 refresh[t].status # "none" =>
                     /\ refresh[t].user \in Users /\ refresh[t].password \in 0..MaxPassword
                     /\ refresh[t].parent \in Tokens \cup {None}
                     /\ refresh[t].status \in {"active", "revoked"}
           /\ \A t \in ResetTokens :
                 reset[t].status # "none" => /\ reset[t].user \in Users
                                             /\ reset[t].status \in {"valid", "used"}
BY DEF TypeOK, RefreshRows, StoredTokens, ResetRows, NoToken, NoReset

-----------------------------------------------------------------------------
(* Calls begin, go on, end *)

\* No call is open and no token stored.
LEMMA InitAccountInv == Init => AccountInv
<1> SUFFICES ASSUME Init PROVE AccountInv
  OBVIOUS
<1>1. TypeOK
  BY AccountConstants, NoRowsTyped DEF Init, TypeOK, PCs
<1>2. CallsMakeSense /\ HeldIsStored /\ FreshUnspent /\ SpentInv /\ LateInv
  BY DEF Init, CallsMakeSense, HeldIsStored, Fits, FreshUnspent, SpentInv, LateInv, Holders, Open
<1> QED
  BY <1>1, <1>2 DEF AccountInv

\* Whatever leaves the reset tokens alone and only lets calls on them go on or end
\* keeps what is known of spent tokens.
LEMMA TokensStay ==
    ASSUME AccountInv, UNCHANGED <<reset, spent>>, shared \subseteq shared',
           \A t \in Tokens : refresh[t] # NoToken => refresh'[t] # NoToken,
           \A t \in Tokens \cup ResetTokens : Holders(t)' \subseteq Holders(t),
           \A t \in ResetTokens \ shared' : \A r \in Holders(t)' :
               pc'[r] = pc[r] \/ pc[r] \notin {"spend", "revokeAll"},
           \A t \in ResetTokens \ shared' : \A r \in Holders(t) :
               pc[r] = "spend" => r \in Holders(t)' /\ pc'[r] = "spend"
    PROVE  HeldIsStored' /\ FreshUnspent' /\ SpentInv'
<1>1. HeldIsStored' /\ FreshUnspent'
  BY DEF AccountInv, HeldIsStored, FreshUnspent
<1>2. ASSUME NEW t \in ResetTokens \ shared'
      PROVE  /\ \A q, r \in Holders(t)' : q = r
             /\ spent[t] <= 1
             /\ spent[t] > 0 =>
                   /\ \A r \in Holders(t)' : pc'[r] \in {"spend", "revokeAll"}
                   /\ reset[t].status = "valid" => \E r \in Holders(t)' : pc'[r] = "spend"
  <2>1. t \in ResetTokens \ shared
    OBVIOUS
  <2> QED
    BY <2>1 DEF AccountInv, SpentInv
<1> QED
  BY <1>1, <1>2 DEF SpentInv

\* A call begins.
LEMMA CallBegins ==
    ASSUME AccountInv, NEW r \in Requests, NEW c \in Calls, NEW next \in PCs \ {"idle"},
           Begin(r, c, next), Fits(next, c), UNCHANGED tables,
           seen' \in [Requests -> Audits],
           c.token \in Tokens => refresh[c.token] # NoToken,
           c.token \in ResetTokens => reset[c.token].status = "valid",
           disabled[c.user].at =>
               next \in {"check", "mark"} \/ (next = "revoke" /\ c.op = "logout")
    PROVE  AccountInv'
<1>0. /\ pc[r] = "idle" /\ pc' = [pc EXCEPT ![r] = next] /\ call' = [call EXCEPT ![r] = c]
      /\ UNCHANGED <<password, disabled, refresh, reset, expired, crossed, closed, spent,
                     unrevoked, faults>>
  BY DEF Begin, tables
<1>1. TypeOK'
  <2>1. pc' \in [Requests -> PCs] /\ call' \in [Requests -> Calls]
    BY <1>0 DEF AccountInv, TypeOK
  <2>2. calls' \in 0..MaxCalls
    BY AccountConstants DEF Begin, AccountInv, TypeOK
  <2>3. late' \subseteq Requests
    BY DEF Begin, AccountInv, TypeOK
  <2>4. shared' \subseteq Tokens \cup ResetTokens
    BY DEF Begin, AccountInv, TypeOK, Calls, OpenCalls, NoCall
  <2> QED
    BY <1>0, <2>1, <2>2, <2>3, <2>4 DEF AccountInv, TypeOK
<1>2. CallsMakeSense'
  BY <1>0 DEF AccountInv, TypeOK, CallsMakeSense
<1>3. LateInv'
  BY <1>0 DEF AccountInv, TypeOK, LateInv, Begin, IsActive
<1>4. \A t \in Tokens \cup ResetTokens :
                             /\ t # c.token => Holders(t)' = Holders(t)
                             /\ t = c.token => Holders(t)' = Holders(t) \cup {r}
  BY <1>0 DEF AccountInv, TypeOK, Holders, Open
<1>5. \A q \in Requests \ {r} : pc'[q] = pc[q]
  BY <1>0 DEF AccountInv, TypeOK
<1>6. \A t \in ResetTokens : r \notin Holders(t)
  BY <1>0 DEF Holders, Open
<1>7. HeldIsStored' /\ FreshUnspent'
  BY <1>0, <1>4 DEF AccountInv, HeldIsStored, FreshUnspent, NoReset
<1>8. ASSUME NEW t \in ResetTokens \ shared'
      PROVE  /\ \A p, q \in Holders(t)' : p = q
             /\ spent[t] <= 1
             /\ spent[t] > 0 =>
                   /\ \A q \in Holders(t)' : pc'[q] \in {"spend", "revokeAll"}
                   /\ reset[t].status = "valid" => \E q \in Holders(t)' : pc'[q] = "spend"
  <2>1. t \notin shared
    BY DEF Begin
  <2>2. CASE t # c.token
    <3>1. Holders(t)' = Holders(t) /\ \A q \in Holders(t) : pc'[q] = pc[q]
      BY <1>4, <1>5, <1>6, <2>2 DEF Holders, Open
    <3> QED
      BY <2>1, <3>1 DEF AccountInv, SpentInv
  <2>3. CASE t = c.token
    <3>1. Holders(t) = {}
      BY <2>3, AccountConstants DEF Begin
    <3>2. reset[t].status = "valid"
      BY <2>3
    <3>3. spent[t] = 0
      BY <2>1, <3>1, <3>2 DEF AccountInv, SpentInv, TypeOK
    <3> QED
      BY <1>4, <2>3, <3>1, <3>3
  <2> QED
    BY <2>2, <2>3
<1>9. SpentInv'
  BY <1>0, <1>8 DEF SpentInv
<1> QED
  BY <1>1, <1>2, <1>3, <1>7, <1>9 DEF AccountInv

\* A call goes on to its next transaction, or ends, with nothing written.
LEMMA CallGoesOn ==
    ASSUME AccountInv, NEW r \in Requests, CheckUser(r)
    PROVE  AccountInv'
<1>0. /\ pc[r] = "check" /\ Fits("check", call[r]) /\ call[r].user \in Users
      /\ UNCHANGED <<tables, shared, crossed, closed, spent, unrevoked>>
  BY DEF CheckUser, AccountInv, CallsMakeSense, Fits
<1>1. CASE MayGoOn(call[r])
  <2> DEFINE next == IF call[r].op = "refresh" THEN "revoke" ELSE "save"
  <2>1. Goto(r, next)
    BY <1>1 DEF CheckUser
  <2>2. next \in PCs /\ next \in {"revoke", "save"} /\ Fits(next, call[r])
    BY <1>0 DEF PCs, Fits, AdminOps
  <2> HIDE DEF next
  <2>3. /\ pc' = [pc EXCEPT ![r] = next]
        /\ UNCHANGED <<call, seen, late, calls, faults>>
    BY <2>1 DEF Goto
  <2>4. TypeOK' /\ CallsMakeSense'
    BY <1>0, <2>2, <2>3 DEF AccountInv, TypeOK, CallsMakeSense, tables
  <2>5. r \notin late
    BY <1>0, <1>1 DEF MayGoOn, IsActive, AccountInv, LateInv
  <2>6. LateInv'
    BY <1>0, <2>3, <2>5 DEF AccountInv, TypeOK, LateInv, tables
  <2>7. \A t \in Tokens \cup ResetTokens : Holders(t)' = Holders(t)
    BY <1>0, <2>2, <2>3 DEF AccountInv, TypeOK, Holders, Open
  <2>8. \A q \in Requests : q # r => pc'[q] = pc[q]
    BY <2>3 DEF AccountInv, TypeOK
  <2>9. HeldIsStored' /\ FreshUnspent' /\ SpentInv'
    BY <1>0, <2>7, <2>8, TokensStay DEF tables, Holders, Open
  <2> QED
    BY <2>4, <2>6, <2>9 DEF AccountInv
<1>2. CASE ~MayGoOn(call[r])
  <2>1. End(r)
    BY <1>2 DEF CheckUser
  <2>2. TypeOK' /\ CallsMakeSense' /\ LateInv'
    BY <1>0, <2>1, NoRowsTyped DEF AccountInv, TypeOK, CallsMakeSense, LateInv, Fits, End, PCs, tables
  <2>3. \A t \in Tokens \cup ResetTokens : Holders(t)' = Holders(t) \ {r}
    BY <2>1 DEF AccountInv, TypeOK, Holders, Open, End
  <2>4. \A q \in Requests : q # r => pc'[q] = pc[q]
    BY <2>1 DEF AccountInv, TypeOK, End
  <2>5. HeldIsStored' /\ FreshUnspent' /\ SpentInv'
    BY <1>0, <2>3, <2>4, TokensStay DEF tables, Holders, Open
  <2> QED
    BY <2>2, <2>5 DEF AccountInv
<1> QED
  BY <1>1, <1>2

-----------------------------------------------------------------------------
(* The first reads *)

\* The first read of each call opens it, or leaves nothing behind.
LEMMA ReadsKeepInv ==
    ASSUME AccountInv, NEW r \in Requests,
           \/ \E u \in Users : ReadLogin(r, u) \/ ReadForgot(r, u) \/ ReadChange(r, u)
           \/ \E t \in Tokens : ReadToken(r, t, "logout") \/ ReadToken(r, t, "refresh")
           \/ \E t \in ResetTokens : ReadReset(r, t)
           \/ \E u \in Users, a \in Admins, why \in Reasons : ReadAdmin(r, u, "disable", a, why)
           \/ \E u \in Users : ReadAdmin(r, u, "enable", None, None)
    PROVE  AccountInv'
<1> USE AccountConstants
<1>0. None \notin ResetTokens /\ seen \in [Requests -> Audits]
  BY DEF AccountInv, TypeOK
<1>1. ASSUME NEW u \in Users, ReadLogin(r, u) \/ ReadForgot(r, u) \/ ReadChange(r, u)
      PROVE  AccountInv'
  <2> DEFINE login == [UserCall("login", u, None) EXCEPT !.password = password[u]]
  <2>1. /\ login \in Calls
        /\ login.op = "login" /\ login.user = u /\ login.token = None
    BY DEF AccountInv, TypeOK, UserCall, NoCall, Calls, OpenCalls, UserOps
  <2>2. ASSUME NEW op \in {"forgot", "change"}
        PROVE  /\ UserCall(op, u, None) \in Calls
               /\ UserCall(op, u, None).op = op /\ UserCall(op, u, None).user = u
               /\ UserCall(op, u, None).token = None
    BY CallTyped
  <2> HIDE DEF login
  <2>3. CASE ReadLogin(r, u)
    <3>1. Begin(r, login, "issue") /\ UNCHANGED <<tables, seen>> /\ ~disabled[u].at
      BY <2>3 DEF ReadLogin, login, IsActive
    <3>2. Fits("issue", login) /\ "issue" \in PCs \ {"idle"}
      BY <2>1 DEF Fits, PCs
    <3> QED
      BY <1>0, <2>1, <3>1, <3>2, CallBegins
  <2>4. CASE ReadForgot(r, u)
    <3>1. /\ Begin(r, UserCall("forgot", u, None), "invalidate")
          /\ UNCHANGED <<tables, seen>> /\ ~disabled[u].at
      BY <2>4 DEF ReadForgot, IsActive
    <3>2. Fits("invalidate", UserCall("forgot", u, None)) /\ "invalidate" \in PCs \ {"idle"}
      BY <2>2 DEF Fits, PCs
    <3> QED
      BY <1>0, <2>2, <3>1, <3>2, CallBegins
  <2>5. CASE ReadChange(r, u)
    <3>1. /\ Begin(r, UserCall("change", u, None), "save")
          /\ UNCHANGED <<tables, seen>> /\ ~disabled[u].at
      BY <2>5 DEF ReadChange, IsActive
    <3>2. Fits("save", UserCall("change", u, None)) /\ "save" \in PCs \ {"idle"}
      BY <2>2 DEF Fits, PCs
    <3> QED
      BY <1>0, <2>2, <3>1, <3>2, CallBegins
  <2> QED
    BY <1>1, <2>3, <2>4, <2>5
<1>2. ASSUME NEW t \in Tokens, NEW op \in {"logout", "refresh"}, ReadToken(r, t, op)
      PROVE  AccountInv'
  <2> DEFINE c == [UserCall(op, refresh[t].user, t) EXCEPT !.password = refresh[t].password]
             next == IF op = "refresh" THEN "check" ELSE "revoke"
  <2>1. refresh[t].user \in Users /\ refresh[t].password \in 0..MaxPassword
    BY <1>2, StoredTyped DEF ReadToken, IsLive, AccountInv
  <2>2. c \in Calls /\ c.op = op /\ c.user = refresh[t].user /\ c.token = t
    BY <2>1 DEF UserCall, NoCall, Calls, OpenCalls, UserOps
  <2>3. Begin(r, c, next) /\ UNCHANGED <<tables, seen>>
    BY <1>2 DEF ReadToken
  <2> HIDE DEF c
  <2>4. Fits(next, c) /\ next \in PCs \ {"idle"}
    BY <2>1, <2>2 DEF Fits, PCs
  <2>5. next \in {"check", "mark"} \/ (next = "revoke" /\ c.op = "logout")
    BY <2>2
  <2>6. c.token \notin ResetTokens /\ refresh[c.token] # NoToken
    BY <1>2, <2>2 DEF ReadToken, IsLive, NoToken
  <2> HIDE DEF next
  <2> QED
    BY <1>0, <2>2, <2>3, <2>4, <2>5, <2>6, CallBegins
<1>3. ASSUME NEW t \in ResetTokens, ReadReset(r, t)
      PROVE  AccountInv'
  <2> DEFINE c == UserCall("reset", reset[t].user, t)
  <2>1. reset[t].user \in Users /\ reset[t].status = "valid"
    BY <1>3, StoredTyped DEF ReadReset, AccountInv
  <2>2. c \in Calls /\ c.op = "reset" /\ c.user = reset[t].user /\ c.token = t
    BY <2>1, CallTyped
  <2>3. Begin(r, c, "check") /\ UNCHANGED <<tables, seen>>
    BY <1>3 DEF ReadReset
  <2> HIDE DEF c
  <2>4. Fits("check", c) /\ "check" \in PCs \ {"idle"}
    BY <2>1, <2>2 DEF Fits, PCs
  <2> QED
    BY <1>0, <2>1, <2>2, <2>3, <2>4, CallBegins
<1>4. ASSUME NEW u \in Users, NEW c \in Calls, c.op \in AdminOps, c.user = u, c.token = None,
             Begin(r, c, "mark"), UNCHANGED tables, seen' = [seen EXCEPT ![r] = disabled[u]]
      PROVE  AccountInv'
  <2>1. Fits("mark", c) /\ "mark" \in PCs \ {"idle"}
    BY <1>4 DEF Fits, PCs, AdminOps
  <2>2. seen' \in [Requests -> Audits]
    BY <1>0, <1>4 DEF AccountInv, TypeOK
  <2> QED
    BY <1>0, <1>4, <2>1, <2>2, CallBegins
<1>5. ASSUME NEW u \in Users, NEW a \in Admins, NEW why \in Reasons,
             ReadAdmin(r, u, "disable", a, why)
      PROVE  AccountInv'
  <2> DEFINE c == AdminCall("disable", u, a, why)
  <2>1. c \in Calls /\ c.op = "disable" /\ c.user = u /\ c.token = None
    BY DEF AdminCall, Calls, OpenCalls, AdminOps
  <2>2. Begin(r, c, "mark") /\ UNCHANGED tables /\ seen' = [seen EXCEPT ![r] = disabled[u]]
    BY <1>5 DEF ReadAdmin
  <2> HIDE DEF c
  <2> QED
    BY <1>4, <2>1, <2>2 DEF AdminOps
<1>6. ASSUME NEW u \in Users, ReadAdmin(r, u, "enable", None, None)
      PROVE  AccountInv'
  <2> DEFINE c == AdminCall("enable", u, None, None)
  <2>1. c \in Calls /\ c.op = "enable" /\ c.user = u /\ c.token = None
    BY DEF AdminCall, Calls, OpenCalls, AdminOps
  <2>2. Begin(r, c, "mark") /\ UNCHANGED tables /\ seen' = [seen EXCEPT ![r] = disabled[u]]
    BY <1>6 DEF ReadAdmin
  <2> HIDE DEF c
  <2> QED
    BY <1>4, <2>1, <2>2 DEF AdminOps
<1> QED
  BY <1>1, <1>2, <1>3, <1>5, <1>6

-----------------------------------------------------------------------------
(* Sessions *)

\* A token is revoked, for a logout or on the way to its heir.
LEMMA RevokeKeepsInv ==
    ASSUME AccountInv, NEW r \in Requests, Revoke(r)
    PROVE  AccountInv'
<1> DEFINE t == call[r].token
<1>0. /\ pc[r] = "revoke" /\ Fits("revoke", call[r]) /\ call[r].user \in Users
      /\ t \in Tokens /\ t \notin ResetTokens /\ call[r].op \in {"logout", "refresh"}
      /\ refresh' = [refresh EXCEPT ![t].status = "revoked"]
      /\ UNCHANGED <<password, disabled, reset, expired, shared, crossed, spent, unrevoked>>
  BY AccountConstants DEF Revoke, AccountInv, CallsMakeSense, Fits, AdminOps
<1>1. refresh' \in [Tokens -> RefreshRows]
  <2>1. r \in Holders(t)
    BY <1>0 DEF Holders, Open
  <2>2. refresh[t] \in StoredTokens
    BY <1>0, <2>1 DEF AccountInv, TypeOK, HeldIsStored, RefreshRows
  <2>3. [refresh[t] EXCEPT !.status = "revoked"] \in StoredTokens
    BY <2>2 DEF StoredTokens
  <2> QED
    BY <1>0, <2>3 DEF AccountInv, TypeOK, RefreshRows
<1>4. \A v \in Tokens : refresh[v] # NoToken => refresh'[v] # NoToken
  <2>1. \A v \in Tokens : v # t => refresh'[v] = refresh[v]
    BY <1>0 DEF AccountInv, TypeOK
  <2>2. refresh'[t].status = "revoked"
    BY <1>0, <1>1 DEF AccountInv, TypeOK, RefreshRows, StoredTokens, NoToken
  <2> QED
    BY <2>1, <2>2 DEF NoToken
<1>2. CASE call[r].op = "refresh"
  <2>1. pc' = [pc EXCEPT ![r] = "issue"] /\ UNCHANGED <<call, seen, late, calls, faults, closed>>
    BY <1>2 DEF Revoke, Goto
  <2>2. TypeOK'
    BY <1>0, <1>1, <2>1 DEF AccountInv, TypeOK, PCs
  <2>3. CallsMakeSense'
    BY <1>0, <1>2, <2>1 DEF AccountInv, TypeOK, CallsMakeSense, Fits
  <2>4. LateInv'
    BY <1>0, <1>2, <2>1 DEF AccountInv, TypeOK, LateInv
  <2>5. /\ \A v \in Tokens \cup ResetTokens : Holders(v)' \subseteq Holders(v)
        /\ \A v \in ResetTokens : Holders(v)' = Holders(v) /\ r \notin Holders(v)
    BY <1>0, <2>1 DEF AccountInv, TypeOK, Holders, Open
  <2>6. \A q \in Requests : q # r => pc'[q] = pc[q]
    BY <2>1 DEF AccountInv, TypeOK
  <2>7. HeldIsStored' /\ FreshUnspent' /\ SpentInv'
    <3>1. \A v \in ResetTokens : \A q \in Holders(v) : pc'[q] = pc[q] /\ q \in Holders(v)'
      BY <2>5, <2>6 DEF Holders, Open
    <3>2. \A v \in ResetTokens : Holders(v)' = Holders(v)
      BY <2>5
    <3> QED
      BY <1>0, <1>4, <2>5, <3>1, <3>2, TokensStay
  <2> QED
    BY <2>2, <2>3, <2>4, <2>7 DEF AccountInv
<1>3. CASE call[r].op # "refresh"
  <2>1. End(r) /\ closed' = closed \cup {t}
    BY <1>3 DEF Revoke
  <2>2. TypeOK'
    BY <1>0, <1>1, <2>1, NoRowsTyped DEF AccountInv, TypeOK, PCs, End
  <2>3. CallsMakeSense'
    BY <2>1 DEF AccountInv, TypeOK, CallsMakeSense, Fits, End
  <2>4. LateInv'
    BY <1>0, <2>1 DEF AccountInv, TypeOK, LateInv, End
  <2>5. /\ \A v \in Tokens \cup ResetTokens : Holders(v)' \subseteq Holders(v)
        /\ \A v \in ResetTokens : Holders(v)' = Holders(v) /\ r \notin Holders(v)
    BY <1>0, <2>1 DEF AccountInv, TypeOK, Holders, Open, End
  <2>6. \A q \in Requests : q # r => pc'[q] = pc[q]
    BY <2>1 DEF AccountInv, TypeOK, End
  <2>7. HeldIsStored' /\ FreshUnspent' /\ SpentInv'
    <3>1. \A v \in ResetTokens : \A q \in Holders(v) : pc'[q] = pc[q] /\ q \in Holders(v)'
      BY <2>5, <2>6 DEF Holders, Open
    <3>2. \A v \in ResetTokens : Holders(v)' = Holders(v)
      BY <2>5
    <3> QED
      BY <1>0, <1>4, <2>5, <3>1, <3>2, TokensStay
  <2> QED
    BY <2>2, <2>3, <2>4, <2>7 DEF AccountInv
<1> QED
  BY <1>2, <1>3

\* A session's token is stored and the call ends.
LEMMA IssueKeepsInv ==
    ASSUME AccountInv, NEW r \in Requests, NEW t \in Tokens, Issue(r, t)
    PROVE  AccountInv'
<1> DEFINE c == call[r]
<1>0. /\ pc[r] = "issue" /\ End(r)
      /\ c.user \in Users /\ c.token \in Tokens \cup {None} /\ c.token \notin ResetTokens
      /\ refresh' = [refresh EXCEPT ![t] = [status |-> "active", user |-> c.user,
                                            parent |-> c.token, password |-> c.password]]
      /\ UNCHANGED <<password, disabled, reset, expired, shared, closed, spent, unrevoked>>
  BY AccountConstants DEF Issue, AccountInv, CallsMakeSense, Fits, AdminOps
<1>1. TypeOK'
  <2>1. c.password \in 0..MaxPassword
    BY AccountConstants DEF AccountInv, TypeOK, Calls, OpenCalls, NoCall
  <2>2. refresh' \in [Tokens -> RefreshRows]
    <3>1. [status |-> "active", user |-> c.user, parent |-> c.token, password |-> c.password]
            \in StoredTokens
      BY <1>0, <2>1 DEF StoredTokens
    <3> QED
      BY <1>0, <3>1 DEF AccountInv, TypeOK, RefreshRows
  <2>3. crossed' \subseteq Tokens \cup ResetTokens \cup Users
    BY DEF Issue, AccountInv, TypeOK
  <2> QED
    BY <1>0, <2>2, <2>3, NoRowsTyped DEF AccountInv, TypeOK, PCs, End
<1>2. CallsMakeSense'
  BY <1>0 DEF AccountInv, TypeOK, CallsMakeSense, Fits, End
<1>3. LateInv'
  BY <1>0 DEF AccountInv, TypeOK, LateInv, End
<1>4. /\ \A v \in Tokens \cup ResetTokens : Holders(v)' \subseteq Holders(v)
      /\ \A v \in ResetTokens : Holders(v)' = Holders(v) /\ r \notin Holders(v)
  BY <1>0 DEF AccountInv, TypeOK, Holders, Open, End
<1>5. \A q \in Requests : q # r => pc'[q] = pc[q]
  BY <1>0 DEF AccountInv, TypeOK, End
<1>7. \A v \in Tokens : refresh[v] # NoToken => refresh'[v] # NoToken
  BY DEF Issue, AccountInv, TypeOK
<1>6. HeldIsStored' /\ FreshUnspent' /\ SpentInv'
  <2>1. \A v \in ResetTokens : \A q \in Holders(v) : pc'[q] = pc[q] /\ q \in Holders(v)'
    BY <1>4, <1>5 DEF Holders, Open
  <2>2. \A v \in ResetTokens : Holders(v)' = Holders(v)
    BY <1>4
  <2> QED
    BY <1>0, <1>4, <1>7, <2>1, <2>2, TokensStay
<1> QED
  BY <1>1, <1>2, <1>3, <1>6 DEF AccountInv

\* All sessions of a user are revoked and the call ends.
LEMMA RevokeAllKeepsInv ==
    ASSUME AccountInv, NEW r \in Requests, RevokeAll(r)
    PROVE  AccountInv'
<1> DEFINE u == call[r].user
           opening == {q \in CallsOn(u) : call[q].op \in {"login", "refresh"}}
<1>0. /\ pc[r] = "revokeAll" /\ u \in Users
      /\ pc' = [pc EXCEPT ![r] = "idle"] /\ late' = late \ {r}
      /\ shared \subseteq shared'
      /\ UNCHANGED <<password, disabled, reset, expired, seen, crossed, spent, calls, faults>>
  BY DEF RevokeAll, AccountInv, CallsMakeSense, Fits
<1>1. \A q \in Requests : /\ call'[q] \in Calls
                          /\ q # r => /\ call'[q].op = call[q].op /\ call'[q].user = call[q].user
                                      /\ call'[q].token = call[q].token /\ pc'[q] = pc[q]
  <2>1. \A q \in Requests : /\ [call[q] EXCEPT !.crossed = TRUE].op = call[q].op
                            /\ [call[q] EXCEPT !.crossed = TRUE].user = call[q].user
                            /\ [call[q] EXCEPT !.crossed = TRUE].token = call[q].token
    BY DEF AccountInv, TypeOK, Calls, OpenCalls, NoCall
  <2>2. \A q \in opening : [call[q] EXCEPT !.crossed = TRUE] \in Calls
    <3> SUFFICES ASSUME NEW q \in opening
                 PROVE  [call[q] EXCEPT !.crossed = TRUE] \in Calls
      OBVIOUS
    <3>1. call[q] \in OpenCalls
      BY DEF AccountInv, TypeOK, Calls, NoCall, CallsOn, Open
    <3>2. [call[q] EXCEPT !.crossed = TRUE] \in OpenCalls
      BY <3>1 DEF OpenCalls
    <3> QED
      BY <3>2 DEF Calls
  <2> QED
    BY <1>0, <2>1, <2>2, NoRowsTyped DEF RevokeAll, AccountInv, TypeOK
<1>2. TypeOK'
  <2>1. \A t \in SessionsOf(u) : [refresh[t] EXCEPT !.status = "revoked"] \in RefreshRows
    BY DEF SessionsOf, IsLive, AccountInv, TypeOK, RefreshRows, StoredTokens, NoToken
  <2>2. refresh' \in [Tokens -> RefreshRows]
    BY <2>1 DEF RevokeAll, AccountInv, TypeOK
  <2>3. call' \in [Requests -> Calls]
    BY <1>1 DEF RevokeAll
  <2>4. shared' \subseteq Tokens \cup ResetTokens
    BY DEF RevokeAll, AccountInv, TypeOK, Calls, OpenCalls, NoCall, CallsOn, Open
  <2>5. closed' \subseteq Tokens /\ unrevoked' \subseteq Users
    BY DEF RevokeAll, AccountInv, TypeOK, SessionsOf
  <2> QED
    BY <1>0, <2>2, <2>3, <2>4, <2>5 DEF AccountInv, TypeOK, PCs
<1>3. CallsMakeSense'
  <2>1. pc'[r] = "idle"
    BY <1>0 DEF AccountInv, TypeOK
  <2> QED
    BY <1>1, <2>1 DEF AccountInv, CallsMakeSense, Fits
<1>4. LateInv'
  BY <1>0, <1>1 DEF AccountInv, TypeOK, LateInv
<1>5. \A v \in Tokens \cup ResetTokens : Holders(v)' = Holders(v) \ {r}
  BY <1>0, <1>1 DEF AccountInv, TypeOK, Holders, Open
<1>7. \A v \in Tokens : refresh[v] # NoToken => refresh'[v] # NoToken
  <2>1. ASSUME NEW v \in SessionsOf(u)
        PROVE  [refresh[v] EXCEPT !.status = "revoked"].status = "revoked"
    BY DEF SessionsOf, IsLive, AccountInv, TypeOK, RefreshRows, StoredTokens, NoToken
  <2>2. \A v \in Tokens : refresh'[v] = refresh[v] \/ refresh'[v].status = "revoked"
    BY <2>1 DEF RevokeAll, SessionsOf
  <2> QED
    BY <2>2 DEF NoToken
<1>6. HeldIsStored' /\ FreshUnspent' /\ SpentInv'
  <2>1. \A v \in Tokens \cup ResetTokens : \A q \in Holders(v) : q \in Requests /\ pc[q] # "idle"
    BY DEF Holders, Open
  <2> QED
    BY <1>0, <1>1, <1>5, <1>7, <2>1, TokensStay
<1> QED
  BY <1>2, <1>3, <1>4, <1>6 DEF AccountInv

-----------------------------------------------------------------------------
(* Passwords and reset tokens *)

\* The reset tokens of a user are invalidated.
LEMMA InvalidateKeepsInv ==
    ASSUME AccountInv, NEW r \in Requests, InvalidateResets(r)
    PROVE  AccountInv'
<1> DEFINE u == call[r].user
<1>0. /\ pc[r] = "invalidate" /\ u \in Users /\ call[r].op = "forgot" /\ call[r].token = None
      /\ pc' = [pc EXCEPT ![r] = "store"] /\ reset' = Invalidated(u)
      /\ UNCHANGED <<call, seen, late, calls, faults, password, disabled, refresh, expired,
                     shared, crossed, closed, spent, unrevoked>>
  BY DEF InvalidateResets, Goto, AccountInv, CallsMakeSense, Fits, AdminOps
<1>1. /\ reset' \in [ResetTokens -> ResetRows]
      /\ \A t \in ResetTokens : /\ reset'[t] = NoReset => reset[t] = NoReset
                                /\ reset'[t].status = "valid" => reset[t].status = "valid"
  <2>1. ASSUME NEW t \in ResetTokens, reset[t].user = u
        PROVE  /\ [reset[t] EXCEPT !.status = "used"] \in ResetRows
               /\ [reset[t] EXCEPT !.status = "used"].status = "used"
    BY <1>0, <2>1, AccountConstants DEF AccountInv, TypeOK, ResetRows, NoReset
  <2> QED
    BY <1>0, <2>1 DEF Invalidated, AccountInv, TypeOK, NoReset
<1>2. TypeOK'
  BY <1>0, <1>1 DEF AccountInv, TypeOK, PCs
<1>3. CallsMakeSense' /\ LateInv'
  BY <1>0 DEF AccountInv, TypeOK, CallsMakeSense, LateInv, Fits
<1>4. \A t \in Tokens \cup ResetTokens : Holders(t)' = Holders(t) /\ r \notin Holders(t)
  BY <1>0, AccountConstants DEF AccountInv, TypeOK, Holders, Open
<1>5. HeldIsStored' /\ FreshUnspent'
  BY <1>0, <1>1, <1>4 DEF AccountInv, HeldIsStored, FreshUnspent
<1>6. \A t \in ResetTokens : \A q \in Holders(t) : pc'[q] = pc[q]
  BY <1>0, <1>4 DEF AccountInv, TypeOK, Holders, Open
<1>7. SpentInv'
  BY <1>0, <1>1, <1>4, <1>6 DEF AccountInv, SpentInv
<1> QED
  BY <1>2, <1>3, <1>5, <1>7 DEF AccountInv

\* A reset token is stored and the call ends.
LEMMA StoreKeepsInv ==
    ASSUME AccountInv, NEW r \in Requests, NEW t \in ResetTokens, StoreReset(r, t)
    PROVE  AccountInv'
<1> DEFINE u == call[r].user
           row == [status |-> "valid", user |-> u]
<1>0. /\ pc[r] = "store" /\ End(r) /\ u \in Users /\ call[r].token = None
      /\ reset[t] = NoReset /\ reset' = [reset EXCEPT ![t] = row]
      /\ UNCHANGED <<password, disabled, refresh, expired, shared, closed, spent, unrevoked>>
  BY DEF StoreReset, AccountInv, CallsMakeSense, Fits, AdminOps
<1>1. row \in ResetRows /\ row # NoReset
  BY <1>0, AccountConstants DEF ResetRows, NoReset
<1>2. TypeOK'
  <2>1. crossed' \subseteq Tokens \cup ResetTokens \cup Users
    BY DEF StoreReset, AccountInv, TypeOK
  <2> QED
    BY <1>0, <1>1, <2>1, NoRowsTyped DEF AccountInv, TypeOK, PCs, End
<1>3. CallsMakeSense' /\ LateInv'
  BY <1>0 DEF AccountInv, TypeOK, CallsMakeSense, LateInv, Fits, End
<1>4. \A v \in Tokens \cup ResetTokens : Holders(v)' = Holders(v) /\ r \notin Holders(v)
  BY <1>0, AccountConstants DEF AccountInv, TypeOK, Holders, Open, End
<1>5. Holders(t) = {} /\ spent[t] = 0
  BY <1>0 DEF AccountInv, FreshUnspent
<1>6. HeldIsStored' /\ FreshUnspent'
  BY <1>0, <1>1, <1>4 DEF AccountInv, TypeOK, HeldIsStored, FreshUnspent
<1>7. \A v \in ResetTokens : \A q \in Holders(v) : pc'[q] = pc[q]
  BY <1>0, <1>4 DEF AccountInv, TypeOK, Holders, Open, End
<1>8. \A v \in ResetTokens : v # t => reset'[v] = reset[v]
  BY <1>0 DEF AccountInv, TypeOK
<1>9. SpentInv'
  BY <1>0, <1>4, <1>5, <1>7, <1>8 DEF AccountInv, SpentInv
<1> QED
  BY <1>2, <1>3, <1>6, <1>9 DEF AccountInv

\* A password is saved: by the only call on its token, if the token was shared by none.
LEMMA SaveKeepsInv ==
    ASSUME AccountInv, NEW r \in Requests, SavePassword(r)
    PROVE  AccountInv'
<1> DEFINE c == call[r]
<1>0. /\ pc[r] = "save" /\ c.user \in Users /\ password[c.user] < MaxPassword
      /\ password' = [password EXCEPT ![c.user] = @ + 1]
      /\ UNCHANGED <<call, seen, late, calls, faults, disabled, refresh, reset, expired, shared,
                     crossed, closed, unrevoked>>
      /\ \/ c.op = "reset" /\ c.token \in ResetTokens
         \/ c.op = "change" /\ c.token = None
  BY DEF SavePassword, Goto, AccountInv, CallsMakeSense, Fits, AdminOps
<1>1. password' \in [Users -> 0..MaxPassword]
  BY <1>0, AccountConstants DEF AccountInv, TypeOK
<1>2. LateInv'
  <2>1. r \notin late
    BY <1>0 DEF AccountInv, LateInv
  <2> QED
    BY <1>0, <2>1 DEF SavePassword, Goto, AccountInv, TypeOK, LateInv
<1>3. CASE c.op = "reset"
  <2> DEFINE t == c.token
  <2>1. /\ pc' = [pc EXCEPT ![r] = "spend"] /\ spent' = [spent EXCEPT ![t] = @ + 1]
        /\ t \in ResetTokens
    BY <1>0, <1>3 DEF SavePassword, Goto
  <2>2. TypeOK'
    BY <1>0, <1>1, <2>1 DEF AccountInv, TypeOK, PCs
  <2>3. CallsMakeSense'
    BY <1>0, <1>3, <2>1 DEF AccountInv, TypeOK, CallsMakeSense, Fits
  <2>4. \A v \in Tokens \cup ResetTokens : Holders(v)' = Holders(v)
    BY <1>0, <2>1 DEF AccountInv, TypeOK, Holders, Open
  <2>5. r \in Holders(t)
    BY <1>0 DEF Holders, Open
  <2>6. HeldIsStored' /\ FreshUnspent'
    BY <1>0, <2>1, <2>4, <2>5 DEF AccountInv, TypeOK, HeldIsStored, FreshUnspent
  <2>7. ASSUME NEW v \in ResetTokens \ shared
        PROVE  /\ \A q, p \in Holders(v)' : q = p
               /\ spent'[v] <= 1
               /\ spent'[v] > 0 =>
                     /\ \A q \in Holders(v)' : pc'[q] \in {"spend", "revokeAll"}
                     /\ reset[v].status = "valid" => \E q \in Holders(v)' : pc'[q] = "spend"
    <3>1. CASE v # t
      <4>1. \A q \in Holders(v) : pc'[q] = pc[q]
        BY <2>1, <3>1 DEF AccountInv, TypeOK, Holders, Open
      <4>2. spent'[v] = spent[v]
        BY <2>1, <3>1 DEF AccountInv, TypeOK
      <4> QED
        BY <2>4, <4>1, <4>2 DEF AccountInv, SpentInv
    <3>2. CASE v = t
      <4>1. Holders(v) = {r}
        BY <2>5, <3>2 DEF AccountInv, SpentInv
      <4>2. spent[v] = 0
        BY <1>0, <2>5, <3>2 DEF AccountInv, SpentInv, TypeOK
      <4>3. spent'[v] = 1 /\ pc'[r] = "spend"
        BY <2>1, <3>2, <4>2 DEF AccountInv, TypeOK
      <4> QED
        BY <2>4, <4>1, <4>3
    <3> QED
      BY <3>1, <3>2
  <2>8. SpentInv'
    BY <1>0, <2>7 DEF SpentInv
  <2> QED
    BY <1>2, <2>2, <2>3, <2>6, <2>8 DEF AccountInv
<1>4. CASE c.op = "change"
  <2>1. pc' = [pc EXCEPT ![r] = "revokeAll"] /\ spent' = spent /\ c.token = None
    BY <1>0, <1>4 DEF SavePassword, Goto
  <2>2. TypeOK'
    BY <1>0, <1>1, <2>1 DEF AccountInv, TypeOK, PCs
  <2>3. CallsMakeSense'
    BY <1>0, <1>4, <2>1 DEF AccountInv, TypeOK, CallsMakeSense, Fits
  <2>4. \A v \in Tokens \cup ResetTokens : Holders(v)' = Holders(v) /\ r \notin Holders(v)
    BY <1>0, <2>1, AccountConstants DEF AccountInv, TypeOK, Holders, Open
  <2>5. \A v \in ResetTokens : \A q \in Holders(v) : pc'[q] = pc[q]
    BY <2>1, <2>4 DEF AccountInv, TypeOK, Holders, Open
  <2>6. HeldIsStored' /\ FreshUnspent' /\ SpentInv'
    BY <1>0, <2>1, <2>4, <2>5, TokensStay
  <2> QED
    BY <1>2, <2>2, <2>3, <2>6 DEF AccountInv
<1> QED
  BY <1>0, <1>3, <1>4

\* The token that set the password is invalidated.
LEMMA SpendKeepsInv ==
    ASSUME AccountInv, NEW r \in Requests, SpendReset(r)
    PROVE  AccountInv'
<1> DEFINE t == call[r].token
<1>0. /\ pc[r] = "spend" /\ call[r].op = "reset" /\ t \in ResetTokens
      /\ pc' = [pc EXCEPT ![r] = "revokeAll"] /\ reset' = [reset EXCEPT ![t].status = "used"]
      /\ UNCHANGED <<call, seen, late, calls, faults, password, disabled, refresh, expired,
                     shared, crossed, closed, spent, unrevoked>>
  BY DEF SpendReset, Spent, Goto, AccountInv, CallsMakeSense, Fits, AdminOps
<1>1. r \in Holders(t)
  BY <1>0 DEF Holders, Open
<1>2. reset[t] # NoReset
  BY <1>0, <1>1 DEF AccountInv, FreshUnspent
<1>3. [reset[t] EXCEPT !.status = "used"] \in ResetRows /\ reset'[t].status = "used"
  BY <1>0, <1>2 DEF AccountInv, TypeOK, ResetRows
<1>4. TypeOK'
  BY <1>0, <1>3 DEF AccountInv, TypeOK, PCs
<1>5. CallsMakeSense' /\ LateInv'
  BY <1>0 DEF AccountInv, TypeOK, CallsMakeSense, LateInv, Fits
<1>6. \A v \in Tokens \cup ResetTokens : Holders(v)' = Holders(v)
  BY <1>0 DEF AccountInv, TypeOK, Holders, Open
<1>7. \A v \in ResetTokens : v # t => reset'[v] = reset[v]
  BY <1>0 DEF AccountInv, TypeOK
<1>8. HeldIsStored' /\ FreshUnspent'
  BY <1>0, <1>3, <1>6, <1>7 DEF AccountInv, HeldIsStored, FreshUnspent, NoReset
<1>9. ASSUME NEW v \in ResetTokens \ shared
      PROVE  /\ \A q, p \in Holders(v)' : q = p
             /\ spent[v] <= 1
             /\ spent[v] > 0 =>
                   /\ \A q \in Holders(v)' : pc'[q] \in {"spend", "revokeAll"}
                   /\ reset'[v].status = "valid" => \E q \in Holders(v)' : pc'[q] = "spend"
  <2>1. CASE v # t
    <3>1. \A q \in Holders(v) : pc'[q] = pc[q]
      BY <1>0, <2>1 DEF AccountInv, TypeOK, Holders, Open
    <3> QED
      BY <1>6, <1>7, <2>1, <3>1 DEF AccountInv, SpentInv
  <2>2. CASE v = t
    <3>1. \A q \in Holders(v) : pc'[q] = pc[q] \/ pc'[q] = "revokeAll"
      BY <1>0 DEF AccountInv, TypeOK, Holders, Open
    <3> QED
      BY <1>3, <1>6, <2>2, <3>1 DEF AccountInv, SpentInv
  <2> QED
    BY <2>1, <2>2
<1>10. SpentInv'
  BY <1>0, <1>9 DEF SpentInv
<1> QED
  BY <1>4, <1>5, <1>8, <1>10 DEF AccountInv

-----------------------------------------------------------------------------
(* The admin calls, time and failure *)

\* The audit columns are written and the call ends.
LEMMA MarkKeepsInv ==
    ASSUME AccountInv, NEW r \in Requests, Mark(r)
    PROVE  AccountInv'
<1> DEFINE c == call[r]
           u == c.user
           marking == {q \in CallsOn(u) : pc[q] = "mark"} \ {r}
<1>0. /\ pc[r] = "mark" /\ u \in Users /\ c.op \in AdminOps /\ c.token = None
      /\ pc' = [pc EXCEPT ![r] = "idle"]
      /\ seen' = [seen EXCEPT ![r] = NoAudit]
      /\ late' = (IF disabled'[u].at THEN late ELSE late \ CallsOn(u)) \ {r}
      /\ UNCHANGED <<password, refresh, reset, expired, shared, closed, spent, unrevoked,
                     calls, faults>>
  BY DEF Mark, AccountInv, CallsMakeSense, Fits, AdminOps
<1>1. \A q \in Requests : /\ call'[q] \in Calls
                          /\ q # r => /\ call'[q].op = call[q].op /\ call'[q].user = call[q].user
                                      /\ call'[q].token = call[q].token /\ pc'[q] = pc[q]
  <2>1. \A q \in Requests : /\ [call[q] EXCEPT !.crossed = TRUE].op = call[q].op
                            /\ [call[q] EXCEPT !.crossed = TRUE].user = call[q].user
                            /\ [call[q] EXCEPT !.crossed = TRUE].token = call[q].token
    BY DEF AccountInv, TypeOK, Calls, OpenCalls, NoCall
  <2>2. ASSUME NEW q \in marking
        PROVE  [call[q] EXCEPT !.crossed = TRUE] \in Calls
    <3>1. call[q].op \in AdminOps
      BY DEF AccountInv, CallsMakeSense, Fits, CallsOn, Open
    <3>2. call[q] \in OpenCalls
      BY <3>1 DEF AccountInv, TypeOK, Calls, NoCall, CallsOn, Open, AdminOps
    <3>3. [call[q] EXCEPT !.crossed = TRUE] \in OpenCalls
      BY <3>2 DEF OpenCalls
    <3> QED
      BY <3>3 DEF Calls
  <2>3. call' = [q \in Requests |-> IF q = r THEN NoCall
                                    ELSE IF q \in marking THEN [call[q] EXCEPT !.crossed = TRUE]
                                    ELSE call[q]]
    BY DEF Mark
  <2> HIDE DEF marking
  <2> QED
    BY <1>0, <2>1, <2>2, <2>3, NoRowsTyped DEF AccountInv, TypeOK
<1>2. disabled' \in [Users -> Audits] /\ \A v \in Users : v # u => disabled'[v] = disabled[v]
  <2>1. seen[r] \in Audits /\ disabled[u] \in Audits /\ Intended(c) \in Audits
    <3>1. c \in OpenCalls
      BY <1>0 DEF AccountInv, TypeOK, Calls, NoCall, AdminOps
    <3>2. Intended(c) \in Audits
      BY <3>1, NoRowsTyped DEF Intended, Audits, OpenCalls
    <3> QED
      BY <1>0, <3>2 DEF AccountInv, TypeOK
  <2> DEFINE columns == Writes(c, seen[r])
             row == [k \in DOMAIN NoAudit |-> IF k \in columns THEN Intended(c)[k]
                                              ELSE disabled[u][k]]
  <2>2. disabled' = [disabled EXCEPT ![u] = row]
    BY DEF Mark
  <2> HIDE DEF columns
  <2>3. row \in Audits
    BY <2>1 DEF Audits, NoAudit
  <2> HIDE DEF row
  <2> QED
    BY <1>0, <2>2, <2>3 DEF AccountInv, TypeOK
<1>3. TypeOK'
  <2>1. call' \in [Requests -> Calls]
    BY <1>1 DEF Mark
  <2>2. crossed' \subseteq Tokens \cup ResetTokens \cup Users
    BY <1>0 DEF Mark, AccountInv, TypeOK
  <2> QED
    BY <1>0, <1>2, <2>1, <2>2, NoRowsTyped DEF AccountInv, TypeOK, PCs
<1>4. CallsMakeSense'
  <2>1. pc'[r] = "idle"
    BY <1>0 DEF AccountInv, TypeOK
  <2> QED
    BY <1>1, <2>1 DEF AccountInv, CallsMakeSense, Fits
<1>5. LateInv'
  <2> SUFFICES ASSUME NEW q \in late'
               PROVE  /\ pc'[q] \in {"check", "mark"} \/ (pc'[q] = "revoke" /\ call'[q].op = "logout")
                      /\ disabled'[call'[q].user].at
    BY DEF LateInv
  <2>1. q \in late /\ q # r /\ q \in Requests
    BY <1>0 DEF AccountInv, TypeOK
  <2>2. pc[q] # "idle" /\ call[q].user \in Users
    BY <2>1 DEF AccountInv, LateInv, CallsMakeSense, Fits
  <2>3. disabled'[call[q].user].at
    <3>1. CASE call[q].user # u
      BY <1>2, <2>1, <2>2, <3>1 DEF AccountInv, LateInv
    <3>2. CASE call[q].user = u
      BY <1>0, <2>1, <2>2, <3>2 DEF CallsOn, Open
    <3> QED
      BY <3>1, <3>2
  <2> QED
    BY <1>1, <2>1, <2>3 DEF AccountInv, LateInv
<1>6. \A v \in Tokens \cup ResetTokens : Holders(v)' = Holders(v) /\ r \notin Holders(v)
  BY <1>0, <1>1, AccountConstants DEF AccountInv, TypeOK, Holders, Open
<1>7. \A v \in ResetTokens : \A q \in Holders(v) : pc'[q] = pc[q]
  BY <1>1, <1>6 DEF Holders, Open
<1>8. HeldIsStored' /\ FreshUnspent' /\ SpentInv'
  BY <1>0, <1>6, <1>7, TokensStay
<1> QED
  BY <1>3, <1>4, <1>5, <1>8 DEF AccountInv

\* A call is cut off, and its token counts as shared.
LEMMA CrashKeepsInv ==
    ASSUME AccountInv, NEW r \in Requests, Crash(r)
    PROVE  AccountInv'
<1>0. /\ pc[r] # "idle" /\ call[r].user \in Users /\ faults < MaxFaults /\ faults' = faults + 1
      /\ pc' = [pc EXCEPT ![r] = "idle"] /\ call' = [call EXCEPT ![r] = NoCall]
      /\ seen' = [seen EXCEPT ![r] = NoAudit]
      /\ shared' = shared \cup ({call[r].token} \ {None}) /\ late' = late \ {r}
      /\ UNCHANGED <<tables, crossed, closed, spent, calls>>
  BY DEF Crash, Open, AccountInv, CallsMakeSense, Fits
<1>1. TypeOK'
  <2>1. faults' \in 0..MaxFaults
    BY <1>0, AccountConstants DEF AccountInv, TypeOK
  <2>2. shared' \subseteq Tokens \cup ResetTokens
    BY <1>0 DEF AccountInv, TypeOK, CallsMakeSense, Fits
  <2>3. unrevoked' \subseteq Users
    BY <1>0 DEF Crash, AccountInv, TypeOK
  <2> QED
    BY <1>0, <2>1, <2>2, <2>3, NoRowsTyped DEF AccountInv, TypeOK, PCs, tables
<1>2. CallsMakeSense' /\ LateInv'
  BY <1>0 DEF AccountInv, TypeOK, CallsMakeSense, LateInv, Fits, tables
<1>3. \A v \in Tokens \cup ResetTokens : Holders(v)' = Holders(v) \ {r}
  BY <1>0 DEF AccountInv, TypeOK, Holders, Open
<1>4. \A q \in Requests : q # r => pc'[q] = pc[q]
  BY <1>0 DEF AccountInv, TypeOK
<1>5. \A v \in ResetTokens \ shared' : r \notin Holders(v)
  BY <1>0, AccountConstants DEF Holders
<1>6. \A v \in Tokens \cup ResetTokens : \A q \in Holders(v) : q \in Requests
  BY DEF Holders, Open
<1>7. HeldIsStored' /\ FreshUnspent' /\ SpentInv'
  BY <1>0, <1>3, <1>4, <1>5, <1>6, TokensStay DEF tables
<1> QED
  BY <1>1, <1>2, <1>7 DEF AccountInv

\* Time that passes, and a step that changes nothing.
LEMMA TimeKeepsInv ==
    ASSUME AccountInv,
           UNCHANGED vars \/ \E t \in Tokens \cup ResetTokens : Expire(t)
    PROVE  AccountInv'
<1>0. /\ UNCHANGED <<password, disabled, refresh, reset, session, history, calls, faults>>
      /\ expired' \subseteq Tokens \cup ResetTokens
  BY DEF Expire, vars, tables, AccountInv, TypeOK
<1>1. TypeOK' /\ CallsMakeSense' /\ LateInv'
  BY <1>0 DEF AccountInv, TypeOK, CallsMakeSense, LateInv, session, history
<1>2. \A v \in Tokens \cup ResetTokens : Holders(v)' = Holders(v)
  BY <1>0 DEF Holders, Open, session
<1>3. HeldIsStored' /\ FreshUnspent' /\ SpentInv'
  BY <1>0, <1>2, TokensStay DEF session, history
<1> QED
  BY <1>1, <1>3 DEF AccountInv

\* Every step keeps the invariant.
LEMMA StepKeepsInv ==
    ASSUME AccountInv, [Next]_vars
    PROVE  AccountInv'
<1>1. ASSUME NEW r \in Requests, Auth(r) PROVE AccountInv'
  BY <1>1, ReadsKeepInv, CallGoesOn, RevokeKeepsInv, IssueKeepsInv, RevokeAllKeepsInv,
     InvalidateKeepsInv, StoreKeepsInv, SaveKeepsInv, SpendKeepsInv DEF Auth
<1>2. ASSUME NEW r \in Requests, Admin(r) PROVE AccountInv'
  BY <1>2, ReadsKeepInv, MarkKeepsInv DEF Admin
<1> QED
  BY <1>1, <1>2, CrashKeepsInv, TimeKeepsInv DEF Next

\* A step moves one call.
LEMMA OneCallMoves ==
    ASSUME AccountInv, NEW q \in Requests, Auth(q) \/ Admin(q) \/ Crash(q)
    PROVE  \A r \in Requests : r # q => pc'[r] = pc[r]
<1>1. ASSUME NEW c, NEW step, Begin(q, c, step)
      PROVE  \A r \in Requests : r # q => pc'[r] = pc[r]
  BY <1>1 DEF Begin, AccountInv, TypeOK
<1>2. ASSUME NEW step, Goto(q, step)
      PROVE  \A r \in Requests : r # q => pc'[r] = pc[r]
  BY <1>2 DEF Goto, AccountInv, TypeOK
<1>3. ASSUME pc' = [pc EXCEPT ![q] = "idle"]
      PROVE  \A r \in Requests : r # q => pc'[r] = pc[r]
  BY <1>3 DEF AccountInv, TypeOK
<1>4. CASE Auth(q)
  <2>1. ASSUME NEW u \in Users, ReadLogin(q, u) \/ ReadForgot(q, u) \/ ReadChange(q, u)
        PROVE  \A r \in Requests : r # q => pc'[r] = pc[r]
    BY <1>1, <2>1 DEF ReadLogin, ReadForgot, ReadChange
  <2>2. ASSUME NEW t \in Tokens,
               ReadToken(q, t, "logout") \/ ReadToken(q, t, "refresh") \/ Issue(q, t)
        PROVE  \A r \in Requests : r # q => pc'[r] = pc[r]
    BY <1>1, <1>3, <2>2 DEF ReadToken, Issue, End
  <2>3. ASSUME NEW t \in ResetTokens, ReadReset(q, t) \/ StoreReset(q, t)
        PROVE  \A r \in Requests : r # q => pc'[r] = pc[r]
    BY <1>1, <1>3, <2>3 DEF ReadReset, StoreReset, End
  <2>4. CASE CheckUser(q) \/ Revoke(q)
    BY <1>2, <1>3, <2>4 DEF CheckUser, Revoke, End
  <2>5. CASE InvalidateResets(q) \/ SavePassword(q) \/ SpendReset(q) \/ RevokeAll(q)
    BY <1>2, <1>3, <2>5 DEF InvalidateResets, SavePassword, SpendReset, RevokeAll
  <2> QED
    BY <1>4, <2>1, <2>2, <2>3, <2>4, <2>5 DEF Auth
<1>5. CASE Admin(q)
  <2>1. ASSUME NEW u, NEW op, NEW a, NEW why, ReadAdmin(q, u, op, a, why)
        PROVE  \A r \in Requests : r # q => pc'[r] = pc[r]
    BY <1>1, <2>1 DEF ReadAdmin
  <2> QED
    BY <1>3, <1>5, <2>1 DEF Admin, Mark
<1> QED
  BY <1>3, <1>4, <1>5 DEF Crash

-----------------------------------------------------------------------------
(* The latest reset token *)

\* A call that is about to store a reset token has invalidated all others, but for those
\* stored since, which are crossed.
AboutToStore ==
    \A r \in Requests, t \in ResetTokens \ crossed :
        pc[r] = "store" /\ reset[t].status = "valid" => reset[t].user # call[r].user

LatestInv == OnlyLatestResetValid /\ AboutToStore

\* Every step keeps it: StoreReset comes after InvalidateResets, and whatever makes another
\* token valid in between makes the token of this call a crossed one.
LEMMA LatestStays ==
    ASSUME AccountInv, LatestInv, [Next]_vars
    PROVE  LatestInv'
<1> USE DEF LatestInv
<1>1. ASSUME \A t \in ResetTokens : /\ reset'[t].status = "valid" => reset[t].status = "valid"
                                    /\ reset'[t].user = reset[t].user,
             crossed \cap ResetTokens \subseteq crossed',
             \A r \in Requests : pc'[r] = "store" => /\ pc[r] = "store"
                                                     /\ call'[r].user = call[r].user
      PROVE  LatestInv'
  BY <1>1 DEF OnlyLatestResetValid, AboutToStore
<1>2. ASSUME UNCHANGED reset, crossed \cap ResetTokens \subseteq crossed',
             \A r \in Requests : pc'[r] = "store" => /\ pc[r] = "store"
                                                     /\ call'[r].user = call[r].user
      PROVE  LatestInv'
  BY <1>1, <1>2
<1>3. ASSUME NEW r \in Requests, NEW c, NEW step, Begin(r, c, step), step # "store",
             UNCHANGED tables
      PROVE  LatestInv'
  BY <1>2, <1>3 DEF Begin, tables, AccountInv, TypeOK
<1>4. ASSUME NEW r \in Requests,
             \/ \E u \in Users : ReadLogin(r, u) \/ ReadForgot(r, u) \/ ReadChange(r, u)
             \/ \E t \in Tokens : ReadToken(r, t, "logout") \/ ReadToken(r, t, "refresh")
             \/ \E t \in ResetTokens : ReadReset(r, t)
             \/ \E u, op, a, why : ReadAdmin(r, u, op, a, why)
      PROVE  LatestInv'
  BY <1>3, <1>4 DEF ReadLogin, ReadForgot, ReadChange, ReadToken, ReadReset, ReadAdmin
<1>5. ASSUME NEW r \in Requests, CheckUser(r) \/ Revoke(r)
      PROVE  LatestInv'
  BY <1>2, <1>5 DEF CheckUser, Revoke, Goto, End, tables, AccountInv, TypeOK
<1>6. ASSUME NEW r \in Requests, SavePassword(r)
      PROVE  LatestInv'
  BY <1>2, <1>6 DEF SavePassword, Goto, AccountInv, TypeOK
<1>7. ASSUME NEW r \in Requests, NEW t \in Tokens, Issue(r, t)
      PROVE  LatestInv'
  BY <1>2, <1>7 DEF Issue, End, AccountInv, TypeOK
<1>8. ASSUME NEW r \in Requests, RevokeAll(r)
      PROVE  LatestInv'
  <2>1. \A q \in Requests : q # r => call'[q].user = call[q].user /\ pc'[q] = pc[q]
    BY <1>8 DEF RevokeAll, AccountInv, TypeOK, Calls, OpenCalls, NoCall
  <2>2. pc'[r] = "idle" /\ UNCHANGED <<reset, crossed>>
    BY <1>8 DEF RevokeAll, AccountInv, TypeOK
  <2> QED
    BY <1>2, <2>1, <2>2
<1>9. ASSUME NEW r \in Requests, Mark(r)
      PROVE  LatestInv'
  <2>1. \A q \in Requests : q # r => call'[q].user = call[q].user /\ pc'[q] = pc[q]
    BY <1>9 DEF Mark, AccountInv, TypeOK, Calls, OpenCalls, NoCall
  <2>2. pc'[r] = "idle" /\ reset' = reset
    BY <1>9 DEF Mark, AccountInv, TypeOK
  <2>3. call[r].user \in Users
    BY <1>9 DEF Mark, AccountInv, CallsMakeSense, Fits
  <2>4. crossed \cap ResetTokens \subseteq crossed'
    BY <1>9, <2>3, AccountConstants DEF Mark
  <2> QED
    BY <1>2, <2>1, <2>2, <2>4
<1>10. ASSUME NEW r \in Requests, SpendReset(r)
       PROVE  LatestInv'
  <2>1. call[r].token \in ResetTokens
    BY <1>10 DEF SpendReset, AccountInv, CallsMakeSense, Fits, AdminOps
  <2>2. \A t \in ResetTokens : /\ reset'[t].status = "valid" => reset[t].status = "valid"
                               /\ reset'[t].user = reset[t].user
    BY <1>10, <2>1 DEF SpendReset, Spent, AccountInv, TypeOK, ResetRows, NoReset
  <2>3. crossed' = crossed /\ \A q \in Requests : pc'[q] = "store" => pc[q] = "store"
    BY <1>10 DEF SpendReset, Goto, AccountInv, TypeOK
  <2>4. call' = call
    BY <1>10 DEF SpendReset, Goto
  <2> QED
    BY <1>1, <2>2, <2>3, <2>4
<1>11. ASSUME NEW r \in Requests, InvalidateResets(r)
       PROVE  LatestInv'
  <2>0. /\ pc' = [pc EXCEPT ![r] = "store"] /\ reset' = Invalidated(call[r].user)
        /\ call' = call /\ crossed' = crossed
    BY <1>11 DEF InvalidateResets, Goto
  <2>1. \A t \in ResetTokens :
            /\ reset'[t].status = "valid" =>
                   reset[t].status = "valid" /\ reset[t].user # call[r].user
            /\ reset'[t].user = reset[t].user
    BY <2>0 DEF Invalidated, AccountInv, TypeOK, ResetRows, NoReset
  <2>2. \A q \in Requests : q # r => pc'[q] = pc[q]
    BY <2>0 DEF AccountInv, TypeOK
  <2>3. OnlyLatestResetValid'
    BY <2>0, <2>1 DEF OnlyLatestResetValid
  <2>4. AboutToStore'
    BY <2>0, <2>1, <2>2 DEF AboutToStore
  <2> QED
    BY <2>3, <2>4
<1>12. ASSUME NEW r \in Requests, NEW t \in ResetTokens, StoreReset(r, t)
       PROVE  LatestInv'
  <2> DEFINE u == call[r].user
  <2>0. /\ pc[r] = "store" /\ pc' = [pc EXCEPT ![r] = "idle"]
        /\ reset' = [reset EXCEPT ![t] = [status |-> "valid", user |-> u]]
        /\ call' = [call EXCEPT ![r] = NoCall] /\ crossed \subseteq crossed'
        /\ t \notin crossed' =>
              ~ \E q \in CallsOn(u) \ {r} : call[q].op = "forgot"
    BY <1>12 DEF StoreReset, End
  <2>1. /\ reset'[t].status = "valid" /\ reset'[t].user = u
        /\ \A v \in ResetTokens : v # t => reset'[v] = reset[v]
    BY <2>0 DEF AccountInv, TypeOK
  <2>2. \A q \in Requests : q # r => pc'[q] = pc[q] /\ call'[q] = call[q]
    BY <2>0 DEF AccountInv, TypeOK
  <2>3. pc'[r] = "idle"
    BY <2>0 DEF AccountInv, TypeOK
  <2>4. \A v \in ResetTokens \ crossed : reset[v].status = "valid" => reset[v].user # u
    BY <2>0 DEF AboutToStore
  <2>5. OnlyLatestResetValid'
    BY <2>0, <2>1, <2>4 DEF OnlyLatestResetValid
  <2>6. ASSUME NEW q \in Requests, pc[q] = "store", q # r, call[q].user = u
        PROVE  t \in crossed'
    <3>1. call[q].op = "forgot"
      BY <2>6 DEF AccountInv, CallsMakeSense, Fits, AdminOps
    <3> QED
      BY <2>0, <2>6, <3>1 DEF CallsOn, Open
  <2>7. AboutToStore'
    BY <2>0, <2>1, <2>2, <2>3, <2>6 DEF AboutToStore
  <2> QED
    BY <2>5, <2>7
<1>13. ASSUME NEW r \in Requests, Crash(r)
       PROVE  LatestInv'
  BY <1>2, <1>13 DEF Crash, tables, AccountInv, TypeOK
<1>14. CASE UNCHANGED vars \/ \E t \in Tokens \cup ResetTokens : Expire(t)
  BY <1>2, <1>14 DEF Expire, vars, tables, session, history
<1> QED
  <2>1. ASSUME NEW r \in Requests, Auth(r) PROVE LatestInv'
    BY <2>1, <1>4, <1>5, <1>6, <1>7, <1>8, <1>10, <1>11, <1>12 DEF Auth
  <2>2. ASSUME NEW r \in Requests, Admin(r) PROVE LatestInv'
    BY <2>2, <1>4, <1>9 DEF Admin
  <2> QED
    BY <2>1, <2>2, <1>13, <1>14 DEF Next

-----------------------------------------------------------------------------
(* Sessions that outlive a password *)

\* Users whose sessions may be older than their password.
Excused == {u \in Users : \/ u \in unrevoked
                          \/ \E q \in CallsOn(u) : pc[q] \in {"spend", "revokeAll"}}

OldSessionsExcused ==
    \A t \in Tokens :
        refresh[t].status = "active" /\ refresh[t].password # password[refresh[t].user] =>
            t \in crossed \/ refresh[t].user \in Excused

\* The same of a session that is just being opened or rotated: it was crossed, too, or
\* has its password from a token that was.
OpeningExplained ==
    \A r \in Requests :
        /\ pc[r] # "idle" /\ call[r].op \in {"login", "refresh"}
        /\ call[r].password # password[call[r].user]
        => call[r].crossed \/ call[r].token \in crossed \/ call[r].user \in Excused

OldInv == OldSessionsExcused /\ OpeningExplained

\* Who is excused, before and after a step.
LEMMA WhoIsExcused ==
    ASSUME NEW u \in Users
    PROVE  /\ u \in Excused <=>
                 \/ u \in unrevoked
                 \/ \E q \in Requests : call[q].user = u /\ pc[q] \in {"spend", "revokeAll"}
           /\ u \in Excused' <=>
                 \/ u \in unrevoked'
                 \/ \E q \in Requests : call'[q].user = u /\ pc'[q] \in {"spend", "revokeAll"}
BY DEF Excused, CallsOn, Open

\* Steps that save no password, open no session and end no call before it has revoked.
LEMMA OldStays ==
    ASSUME OldInv, UNCHANGED password, crossed \cap Tokens \subseteq crossed',
           unrevoked \subseteq unrevoked',
           \A t \in Tokens : refresh'[t].status = "active" =>
               /\ refresh[t].status = "active"
               /\ refresh'[t].user = refresh[t].user
               /\ refresh'[t].password = refresh[t].password,
           \A r \in Requests : pc'[r] # "idle" /\ call'[r].op \in {"login", "refresh"} =>
               /\ pc[r] # "idle" /\ call'[r] = call[r]
               /\ call[r].token \in Tokens \cup {None},
           \A r \in Requests : pc[r] \in {"spend", "revokeAll"} =>
               \/ pc'[r] \in {"spend", "revokeAll"} /\ call'[r].user = call[r].user
               \/ call[r].user \in unrevoked',
           None \notin crossed
    PROVE  OldInv'
<1>1. Excused \subseteq Excused'
  <2> SUFFICES ASSUME NEW u \in Users, u \in Excused PROVE u \in Excused'
    BY DEF Excused
  <2> QED
    BY WhoIsExcused
<1>2. OldSessionsExcused'
  BY <1>1 DEF OldInv, OldSessionsExcused
<1>3. OpeningExplained'
  BY <1>1 DEF OldInv, OpeningExplained
<1> QED
  BY <1>2, <1>3 DEF OldInv

\* A call that begins opens a session with the password it was given, or with that of
\* a token that is explained itself.
LEMMA OldBegins ==
    ASSUME AccountInv, OldInv, NEW r \in Requests, NEW c, NEW next, Begin(r, c, next),
           UNCHANGED tables,
           \/ c.op \notin {"login", "refresh"}
           \/ c.password = password[c.user]
           \/ c.token \in crossed \/ c.user \in Excused
    PROVE  OldInv'
<1>0. /\ pc[r] = "idle" /\ pc' = [pc EXCEPT ![r] = next] /\ call' = [call EXCEPT ![r] = c]
      /\ UNCHANGED <<password, refresh, crossed, unrevoked>>
  BY DEF Begin, tables
<1>1. \A q \in Requests : q # r => pc'[q] = pc[q] /\ call'[q] = call[q]
  BY <1>0 DEF AccountInv, TypeOK
<1>2. call'[r] = c
  BY <1>0 DEF AccountInv, TypeOK
<1>3. Excused \subseteq Excused'
  <2> SUFFICES ASSUME NEW u \in Users, u \in Excused PROVE u \in Excused'
    BY DEF Excused
  <2>1. \A q \in Requests : pc[q] \in {"spend", "revokeAll"} => pc'[q] = pc[q] /\ call'[q] = call[q]
    BY <1>0, <1>1
  <2> QED
    BY <1>0, <2>1, WhoIsExcused
<1>4. OldSessionsExcused'
  BY <1>0, <1>3 DEF OldInv, OldSessionsExcused
<1>5. OpeningExplained'
  BY <1>0, <1>1, <1>2, <1>3 DEF OldInv, OpeningExplained
<1> QED
  BY <1>4, <1>5 DEF OldInv

\* The step that stores a session's token hands on what is known of the call.
LEMMA OldIssued ==
    ASSUME AccountInv, OldInv, NEW r \in Requests, NEW t \in Tokens, Issue(r, t)
    PROVE  OldInv'
<1> DEFINE c == call[r]
<1>0. /\ pc[r] = "issue" /\ c.op \in {"login", "refresh"}
      /\ pc' = [pc EXCEPT ![r] = "idle"] /\ call' = [call EXCEPT ![r] = NoCall]
      /\ refresh' = [refresh EXCEPT ![t] = [status |-> "active", user |-> c.user,
                                            parent |-> c.token, password |-> c.password]]
      /\ crossed' = IF c.crossed \/ c.token \in crossed THEN crossed \cup {t} ELSE crossed
      /\ UNCHANGED <<password, unrevoked>>
  BY DEF Issue, End, AccountInv, CallsMakeSense, Fits, AdminOps
<1>1. \A q \in Requests : q # r => pc'[q] = pc[q] /\ call'[q] = call[q]
  BY <1>0 DEF AccountInv, TypeOK
<1>2. pc'[r] = "idle"
  BY <1>0 DEF AccountInv, TypeOK
<1>3. Excused \subseteq Excused'
  <2> SUFFICES ASSUME NEW u \in Users, u \in Excused PROVE u \in Excused'
    BY DEF Excused
  <2>1. \A q \in Requests : pc[q] \in {"spend", "revokeAll"} => pc'[q] = pc[q] /\ call'[q] = call[q]
    BY <1>0, <1>1
  <2> QED
    BY <1>0, <2>1, WhoIsExcused
<1>4. /\ refresh'[t].user = c.user /\ refresh'[t].password = c.password
      /\ \A v \in Tokens : v # t => refresh'[v] = refresh[v]
  BY <1>0 DEF AccountInv, TypeOK
<1>5. c.password # password[c.user] => t \in crossed' \/ c.user \in Excused
  BY <1>0 DEF OldInv, OpeningExplained
<1>6. ASSUME NEW v \in Tokens, refresh'[v].status = "active",
             refresh'[v].password # password[refresh'[v].user]
      PROVE  v \in crossed' \/ refresh'[v].user \in Excused'
  <2>1. CASE v = t
    BY <1>3, <1>4, <1>5, <1>6, <2>1
  <2>2. CASE v # t
    <3>1. v \in crossed \/ refresh[v].user \in Excused
      BY <1>4, <1>6, <2>2 DEF OldInv, OldSessionsExcused
    <3> QED
      BY <1>0, <1>3, <1>4, <2>2, <3>1
  <2> QED
    BY <2>1, <2>2
<1>7. OldSessionsExcused'
  BY <1>0, <1>6 DEF OldSessionsExcused
<1>8. OpeningExplained'
  BY <1>0, <1>1, <1>2, <1>3 DEF OldInv, OpeningExplained
<1> QED
  BY <1>7, <1>8 DEF OldInv

\* A new password is explained by the call that saved it.
LEMMA OldSaved ==
    ASSUME AccountInv, OldInv, NEW r \in Requests, SavePassword(r)
    PROVE  OldInv'
<1> DEFINE u == call[r].user
<1>0. /\ u \in Users /\ password' = [password EXCEPT ![u] = @ + 1]
      /\ UNCHANGED <<call, refresh, crossed, unrevoked>>
  BY DEF SavePassword, Goto, AccountInv, CallsMakeSense, Fits
<1>1. /\ pc'[r] \in {"spend", "revokeAll"}
      /\ \A q \in Requests : q # r => pc'[q] = pc[q]
  BY DEF SavePassword, Goto, AccountInv, TypeOK
<1>2. u \in Excused'
  BY <1>0, <1>1, WhoIsExcused
<1>3. Excused \subseteq Excused'
  <2> SUFFICES ASSUME NEW v \in Users, v \in Excused PROVE v \in Excused'
    BY DEF Excused
  <2>1. \A q \in Requests : pc[q] \in {"spend", "revokeAll"} => pc'[q] = pc[q]
    BY <1>1 DEF SavePassword
  <2> QED
    BY <1>0, <2>1, WhoIsExcused
<1>4. \A v \in Users : v # u => password'[v] = password[v]
  BY <1>0 DEF AccountInv, TypeOK
<1>5. OldSessionsExcused'
  <2>1. ASSUME NEW t \in Tokens, refresh[t].status = "active",
               refresh[t].password # password'[refresh[t].user]
        PROVE  t \in crossed \/ refresh[t].user \in Excused'
    <3>1. refresh[t].user \in Users
      BY <2>1, StoredTyped DEF AccountInv
    <3>2. CASE refresh[t].user = u
      BY <1>2, <3>2
    <3>3. CASE refresh[t].user # u
      BY <1>3, <1>4, <2>1, <3>1, <3>3 DEF OldInv, OldSessionsExcused
    <3> QED
      BY <3>2, <3>3
  <2> QED
    BY <1>0, <2>1 DEF OldSessionsExcused
<1>6. OpeningExplained'
  <2>1. ASSUME NEW q \in Requests, pc'[q] # "idle", call[q].op \in {"login", "refresh"},
               call[q].password # password'[call[q].user]
        PROVE  call[q].crossed \/ call[q].token \in crossed \/ call[q].user \in Excused'
    <3>1. pc[q] # "idle" /\ call[q].user \in Users
      BY <1>1, <2>1 DEF SavePassword, AccountInv, CallsMakeSense, Fits
    <3>2. CASE call[q].user = u
      BY <1>2, <3>2
    <3>3. CASE call[q].user # u
      BY <1>3, <1>4, <2>1, <3>1, <3>3 DEF OldInv, OpeningExplained
    <3> QED
      BY <3>2, <3>3
  <2> QED
    BY <1>0, <2>1 DEF OpeningExplained
<1> QED
  BY <1>5, <1>6 DEF OldInv

\* revoke_all_for_user leaves no session of the user, and those it does not see are crossed.
LEMMA OldRevoked ==
    ASSUME AccountInv, OldInv, NEW r \in Requests, RevokeAll(r)
    PROVE  OldInv'
<1> DEFINE u == call[r].user
           opening == {q \in CallsOn(u) : call[q].op \in {"login", "refresh"}}
<1>0. /\ u \in Users /\ pc' = [pc EXCEPT ![r] = "idle"]
      /\ UNCHANGED <<password, crossed>> /\ unrevoked' = unrevoked \ {u}
  BY DEF RevokeAll, AccountInv, CallsMakeSense, Fits
<1>1. pc'[r] = "idle" /\ \A q \in Requests : q # r => pc'[q] = pc[q]
  BY <1>0 DEF AccountInv, TypeOK
<1>2. \A q \in Requests : q # r =>
          /\ call'[q].op = call[q].op /\ call'[q].user = call[q].user
          /\ call'[q].token = call[q].token /\ call'[q].password = call[q].password
          /\ call[q].crossed => call'[q].crossed
          /\ q \in opening => call'[q].crossed
  BY DEF RevokeAll, AccountInv, TypeOK, Calls, OpenCalls, NoCall
<1>3. \A t \in Tokens : refresh'[t].status = "active" =>
          refresh'[t] = refresh[t] /\ refresh[t].user # u
  <2>1. \A t \in SessionsOf(u) : [refresh[t] EXCEPT !.status = "revoked"].status = "revoked"
    BY DEF SessionsOf, IsLive, AccountInv, TypeOK, RefreshRows, StoredTokens, NoToken
  <2> QED
    BY <2>1 DEF RevokeAll, SessionsOf, IsLive
<1>4. Excused \ {u} \subseteq Excused'
  <2> SUFFICES ASSUME NEW v \in Users, v # u, v \in Excused PROVE v \in Excused'
    BY DEF Excused
  <2>1. \A q \in Requests : call[q].user = v => pc'[q] = pc[q] /\ call'[q].user = v
    BY <1>1, <1>2
  <2> QED
    BY <1>0, <2>1, WhoIsExcused
<1>5. OldSessionsExcused'
  BY <1>0, <1>3, <1>4 DEF OldInv, OldSessionsExcused
<1>6. OpeningExplained'
  <2>1. ASSUME NEW q \in Requests, pc'[q] # "idle", call'[q].op \in {"login", "refresh"},
               call'[q].password # password[call'[q].user]
        PROVE  call'[q].crossed \/ call'[q].token \in crossed \/ call'[q].user \in Excused'
    <3>1. /\ q # r /\ pc[q] # "idle" /\ call[q].op \in {"login", "refresh"}
          /\ call[q].password # password[call[q].user]
      BY <1>1, <1>2, <2>1
    <3>2. CASE call[q].user = u
      BY <1>2, <3>1, <3>2 DEF CallsOn, Open
    <3>3. CASE call[q].user # u
      BY <1>2, <1>4, <3>1, <3>3 DEF OldInv, OpeningExplained
    <3> QED
      BY <3>2, <3>3
  <2> QED
    BY <1>0, <2>1 DEF OpeningExplained
<1> QED
  BY <1>5, <1>6 DEF OldInv

\* Every step keeps it.
LEMMA OldStepKeeps ==
    ASSUME AccountInv, OldInv, [Next]_vars
    PROVE  OldInv'
<1>0. /\ None \notin crossed
      /\ \A q \in Requests : pc[q] # "idle" /\ call[q].op \in {"login", "refresh"} =>
             call[q].token \in Tokens \cup {None}
  BY AccountConstants DEF AccountInv, TypeOK, CallsMakeSense, Fits, AdminOps
<1>1. ASSUME NEW r \in Requests, NEW u \in Users, ReadLogin(r, u)
      PROVE  OldInv'
  <2> DEFINE c == [UserCall("login", u, None) EXCEPT !.password = password[u]]
  <2>1. Begin(r, c, "issue") /\ UNCHANGED tables
    BY <1>1 DEF ReadLogin
  <2>2. c.password = password[c.user]
    BY DEF UserCall
  <2> HIDE DEF c
  <2> QED
    BY <2>1, <2>2, OldBegins
<1>2. ASSUME NEW r \in Requests, NEW t \in Tokens, NEW op \in {"logout", "refresh"},
             ReadToken(r, t, op)
      PROVE  OldInv'
  <2> DEFINE c == [UserCall(op, refresh[t].user, t) EXCEPT !.password = refresh[t].password]
             next == IF op = "refresh" THEN "check" ELSE "revoke"
  <2>1. Begin(r, c, next) /\ UNCHANGED tables
    BY <1>2 DEF ReadToken
  <2>2. c.password = refresh[t].password /\ c.user = refresh[t].user /\ c.token = t
    BY DEF UserCall
  <2>3. refresh[t].password # password[refresh[t].user] => t \in crossed \/ refresh[t].user \in Excused
    BY <1>2 DEF OldInv, OldSessionsExcused, ReadToken, IsLive
  <2> HIDE DEF c, next
  <2> QED
    BY <2>1, <2>2, <2>3, OldBegins
<1>3. ASSUME NEW r \in Requests,
             \/ \E u \in Users : ReadForgot(r, u) \/ ReadChange(r, u)
             \/ \E t \in ResetTokens : ReadReset(r, t)
             \/ \E u, op, a, why : op \in AdminOps /\ ReadAdmin(r, u, op, a, why)
      PROVE  OldInv'
  <2>1. \A u, t : \A op \in {"forgot", "change", "reset"} :
            UserCall(op, u, t).op \notin {"login", "refresh"}
    BY DEF UserCall
  <2>2. \A u, a, why : \A op \in AdminOps : AdminCall(op, u, a, why).op \notin {"login", "refresh"}
    BY DEF AdminCall, AdminOps
  <2>3. ASSUME NEW u \in Users, ReadForgot(r, u) PROVE OldInv'
    BY <2>1, <2>3, OldBegins DEF ReadForgot
  <2>4. ASSUME NEW u \in Users, ReadChange(r, u) PROVE OldInv'
    BY <2>1, <2>4, OldBegins DEF ReadChange
  <2>5. ASSUME NEW t \in ResetTokens, ReadReset(r, t) PROVE OldInv'
    BY <2>1, <2>5, OldBegins DEF ReadReset
  <2>6. ASSUME NEW u, NEW op \in AdminOps, NEW a, NEW why, ReadAdmin(r, u, op, a, why)
        PROVE  OldInv'
    BY <2>2, <2>6, OldBegins DEF ReadAdmin
  <2> QED
    BY <1>3, <2>3, <2>4, <2>5, <2>6
<1>4. ASSUME NEW r \in Requests, CheckUser(r)
      PROVE  OldInv'
  BY <1>0, <1>4, OldStays DEF CheckUser, Goto, End, tables, AccountInv, TypeOK
<1>5. ASSUME NEW r \in Requests, Revoke(r)
      PROVE  OldInv'
  <2>1. \A t \in Tokens : refresh'[t].status = "active" => refresh'[t] = refresh[t]
    <3>1. call[r].token \in Tokens /\ refresh[call[r].token] \in StoredTokens
      BY <1>5 DEF Revoke, AccountInv, TypeOK, CallsMakeSense, Fits, AdminOps, HeldIsStored,
                  Holders, Open, RefreshRows
    <3>2. [refresh[call[r].token] EXCEPT !.status = "revoked"].status = "revoked"
      BY <3>1 DEF StoredTokens
    <3> QED
      BY <1>5, <3>1, <3>2 DEF Revoke, AccountInv, TypeOK
  <2> QED
    BY <1>0, <1>5, <2>1, OldStays DEF Revoke, Goto, End, AccountInv, TypeOK
<1>6. ASSUME NEW r \in Requests, InvalidateResets(r) \/ SpendReset(r)
      PROVE  OldInv'
  BY <1>0, <1>6, OldStays DEF InvalidateResets, SpendReset, Goto, AccountInv, TypeOK
<1>7. ASSUME NEW r \in Requests, NEW t \in ResetTokens, StoreReset(r, t)
      PROVE  OldInv'
  BY <1>0, <1>7, OldStays DEF StoreReset, End, AccountInv, TypeOK
<1>8. ASSUME NEW r \in Requests, Mark(r)
      PROVE  OldInv'
  <2>1. /\ pc[r] = "mark" /\ pc'[r] = "idle" /\ call[r].user \in Users
        /\ UNCHANGED <<password, refresh, unrevoked>>
    BY <1>8 DEF Mark, AccountInv, TypeOK, CallsMakeSense, Fits
  <2>2. \A q \in Requests : q # r =>
            /\ pc'[q] = pc[q] /\ call'[q].op = call[q].op /\ call'[q].user = call[q].user
            /\ pc[q] # "mark" => call'[q] = call[q]
    BY <1>8 DEF Mark, AccountInv, TypeOK, Calls, OpenCalls, NoCall
  <2>3. \A q \in Requests : pc[q] = "mark" => call[q].op \in AdminOps
    BY DEF AccountInv, CallsMakeSense, Fits
  <2>4. crossed \cap Tokens \subseteq crossed'
    BY <1>8, <2>1, AccountConstants DEF Mark
  <2> QED
    BY <1>0, <2>1, <2>2, <2>3, <2>4, OldStays DEF AdminOps
<1>9. ASSUME NEW r \in Requests, Crash(r)
      PROVE  OldInv'
  BY <1>0, <1>9, OldStays DEF Crash, tables, AccountInv, TypeOK
<1>10. CASE UNCHANGED vars \/ \E t \in Tokens \cup ResetTokens : Expire(t)
  BY <1>0, <1>10, OldStays DEF Expire, vars, tables, session, history
<1> QED
  <2>1. ASSUME NEW r \in Requests, Auth(r) PROVE OldInv'
    BY <2>1, <1>1, <1>2, <1>3, <1>4, <1>5, <1>6, <1>7, OldIssued, OldSaved, OldRevoked DEF Auth
  <2>2. ASSUME NEW r \in Requests, Admin(r) PROVE OldInv'
    BY <2>2, <1>3, <1>8 DEF Admin, AdminOps
  <2> QED
    BY <2>1, <2>2, <1>9, <1>10 DEF Next

-----------------------------------------------------------------------------
(* The audit columns *)

Whole(row) == IF row.at THEN row.by # None /\ row.reason # None ELSE row = NoAudit

\* An admin call that nobody overtook knows what it is about to write over.
MarksAreInformed ==
    \A r \in Requests : pc[r] = "mark" =>
        /\ call[r].op = "disable" => call[r].by # None /\ call[r].reason # None
        /\ ~call[r].crossed => seen[r] = disabled[call[r].user]

AuditInv == AuditTrailTornByOverlap /\ MarksAreInformed

\* A row of the audit columns is its three columns.
LEMMA AuditRow ==
    ASSUME NEW a \in Audits, NEW b \in Audits, a.at = b.at, a.by = b.by, a.reason = b.reason
    PROVE  a = b
BY DEF Audits

\* Steps that write no audit column and begin no admin call.
LEMMA AuditStays ==
    ASSUME AuditInv, UNCHANGED disabled, crossed \cap Users \subseteq crossed',
           crossed' \cap Users \subseteq crossed,
           \A r \in Requests : pc'[r] = "mark" =>
               /\ pc[r] = "mark" /\ seen'[r] = seen[r]
               /\ call'[r].op = call[r].op /\ call'[r].user = call[r].user
               /\ call'[r].by = call[r].by /\ call'[r].reason = call[r].reason
               /\ call'[r].crossed = call[r].crossed
    PROVE  AuditInv'
<1>1. AuditTrailTornByOverlap'
  BY DEF AuditInv, AuditTrailTornByOverlap
<1>2. MarksAreInformed'
  BY DEF AuditInv, MarksAreInformed
<1> QED
  BY <1>1, <1>2 DEF AuditInv

\* The three columns as UPDATE leaves them, when the call has loaded the row it meets.
LEMMA InformedMarkWritesAll ==
    ASSUME AccountInv, NEW r \in Requests, Mark(r), seen[r] = disabled[call[r].user]
    PROVE  disabled'[call[r].user] = Intended(call[r])
<1> DEFINE c == call[r]
           old == disabled[c.user]
<1>1. c.user \in Users /\ c.op \in AdminOps
  BY DEF Mark, AccountInv, CallsMakeSense, Fits, AdminOps
<1>2. c \in OpenCalls /\ old \in Audits /\ Intended(c) \in Audits
  <2>1. c \in OpenCalls
    BY <1>1 DEF AccountInv, TypeOK, Calls, NoCall, AdminOps
  <2> QED
    BY <1>1, <2>1, NoRowsTyped DEF AccountInv, TypeOK, Intended, Audits, OpenCalls
<1> DEFINE columns == Writes(c, old)
           row == [k \in DOMAIN NoAudit |-> IF k \in columns THEN Intended(c)[k] ELSE old[k]]
<1>3. disabled'[c.user] = row
  BY <1>1 DEF Mark, AccountInv, TypeOK
<1>4. \A k \in {"at", "by", "reason"} : k \notin columns => Intended(c)[k] = old[k]
  BY DEF Writes
<1> HIDE DEF columns
<1>5. row \in Audits
  BY <1>2 DEF Audits, NoAudit
<1>6. row.at = Intended(c).at /\ row.by = Intended(c).by /\ row.reason = Intended(c).reason
  BY <1>4 DEF NoAudit
<1> HIDE DEF row
<1> QED
  BY <1>2, <1>3, <1>5, <1>6, AuditRow

\* A call that was overtaken marks its user, any other writes the whole row.
LEMMA MarkKeepsAudit ==
    ASSUME AccountInv, AuditInv, NEW r \in Requests, Mark(r)
    PROVE  AuditInv'
<1> DEFINE c == call[r]
           marking == {q \in CallsOn(c.user) : pc[q] = "mark"} \ {r}
<1>0. /\ pc[r] = "mark" /\ c.user \in Users /\ c.op \in AdminOps
      /\ crossed' = IF c.crossed THEN crossed \cup {c.user} ELSE crossed \ {c.user}
      /\ pc' = [pc EXCEPT ![r] = "idle"] /\ seen' = [seen EXCEPT ![r] = NoAudit]
  BY DEF Mark, AccountInv, CallsMakeSense, Fits, AdminOps
<1>1. \A v \in Users : v # c.user => disabled'[v] = disabled[v]
  BY DEF Mark, AccountInv, TypeOK
<1>2. pc'[r] = "idle" /\ \A q \in Requests : q # r => pc'[q] = pc[q] /\ seen'[q] = seen[q]
  BY <1>0 DEF AccountInv, TypeOK
<1>3. \A q \in Requests : q # r =>
          /\ call'[q].op = call[q].op /\ call'[q].user = call[q].user
          /\ call'[q].by = call[q].by /\ call'[q].reason = call[q].reason
          /\ q \in marking => call'[q].crossed
          /\ q \notin marking => call'[q].crossed = call[q].crossed
  <2>1. \A q \in Requests :
            LET after == [call[q] EXCEPT !.crossed = TRUE] IN
            /\ after.op = call[q].op /\ after.user = call[q].user
            /\ after.by = call[q].by /\ after.reason = call[q].reason /\ after.crossed
    BY DEF AccountInv, TypeOK, Calls, OpenCalls, NoCall
  <2>2. call' = [q \in Requests |-> IF q = r THEN NoCall
                                    ELSE IF q \in marking THEN [call[q] EXCEPT !.crossed = TRUE]
                                    ELSE call[q]]
    BY DEF Mark
  <2> HIDE DEF marking
  <2> QED
    BY <2>1, <2>2
<1>4. c.user \notin crossed' => Whole(disabled'[c.user])
  <2> SUFFICES ASSUME ~c.crossed PROVE Whole(disabled'[c.user])
    BY <1>0
  <2>1. disabled'[c.user] = Intended(c)
    BY <1>0, InformedMarkWritesAll DEF AuditInv, MarksAreInformed
  <2>2. c.op = "disable" => c.by # None /\ c.reason # None
    BY <1>0 DEF AuditInv, MarksAreInformed
  <2> QED
    BY <2>1, <2>2 DEF Whole, Intended, NoAudit
<1>5. AuditTrailTornByOverlap'
  <2> SUFFICES ASSUME NEW v \in Users, v \notin crossed' PROVE Whole(disabled'[v])
    BY DEF AuditTrailTornByOverlap, Whole
  <2>1. CASE v = c.user
    BY <1>4, <2>1
  <2>2. CASE v # c.user
    BY <1>0, <1>1, <2>2 DEF AuditInv, AuditTrailTornByOverlap, Whole
  <2> QED
    BY <2>1, <2>2
<1>6. MarksAreInformed'
  <2> SUFFICES ASSUME NEW q \in Requests, pc'[q] = "mark"
               PROVE  /\ call'[q].op = "disable" => call'[q].by # None /\ call'[q].reason # None
                      /\ ~call'[q].crossed => seen'[q] = disabled'[call'[q].user]
    BY DEF MarksAreInformed
  <2>1. q # r /\ pc[q] = "mark" /\ call[q].user \in Users
    BY <1>2 DEF AccountInv, CallsMakeSense, Fits
  <2>2. CASE call[q].user = c.user
    <3>1. q \in marking
      BY <2>1, <2>2 DEF CallsOn, Open
    <3> QED
      BY <1>3, <2>1, <3>1 DEF AuditInv, MarksAreInformed
  <2>3. CASE call[q].user # c.user
    <3>1. q \notin marking
      BY <2>3 DEF CallsOn
    <3> QED
      BY <1>1, <1>2, <1>3, <2>1, <2>3, <3>1 DEF AuditInv, MarksAreInformed
  <2> QED
    BY <2>2, <2>3
<1> QED
  BY <1>5, <1>6 DEF AuditInv

\* Every step keeps it.
LEMMA AuditStepKeeps ==
    ASSUME AccountInv, AuditInv, [Next]_vars
    PROVE  AuditInv'
<1>1. ASSUME NEW r \in Requests, NEW c, NEW next, next # "mark", Begin(r, c, next),
             UNCHANGED <<tables, seen>>
      PROVE  AuditInv'
  BY <1>1, AuditStays DEF Begin, tables, AccountInv, TypeOK
<1>2. ASSUME NEW r \in Requests, NEW u \in Users, ReadLogin(r, u) \/ ReadForgot(r, u) \/ ReadChange(r, u)
      PROVE  AuditInv'
  BY <1>1, <1>2 DEF ReadLogin, ReadForgot, ReadChange
<1>3. ASSUME NEW r \in Requests, NEW t \in Tokens,
             ReadToken(r, t, "logout") \/ ReadToken(r, t, "refresh")
      PROVE  AuditInv'
  BY <1>1, <1>3 DEF ReadToken
<1>4. ASSUME NEW r \in Requests, NEW t \in ResetTokens, ReadReset(r, t)
      PROVE  AuditInv'
  BY <1>1, <1>4 DEF ReadReset
<1>5. ASSUME NEW r \in Requests, NEW u \in Users, NEW op \in AdminOps, NEW a, NEW why,
             op = "disable" => a # None /\ why # None,
             ReadAdmin(r, u, op, a, why)
      PROVE  AuditInv'
  <2> DEFINE c == AdminCall(op, u, a, why)
  <2>1. c.op = op /\ c.user = u /\ c.by = a /\ c.reason = why /\ ~c.crossed
    BY DEF AdminCall
  <2>2. /\ pc' = [pc EXCEPT ![r] = "mark"] /\ call' = [call EXCEPT ![r] = c]
        /\ seen' = [seen EXCEPT ![r] = disabled[u]] /\ UNCHANGED <<disabled, crossed>>
    BY <1>5 DEF ReadAdmin, Begin, tables
  <2> HIDE DEF c
  <2>3. call'[r] = c /\ seen'[r] = disabled[u]
    BY <2>2 DEF AccountInv, TypeOK
  <2>4. \A q \in Requests : q # r => pc'[q] = pc[q] /\ call'[q] = call[q] /\ seen'[q] = seen[q]
    BY <2>2 DEF AccountInv, TypeOK
  <2>5. MarksAreInformed'
    BY <1>5, <2>1, <2>2, <2>3, <2>4 DEF AuditInv, MarksAreInformed
  <2>6. AuditTrailTornByOverlap'
    BY <2>2 DEF AuditInv, AuditTrailTornByOverlap
  <2> QED
    BY <2>5, <2>6 DEF AuditInv
<1>6. ASSUME NEW r \in Requests, CheckUser(r)
      PROVE  AuditInv'
  BY <1>6, AuditStays DEF CheckUser, Goto, End, tables, AccountInv, TypeOK
<1>7. ASSUME NEW r \in Requests, Revoke(r)
      PROVE  AuditInv'
  BY <1>7, AuditStays DEF Revoke, Goto, End, AccountInv, TypeOK
<1>8. ASSUME NEW r \in Requests, InvalidateResets(r) \/ SpendReset(r) \/ SavePassword(r)
      PROVE  AuditInv'
  BY <1>8, AuditStays DEF InvalidateResets, SpendReset, SavePassword, Goto, AccountInv, TypeOK
<1>9. ASSUME NEW r \in Requests, NEW t \in Tokens, Issue(r, t)
      PROVE  AuditInv'
  <2>1. crossed' \cap Users = crossed \cap Users
    BY <1>9, AccountConstants DEF Issue
  <2> QED
    BY <1>9, <2>1, AuditStays DEF Issue, End, AccountInv, TypeOK
<1>10. ASSUME NEW r \in Requests, NEW t \in ResetTokens, StoreReset(r, t)
       PROVE  AuditInv'
  <2>1. crossed' \cap Users = crossed \cap Users
    BY <1>10, AccountConstants DEF StoreReset
  <2> QED
    BY <1>10, <2>1, AuditStays DEF StoreReset, End, AccountInv, TypeOK
<1>11. ASSUME NEW r \in Requests, RevokeAll(r)
       PROVE  AuditInv'
  <2>1. /\ pc'[r] = "idle" /\ UNCHANGED <<disabled, crossed, seen>>
        /\ \A q \in Requests : q # r => pc'[q] = pc[q]
    BY <1>11 DEF RevokeAll, AccountInv, TypeOK
  <2>2. \A q \in Requests : pc[q] = "mark" => call[q].op \notin {"login", "refresh"}
    BY DEF AccountInv, CallsMakeSense, Fits, AdminOps
  <2>3. \A q \in Requests : q # r /\ pc[q] = "mark" => call'[q] = call[q]
    BY <1>11, <2>2 DEF RevokeAll
  <2> QED
    BY <2>1, <2>3, AuditStays
<1>12. ASSUME NEW r \in Requests, Crash(r)
       PROVE  AuditInv'
  BY <1>12, AuditStays DEF Crash, tables, AccountInv, TypeOK
<1>13. CASE UNCHANGED vars \/ \E t \in Tokens \cup ResetTokens : Expire(t)
  BY <1>13, AuditStays DEF Expire, vars, tables, session, history
<1> QED
  <2>1. ASSUME NEW r \in Requests, Auth(r) PROVE AuditInv'
    BY <2>1, <1>2, <1>3, <1>4, <1>6, <1>7, <1>8, <1>9, <1>10, <1>11 DEF Auth
  <2>2. ASSUME NEW r \in Requests, Admin(r) PROVE AuditInv'
    <3>1. ASSUME NEW u \in Users, NEW a \in Admins, NEW why \in Reasons,
                 ReadAdmin(r, u, "disable", a, why)
          PROVE  AuditInv'
      BY <1>5, <3>1, AccountConstants DEF AdminOps
    <3>2. ASSUME NEW u \in Users, ReadAdmin(r, u, "enable", None, None) PROVE AuditInv'
      BY <1>5, <3>2 DEF AdminOps
    <3> QED
      BY <2>2, <3>1, <3>2, MarkKeepsAudit DEF Admin
  <2> QED
    BY <2>1, <2>2, <1>12, <1>13 DEF Next

-----------------------------------------------------------------------------
(* Rotation *)

\* What is known of a refresh token that no two calls share: it is held once, whoever has
\* read it and not yet revoked it finds it active (but for a logout, which may come after
\* revoke_all_for_user), and a token that was rotated has one heir, stored or to be stored.
Sound(t) ==
    /\ \A q, r \in Holders(t) : q = r
    /\ \A r \in Holders(t) : call[r].user = refresh[t].user
    /\ t \in closed => refresh[t].status = "revoked"
    /\ \A r \in Holders(t) : pc[r] \in {"check", "revoke"} =>
           refresh[t].status = "active" \/ (call[r].op = "logout" /\ t \in closed)
    /\ refresh[t].status # "revoked" \/ t \in closed => Heirs(t) = {} /\ Rotating(t) = {}
    /\ refresh[t].status = "revoked" /\ t \notin closed =>
           \/ Heirs(t) = {} /\ Rotating(t) # {}
           \/ Rotating(t) = {} /\ \E n \in Tokens : Heirs(t) = {n}

RotationInv == \A t \in Tokens \ shared : Sound(t)

\* Steps that leave a token, its heirs and the order of its transactions alone.
LEMMA SoundStays ==
    ASSUME NEW t \in Tokens, Sound(t), refresh'[t].status = refresh[t].status,
           refresh'[t].user = refresh[t].user,
           t \in closed <=> t \in closed', Heirs(t)' = Heirs(t), Rotating(t)' = Rotating(t),
           Holders(t)' \subseteq Holders(t),
           \A r \in Holders(t)' : /\ call'[r].op = call[r].op /\ call'[r].user = call[r].user
                                  /\ pc'[r] = pc[r] \/ pc[r] = "check"
    PROVE  Sound(t)'
BY DEF Sound

\* Steps that change no refresh token and let calls on refresh tokens only go on or end.
LEMMA RotationStays ==
    ASSUME RotationInv, \A t \in Tokens : refresh'[t] = refresh[t],
           closed' = closed, shared \cap Tokens \subseteq shared',
           \A r \in Requests : /\ pc'[r] # "idle" /\ call'[r].token \in Tokens =>
                                     /\ pc[r] # "idle" /\ call'[r].token = call[r].token
                                     /\ call'[r].op = call[r].op /\ call'[r].user = call[r].user
                                     /\ pc'[r] = pc[r] \/ (pc[r] = "check" /\ pc'[r] # "issue")
                               /\ pc[r] = "issue" /\ call[r].token \in Tokens \ shared' =>
                                     pc'[r] = "issue" /\ call'[r].token = call[r].token
    PROVE  RotationInv'
<1> SUFFICES ASSUME NEW t \in Tokens, t \notin shared' PROVE Sound(t)'
  BY DEF RotationInv
<1>1. Sound(t)
  BY DEF RotationInv
<1>2. Heirs(t)' = Heirs(t)
  BY DEF Heirs
<1>3. Holders(t)' \subseteq Holders(t)
  BY DEF Holders, Open
<1>4. Rotating(t)' = Rotating(t)
  BY DEF Rotating, Holders, Open
<1>5. \A r \in Holders(t)' : /\ call'[r].op = call[r].op /\ call'[r].user = call[r].user
                            /\ (pc'[r] = pc[r] \/ pc[r] = "check")
  BY DEF Holders, Open
<1> QED
  BY <1>1, <1>2, <1>3, <1>4, <1>5, SoundStays

\* A call begins: it is the only one on its token, or the token is shared from now on.
LEMMA RotationBegins ==
    ASSUME AccountInv, RotationInv, NEW r \in Requests, NEW c, NEW next, Begin(r, c, next),
           UNCHANGED tables, next # "idle",
           c.token \in Tokens => /\ next \in {"check", "revoke"}
                                 /\ refresh[c.token].status = "active"
                                 /\ refresh[c.token].user = c.user
    PROVE  RotationInv'
<1>0. /\ pc[r] = "idle" /\ pc' = [pc EXCEPT ![r] = next] /\ call' = [call EXCEPT ![r] = c]
      /\ UNCHANGED <<refresh, closed>> /\ shared \subseteq shared'
      /\ c.token # None /\ Holders(c.token) # {} => c.token \in shared'
  BY DEF Begin, tables
<1>1. /\ pc'[r] = next /\ call'[r] = c
      /\ \A q \in Requests : q # r => pc'[q] = pc[q] /\ call'[q] = call[q]
  BY <1>0 DEF AccountInv, TypeOK
<1> SUFFICES ASSUME NEW t \in Tokens, t \notin shared' PROVE Sound(t)'
  BY DEF RotationInv
<1>2. Sound(t)
  BY <1>0 DEF RotationInv
<1>3. Heirs(t)' = Heirs(t)
  BY <1>0 DEF Heirs
<1>4. CASE t # c.token
  <2>1. Holders(t)' = Holders(t) /\ r \notin Holders(t)
    BY <1>0, <1>1, <1>4 DEF Holders, Open
  <2>2. Rotating(t)' = Rotating(t)
    BY <1>0, <1>1, <2>1 DEF Rotating, Holders, Open
  <2>3. \A q \in Holders(t)' : /\ call'[q].op = call[q].op /\ call'[q].user = call[q].user
                              /\ pc'[q] = pc[q]
    BY <1>1, <2>1 DEF Holders, Open
  <2> QED
    BY <1>0, <1>2, <1>3, <2>1, <2>2, <2>3, SoundStays
<1>5. CASE t = c.token
  <2>1. Holders(t) = {}
    BY <1>0, <1>5, AccountConstants
  <2>2. Holders(t)' = {r}
    BY <1>0, <1>1, <1>5, <2>1 DEF Holders, Open
  <2>3. Rotating(t)' = {} /\ refresh'[t].status = "active"
    BY <1>0, <1>1, <1>5, <2>2 DEF Rotating
  <2>4. Heirs(t) = {} /\ t \notin closed
    BY <1>0, <1>2, <2>3 DEF Sound
  <2>5. pc'[r] # "issue" /\ call'[r].user = refresh'[t].user /\ Heirs(t)' = {} /\ t \notin closed'
    BY <1>0, <1>1, <1>3, <1>5, <2>4
  <2> QED
    BY <2>2, <2>3, <2>5 DEF Sound
<1> QED
  BY <1>4, <1>5

\* A token is revoked: by a logout, which closes it, or by a refresh, which will store its heir.
LEMMA RotationRevokes ==
    ASSUME AccountInv, RotationInv, NEW r \in Requests, Revoke(r)
    PROVE  RotationInv'
<1> DEFINE v == call[r].token
<1>0. /\ pc[r] = "revoke" /\ v \in Tokens /\ call[r].op \in {"logout", "refresh"}
      /\ refresh' = [refresh EXCEPT ![v].status = "revoked"] /\ shared' = shared
  BY DEF Revoke, AccountInv, CallsMakeSense, Fits, AdminOps
<1>1. r \in Holders(v)
  BY <1>0 DEF Holders, Open
<1>2. /\ refresh'[v].status = "revoked" /\ refresh'[v].parent = refresh[v].parent
      /\ refresh'[v].user = refresh[v].user
      /\ \A t \in Tokens : t # v => refresh'[t] = refresh[t]
  <2>1. refresh[v] \in StoredTokens
    BY <1>0, <1>1 DEF AccountInv, TypeOK, HeldIsStored, RefreshRows
  <2>2. /\ [refresh[v] EXCEPT !.status = "revoked"].status = "revoked"
        /\ [refresh[v] EXCEPT !.status = "revoked"].parent = refresh[v].parent
        /\ [refresh[v] EXCEPT !.status = "revoked"].user = refresh[v].user
    BY <2>1 DEF StoredTokens
  <2> QED
    BY <1>0, <2>2 DEF AccountInv, TypeOK
<1>3. /\ \A q \in Requests : q # r => pc'[q] = pc[q] /\ call'[q] = call[q]
      /\ call[r].op = "refresh" => pc'[r] = "issue" /\ call'[r] = call[r] /\ closed' = closed
      /\ call[r].op = "logout" => pc'[r] = "idle" /\ closed' = closed \cup {v}
  BY DEF Revoke, Goto, End, AccountInv, TypeOK
<1> SUFFICES ASSUME NEW t \in Tokens, t \notin shared' PROVE Sound(t)'
  BY DEF RotationInv
<1>4. Sound(t)
  BY <1>0 DEF RotationInv
<1>5. Heirs(t)' = Heirs(t)
  BY <1>2 DEF Heirs
<1>6. CASE t # v
  <2>1. Holders(t)' = Holders(t) /\ r \notin Holders(t)
    BY <1>0, <1>3, <1>6 DEF Holders, Open
  <2>2. Rotating(t)' = Rotating(t)
    BY <1>3, <2>1 DEF Rotating, Holders, Open
  <2>3. \A q \in Holders(t)' : /\ call'[q].op = call[q].op /\ call'[q].user = call[q].user
                              /\ pc'[q] = pc[q]
    BY <1>3, <2>1 DEF Holders, Open
  <2>4. t \in closed <=> t \in closed'
    BY <1>0, <1>3, <1>6
  <2> QED
    BY <1>2, <1>4, <1>5, <1>6, <2>1, <2>2, <2>3, <2>4, SoundStays
<1>7. CASE t = v
  <2>1. Holders(t) = {r}
    BY <1>1, <1>4, <1>7 DEF Sound
  <2>2. CASE call[r].op = "refresh"
    <3>1. Holders(t)' = {r} /\ Rotating(t)' = {r}
      BY <1>3, <1>7, <2>1, <2>2 DEF Rotating, Holders, Open
    <3>2. refresh[t].status = "active"
      BY <1>0, <1>4, <2>1, <2>2 DEF Sound
    <3>3. t \notin closed' /\ Heirs(t)' = {}
      BY <1>3, <1>4, <1>5, <2>2, <3>2 DEF Sound
    <3>4. refresh'[t].status = "revoked" /\ call'[r].user = refresh'[t].user /\ pc'[r] = "issue"
      BY <1>2, <1>3, <1>4, <1>7, <2>1, <2>2 DEF Sound
    <3> QED
      BY <3>1, <3>3, <3>4 DEF Sound
  <2>3. CASE call[r].op = "logout"
    <3>1. Holders(t)' = {} /\ Rotating(t)' = {}
      BY <1>3, <1>7, <2>1, <2>3 DEF Rotating, Holders, Open
    <3>2. refresh[t].status = "active" \/ t \in closed
      BY <1>0, <1>4, <2>1 DEF Sound
    <3>3. t \in closed' /\ Heirs(t)' = {}
      BY <1>3, <1>4, <1>5, <1>7, <2>3, <3>2 DEF Sound
    <3> QED
      BY <1>2, <1>7, <3>1, <3>3 DEF Sound
  <2> QED
    BY <1>0, <2>2, <2>3
<1> QED
  BY <1>6, <1>7

\* The heir is stored.
LEMMA RotationIssues ==
    ASSUME AccountInv, RotationInv, NEW r \in Requests, NEW n \in Tokens, Issue(r, n)
    PROVE  RotationInv'
<1> DEFINE v == call[r].token
<1>0. /\ pc[r] = "issue" /\ v \in Tokens \cup {None} /\ refresh[n] = NoToken
      /\ refresh' = [refresh EXCEPT ![n] = [status |-> "active", user |-> call[r].user,
                                            parent |-> v, password |-> call[r].password]]
      /\ pc' = [pc EXCEPT ![r] = "idle"] /\ call' = [call EXCEPT ![r] = NoCall]
      /\ UNCHANGED <<shared, closed>>
  BY DEF Issue, End, AccountInv, CallsMakeSense, Fits, AdminOps
<1>1. /\ refresh'[n].status = "active" /\ refresh'[n].parent = v
      /\ \A t \in Tokens : t # n => refresh'[t] = refresh[t]
  BY <1>0 DEF AccountInv, TypeOK
<1>2. pc'[r] = "idle" /\ \A q \in Requests : q # r => pc'[q] = pc[q] /\ call'[q] = call[q]
  BY <1>0 DEF AccountInv, TypeOK
<1> SUFFICES ASSUME NEW t \in Tokens, t \notin shared' PROVE Sound(t)'
  BY DEF RotationInv
<1>3. Sound(t)
  BY <1>0 DEF RotationInv
<1>4. /\ Holders(t)' = Holders(t) \ {r} /\ Rotating(t)' = Rotating(t) \ {r}
      /\ v # t => r \notin Holders(t)
  BY <1>2 DEF Rotating, Holders, Open
<1>5. refresh[n].parent = None
  BY <1>0 DEF NoToken
<1>6. Heirs(t)' = IF t = v THEN Heirs(t) \cup {n} ELSE Heirs(t)
  BY <1>1, <1>5, AccountConstants DEF Heirs
<1>7. \A q \in Holders(t)' : /\ q # r /\ pc'[q] = pc[q]
                            /\ call'[q].op = call[q].op /\ call'[q].user = call[q].user
  BY <1>2, <1>4 DEF Holders, Open
<1>8. CASE t = n
  <2>1. Holders(t) = {} /\ Rotating(t) = {}
    BY <1>0, <1>8 DEF AccountInv, HeldIsStored, Rotating
  <2>2. v # t
    BY <1>0, <2>1 DEF Holders, Open
  <2>3. t \notin closed /\ Heirs(t) = {}
    BY <1>0, <1>3, <1>8 DEF Sound, NoToken
  <2> QED
    BY <1>0, <1>1, <1>4, <1>6, <1>8, <2>1, <2>2, <2>3 DEF Sound
<1>9. CASE t # n /\ t # v
  <2>1. Holders(t)' = Holders(t) /\ Rotating(t)' = Rotating(t) /\ Heirs(t)' = Heirs(t)
    BY <1>4, <1>6, <1>9 DEF Rotating
  <2> QED
    BY <1>0, <1>1, <1>3, <1>7, <1>9, <2>1, SoundStays
<1>10. CASE t # n /\ t = v
  <2>1. r \in Holders(t) /\ r \in Rotating(t)
    BY <1>0, <1>10 DEF Rotating, Holders, Open
  <2>2. Holders(t)' = {} /\ Rotating(t)' = {}
    BY <1>3, <1>4, <2>1 DEF Sound, Rotating
  <2>3. refresh[t].status = "revoked" /\ t \notin closed /\ Heirs(t) = {}
    BY <1>3, <2>1 DEF Sound
  <2>4. Heirs(t)' = {n}
    BY <1>6, <1>10, <2>3
  <2> QED
    BY <1>0, <1>1, <1>10, <2>2, <2>3, <2>4 DEF Sound
<1> QED
  BY <1>8, <1>9, <1>10

\* All tokens of a user are closed, and those that are just being rotated shared.
LEMMA RotationClosed ==
    ASSUME AccountInv, RotationInv, NEW r \in Requests, RevokeAll(r)
    PROVE  RotationInv'
<1> DEFINE u == call[r].user
           opening == {q \in CallsOn(u) : call[q].op \in {"login", "refresh"}}
<1>0. /\ pc[r] = "revokeAll" /\ pc' = [pc EXCEPT ![r] = "idle"]
      /\ call[r].token \notin Tokens /\ shared \subseteq shared'
      /\ \A q \in opening : call[q].token \in Tokens => call[q].token \in shared'
      /\ closed' = closed \cup SessionsOf(u)
  BY AccountConstants DEF RevokeAll, AccountInv, CallsMakeSense, Fits, AdminOps
<1>1. \A q \in Requests : q # r =>
          /\ pc'[q] = pc[q] /\ call'[q].op = call[q].op /\ call'[q].user = call[q].user
          /\ call'[q].token = call[q].token
  BY DEF RevokeAll, AccountInv, TypeOK, Calls, OpenCalls, NoCall
<1>2. \A t \in SessionsOf(u) : /\ refresh'[t].status = "revoked"
                             /\ refresh'[t].parent = refresh[t].parent
                             /\ refresh'[t].user = refresh[t].user
  <2>1. \A t \in SessionsOf(u) :
            /\ [refresh[t] EXCEPT !.status = "revoked"].status = "revoked"
            /\ [refresh[t] EXCEPT !.status = "revoked"].parent = refresh[t].parent
            /\ [refresh[t] EXCEPT !.status = "revoked"].user = refresh[t].user
    BY DEF SessionsOf, IsLive, AccountInv, TypeOK, RefreshRows, StoredTokens, NoToken
  <2> QED
    BY <2>1 DEF RevokeAll, SessionsOf
<1>3. \A t \in Tokens : t \notin SessionsOf(u) => refresh'[t] = refresh[t]
  BY DEF RevokeAll
<1>4. pc'[r] = "idle"
  BY <1>0 DEF AccountInv, TypeOK
<1> SUFFICES ASSUME NEW t \in Tokens, t \notin shared' PROVE Sound(t)'
  BY DEF RotationInv
<1>5. Sound(t)
  BY <1>0 DEF RotationInv
<1>6. Heirs(t)' = Heirs(t)
  <2>1. \A k \in Tokens : refresh'[k].parent = refresh[k].parent
    BY <1>2, <1>3
  <2> QED
    BY <2>1 DEF Heirs
<1>7. /\ Holders(t)' = Holders(t) /\ r \notin Holders(t)
  BY <1>0, <1>1, <1>4 DEF Holders, Open
<1>8. /\ \A q \in Holders(t)' : /\ call'[q].op = call[q].op /\ call'[q].user = call[q].user
                               /\ pc'[q] = pc[q]
      /\ Rotating(t)' = Rotating(t)
  BY <1>1, <1>7 DEF Rotating, Holders, Open
<1>9. CASE t \notin SessionsOf(u)
  BY <1>0, <1>3, <1>5, <1>6, <1>7, <1>8, <1>9, SoundStays
<1>10. CASE t \in SessionsOf(u)
  <2>1. refresh[t].status = "active" /\ refresh[t].user = u
    BY <1>10 DEF SessionsOf, IsLive
  <2>2. Heirs(t) = {} /\ Rotating(t) = {} /\ t \notin closed
    BY <1>5, <2>1 DEF Sound
  <2>3. \A q \in Holders(t) : call[q].op # "refresh"
    <3> SUFFICES ASSUME NEW q \in Holders(t), call[q].op = "refresh" PROVE FALSE
      OBVIOUS
    <3>1. call[q].user = u
      BY <1>5, <2>1 DEF Sound
    <3> QED
      BY <1>0, <3>1 DEF CallsOn, Holders, Open
  <2>4. \A q \in Holders(t) : pc[q] \in {"check", "revoke"} => call[q].op = "logout"
    <3>1. \A q \in Holders(t) : q \in Requests /\ pc[q] # "idle" /\ call[q].token = t
      BY DEF Holders, Open
    <3>2. \A q \in Requests : pc[q] # "idle" /\ call[q].token = t =>
              call[q].op \in {"logout", "refresh"}
      BY AccountConstants DEF AccountInv, CallsMakeSense, Fits, AdminOps
    <3> QED
      BY <2>3, <3>1, <3>2
  <2>5. t \in closed' /\ refresh'[t].status = "revoked"
    BY <1>0, <1>2, <1>10
  <2>6. /\ \A p, q \in Holders(t)' : p = q
        /\ \A q \in Holders(t)' : call'[q].user = refresh'[t].user
    BY <1>2, <1>5, <1>7, <1>8, <1>10 DEF Sound
  <2>7. \A q \in Holders(t)' : pc'[q] \in {"check", "revoke"} => call'[q].op = "logout"
    BY <1>7, <1>8, <2>4
  <2>8. Heirs(t)' = {} /\ Rotating(t)' = {}
    BY <1>6, <1>8, <2>2
  <2> QED
    BY <2>5, <2>6, <2>7, <2>8 DEF Sound
<1> QED
  BY <1>9, <1>10

\* Every step keeps it.
LEMMA RotationStepKeeps ==
    ASSUME AccountInv, RotationInv, [Next]_vars
    PROVE  RotationInv'
<1>1. ASSUME NEW r \in Requests,
             \/ \E u \in Users : ReadLogin(r, u) \/ ReadForgot(r, u) \/ ReadChange(r, u)
             \/ \E t \in ResetTokens : ReadReset(r, t)
             \/ \E u, op, a, why : ReadAdmin(r, u, op, a, why)
      PROVE  RotationInv'
  <2>1. ASSUME NEW u \in Users, ReadLogin(r, u) PROVE RotationInv'
    <3> DEFINE c == [UserCall("login", u, None) EXCEPT !.password = password[u]]
    <3>1. Begin(r, c, "issue") /\ UNCHANGED tables
      BY <2>1 DEF ReadLogin
    <3>2. c.token \notin Tokens
      BY AccountConstants DEF UserCall
    <3> HIDE DEF c
    <3> QED
      BY <3>1, <3>2, RotationBegins
  <2>2. ASSUME NEW u \in Users, ReadForgot(r, u) \/ ReadChange(r, u) PROVE RotationInv'
    <3>1. UserCall("forgot", u, None).token \notin Tokens /\ UserCall("change", u, None).token \notin Tokens
      BY AccountConstants DEF UserCall
    <3> QED
      BY <2>2, <3>1, RotationBegins DEF ReadForgot, ReadChange
  <2>3. ASSUME NEW t \in ResetTokens, ReadReset(r, t) PROVE RotationInv'
    <3>1. UserCall("reset", reset[t].user, t).token \notin Tokens
      BY AccountConstants DEF UserCall
    <3> QED
      BY <2>3, <3>1, RotationBegins DEF ReadReset
  <2>4. ASSUME NEW u, NEW op, NEW a, NEW why, ReadAdmin(r, u, op, a, why) PROVE RotationInv'
    <3>1. AdminCall(op, u, a, why).token \notin Tokens
      BY AccountConstants DEF AdminCall
    <3> QED
      BY <2>4, <3>1, RotationBegins DEF ReadAdmin
  <2> QED
    BY <1>1, <2>1, <2>2, <2>3, <2>4
<1>2. ASSUME NEW r \in Requests, NEW t \in Tokens, NEW op \in {"logout", "refresh"},
             ReadToken(r, t, op)
      PROVE  RotationInv'
  <2> DEFINE c == [UserCall(op, refresh[t].user, t) EXCEPT !.password = refresh[t].password]
             next == IF op = "refresh" THEN "check" ELSE "revoke"
  <2>1. Begin(r, c, next) /\ UNCHANGED tables /\ refresh[t].status = "active"
    BY <1>2 DEF ReadToken, IsLive
  <2>2. c.token = t /\ c.user = refresh[t].user
    BY DEF UserCall
  <2>3. next \in {"check", "revoke"}
    OBVIOUS
  <2> HIDE DEF c, next
  <2> QED
    BY <2>1, <2>2, <2>3, RotationBegins
<1>3. \A q \in Requests : pc[q] # "idle" /\ call[q].token \in Tokens =>
          call[q].op \in {"logout", "refresh"}
  BY AccountConstants DEF AccountInv, CallsMakeSense, Fits, AdminOps
<1>4. ASSUME NEW r \in Requests, CheckUser(r)
      PROVE  RotationInv'
  <2>1. ASSUME NEW next \in {"revoke", "save"}, pc[r] = "check", Goto(r, next),
               UNCHANGED <<tables, shared, closed>>
        PROVE  RotationInv'
    BY <2>1, RotationStays DEF Goto, tables, AccountInv, TypeOK
  <2>2. ASSUME pc[r] = "check", End(r), UNCHANGED <<tables, shared, closed>>
        PROVE  RotationInv'
    BY <2>2, RotationStays DEF End, tables, AccountInv, TypeOK
  <2> QED
    BY <1>4, <2>1, <2>2 DEF CheckUser
<1>5. ASSUME NEW r \in Requests, InvalidateResets(r) \/ SpendReset(r) \/ SavePassword(r)
      PROVE  RotationInv'
  <2>1. call[r].token \notin Tokens
    BY <1>5, AccountConstants
       DEF InvalidateResets, SpendReset, SavePassword, AccountInv, CallsMakeSense, Fits, AdminOps
  <2> QED
    BY <1>5, <2>1, RotationStays
       DEF InvalidateResets, SpendReset, SavePassword, Goto, AccountInv, TypeOK
<1>6. ASSUME NEW r \in Requests, NEW t \in ResetTokens, StoreReset(r, t)
      PROVE  RotationInv'
  BY <1>6, RotationStays DEF StoreReset, End, AccountInv, TypeOK
<1>7. ASSUME NEW r \in Requests, Mark(r)
      PROVE  RotationInv'
  <2>1. /\ pc[r] = "mark" /\ pc'[r] = "idle" /\ UNCHANGED <<refresh, closed, shared>>
    BY <1>7 DEF Mark, AccountInv, TypeOK
  <2>2. \A q \in Requests : q # r =>
            /\ pc'[q] = pc[q] /\ call'[q].op = call[q].op /\ call'[q].user = call[q].user
            /\ call'[q].token = call[q].token
    BY <1>7 DEF Mark, AccountInv, TypeOK, Calls, OpenCalls, NoCall
  <2> QED
    BY <2>1, <2>2, RotationStays
<1>8. ASSUME NEW r \in Requests, Crash(r)
      PROVE  RotationInv'
  <2>1. /\ pc'[r] = "idle" /\ \A q \in Requests : q # r => pc'[q] = pc[q] /\ call'[q] = call[q]
        /\ UNCHANGED <<refresh, closed>> /\ shared \subseteq shared'
        /\ call[r].token \in Tokens => call[r].token \in shared'
    BY <1>8, AccountConstants DEF Crash, tables, AccountInv, TypeOK
  <2> QED
    BY <2>1, RotationStays
<1>9. CASE UNCHANGED vars \/ \E t \in Tokens \cup ResetTokens : Expire(t)
  BY <1>9, RotationStays DEF Expire, vars, tables, session, history
<1> QED
  <2>1. ASSUME NEW r \in Requests, Auth(r) PROVE RotationInv'
    BY <2>1, <1>1, <1>2, <1>4, <1>5, <1>6, RotationRevokes, RotationIssues, RotationClosed
       DEF Auth
  <2>2. ASSUME NEW r \in Requests, Admin(r) PROVE RotationInv'
    BY <2>2, <1>1, <1>7 DEF Admin
  <2> QED
    BY <2>1, <2>2, <1>8, <1>9 DEF Next

\* In numbers: a rotated token has one heir, stored or to be stored, any other none.
LEMMA SoundInNumbers ==
    ASSUME AccountInv, RotationInv
    PROVE  RotationKeepsOneSession
<1> SUFFICES ASSUME NEW t \in Tokens \ shared
             PROVE  LET heirs == Cardinality(Heirs(t)) + Cardinality(Rotating(t)) IN
                    CASE refresh[t].status = "none" -> heirs = 0
                      [] refresh[t].status = "active" -> heirs = 0
                      [] refresh[t].status = "revoked" -> heirs = IF t \in closed THEN 0 ELSE 1
  BY DEF RotationKeepsOneSession
<1>1. Sound(t) /\ refresh[t].status \in {"none", "active", "revoked"}
  BY DEF RotationInv, AccountInv, TypeOK, RefreshRows, StoredTokens, NoToken
<1>2. Cardinality({}) = 0
  BY FS_EmptySet
<1>3. CASE refresh[t].status # "revoked" \/ t \in closed
  <2>1. Heirs(t) = {} /\ Rotating(t) = {}
    BY <1>1, <1>3 DEF Sound
  <2>2. Cardinality(Heirs(t)) + Cardinality(Rotating(t)) = 0
    BY <1>2, <2>1
  <2> QED
    BY <1>1, <1>3, <2>2
<1>4. CASE refresh[t].status = "revoked" /\ t \notin closed
  <2>1. CASE Heirs(t) = {} /\ Rotating(t) # {}
    <3>1. PICK r \in Holders(t) : r \in Rotating(t)
      BY <2>1 DEF Rotating
    <3>2. Rotating(t) = {r}
      BY <1>1, <3>1 DEF Sound, Rotating
    <3>3. Cardinality(Heirs(t)) = 0 /\ Cardinality(Rotating(t)) = 1
      BY <2>1, <3>2, FS_EmptySet, FS_Singleton
    <3>4. Cardinality(Heirs(t)) + Cardinality(Rotating(t)) = 1
      BY <3>3
    <3> QED
      BY <1>4, <3>4
  <2>2. CASE Rotating(t) = {} /\ \E n \in Tokens : Heirs(t) = {n}
    <3>1. PICK n \in Tokens : Heirs(t) = {n}
      BY <2>2
    <3>2. Cardinality(Heirs(t)) = 1 /\ Cardinality(Rotating(t)) = 0
      BY <2>2, <3>1, FS_EmptySet, FS_Singleton
    <3>3. Cardinality(Heirs(t)) + Cardinality(Rotating(t)) = 1
      BY <3>2
    <3> QED
      BY <1>4, <3>3
  <2> QED
    BY <1>1, <1>4, <2>1, <2>2 DEF Sound
<1> QED
  BY <1>3, <1>4

-----------------------------------------------------------------------------
(* The theorems *)

\* A reset token sets at most one password unless calls on it overlapped or one was cut
\* off (reset_password saves the password and spends the token in two commits), and
\* every variable has its type.
THEOREM ResetTokensSpentOnce == Spec => [](TypeOK /\ ResetSpentOnce)
<1>1. Init => AccountInv
  BY InitAccountInv
<1>2. AccountInv /\ [Next]_vars => AccountInv'
  BY StepKeepsInv
<1>3. AccountInv => TypeOK /\ ResetSpentOnce
  BY DEF AccountInv, SpentInv, ResetSpentOnce
<1> QED
  BY <1>1, <1>2, <1>3, PTL DEF Spec

\* However many reset tokens were mailed to a user, at most one of them is valid, but for
\* those stored while another forgot_password of that user ran.
THEOREM LatestResetOnly == Spec => []OnlyLatestResetValid
<1>1. Init => AccountInv /\ LatestInv
  BY InitAccountInv DEF Init, LatestInv, OnlyLatestResetValid, AboutToStore, NoReset
<1>2. AccountInv /\ LatestInv /\ [Next]_vars => (AccountInv /\ LatestInv)'
  BY StepKeepsInv, LatestStays
<1>3. AccountInv /\ LatestInv => OnlyLatestResetValid
  BY DEF LatestInv
<1> QED
  BY <1>1, <1>2, <1>3, PTL DEF Spec

\* refresh_session neither forks nor drops a session: a token that calls did not share is
\* live and has no heir, or was closed and never gets one, or has exactly one.
THEOREM OneHeirPerToken == Spec => []RotationKeepsOneSession
<1>1. Init => AccountInv /\ RotationInv
  <2>1. Init => RotationInv
    BY AccountConstants DEF Init, NoToken, RotationInv, Sound, Holders, Open, Heirs, Rotating
  <2> QED
    BY <2>1, InitAccountInv
<1>2. AccountInv /\ RotationInv /\ [Next]_vars => AccountInv' /\ RotationInv'
  BY StepKeepsInv, RotationStepKeeps
<1>3. AccountInv /\ RotationInv => RotationKeepsOneSession
  BY SoundInNumbers
<1> QED
  BY <1>1, <1>2, <1>3, PTL DEF Spec

\* A session outlives a change of its password only while the call that changed it has
\* not come to revoke_all_for_user, or was cut off before it, or when the session was being
\* opened or rotated while all others were revoked.
THEOREM OldSessionsExplained == Spec => []OldPasswordSessionsExplained
<1>1. Init => AccountInv /\ OldInv
  BY InitAccountInv
     DEF Init, NoToken, OldInv, OldSessionsExcused, OpeningExplained
<1>2. AccountInv /\ OldInv /\ [Next]_vars => AccountInv' /\ OldInv'
  BY StepKeepsInv, OldStepKeeps
<1>3. AccountInv /\ OldInv => OldPasswordSessionsExplained
  BY DEF OldInv, OldSessionsExcused, OldPasswordSessionsExplained, Excused, IsLive
<1> QED
  BY <1>1, <1>2, <1>3, PTL DEF Spec

\* The audit columns of an account are set together and cleared together, but for the write
\* of an admin call that another one overtook.
THEOREM AuditTornByOverlapOnly == Spec => []AuditTrailTornByOverlap
<1>1. Init => AccountInv /\ AuditInv
  BY InitAccountInv DEF Init, NoAudit, AuditInv, AuditTrailTornByOverlap, MarksAreInformed
<1>2. AccountInv /\ AuditInv /\ [Next]_vars => AccountInv' /\ AuditInv'
  BY StepKeepsInv, AuditStepKeeps
<1>3. AccountInv /\ AuditInv => AuditTrailTornByOverlap
  BY DEF AuditInv
<1> QED
  BY <1>1, <1>2, <1>3, PTL DEF Spec

\* What a call on a disabled account may still do stores no token and no password.
LEMMA LateCallGetsNothing ==
    ASSUME AccountInv, NEW r \in late, Auth(r) \/ Admin(r) \/ Crash(r)
    PROVE  LiveTokens' \subseteq LiveTokens /\ password' = password
<1>0. /\ r \in Requests /\ pc[r] \in {"check", "revoke", "mark"}
      /\ pc[r] = "revoke" => call[r].op = "logout"
  BY DEF AccountInv, TypeOK, LateInv
<1>1. ASSUME refresh' = refresh, reset' = reset, password' = password
      PROVE  LiveTokens' \subseteq LiveTokens /\ password' = password
  BY <1>1 DEF LiveTokens, IsLive
<1>2. CASE CheckUser(r) \/ Mark(r) \/ Crash(r)
  BY <1>1, <1>2 DEF CheckUser, Mark, Crash, tables
<1>3. CASE Revoke(r)
  <2>1. /\ call[r].token \in Tokens /\ UNCHANGED <<reset, password>>
        /\ refresh' = [refresh EXCEPT ![call[r].token].status = "revoked"]
    BY <1>0, <1>3 DEF Revoke, AccountInv, CallsMakeSense, Fits, AdminOps
  <2>2. refresh'[call[r].token].status # "active"
    <3>1. r \in Holders(call[r].token)
      BY <1>0 DEF Holders, Open
    <3>2. refresh[call[r].token] \in StoredTokens
      BY <2>1, <3>1 DEF AccountInv, TypeOK, HeldIsStored, RefreshRows
    <3> QED
      BY <2>1, <3>2 DEF AccountInv, TypeOK, StoredTokens
  <2>3. \A t \in Tokens : t # call[r].token => refresh'[t] = refresh[t]
    BY <2>1 DEF AccountInv, TypeOK
  <2> QED
    BY <2>1, <2>2, <2>3 DEF LiveTokens, IsLive
<1>4. \A c, step : ~Begin(r, c, step)
  BY <1>0 DEF Begin
<1> QED
  <2>1. CASE Auth(r)
    BY <1>0, <1>2, <1>3, <1>4, <2>1
    DEF Auth, ReadLogin, ReadForgot, ReadChange, ReadToken, ReadReset, Issue, StoreReset,
        InvalidateResets, SavePassword, SpendReset, RevokeAll
  <2>2. CASE Admin(r)
    BY <1>2, <1>4, <2>2 DEF Admin, ReadAdmin
  <2> QED
    BY <1>2, <2>1, <2>2

\* A call made on a disabled account gets no session, no reset token and no new password
\* for as long as the account stays disabled, wherever an admin and its other calls
\* interleave with it, although each way in reads the account at another moment.
THEOREM DisabledGetNothing == Spec => DisabledStaysOut
<1>1. Init => AccountInv
  BY InitAccountInv
<1>2. AccountInv /\ [Next]_vars => AccountInv'
  BY StepKeepsInv
<1>3. AccountInv /\ [Next]_vars =>
          [\A r \in late : pc'[r] # pc[r] => /\ LiveTokens' \subseteq LiveTokens
                                             /\ password' = password]_vars
  <2> SUFFICES ASSUME AccountInv, Next, NEW r \in late, pc'[r] # pc[r]
               PROVE  LiveTokens' \subseteq LiveTokens /\ password' = password
    OBVIOUS
  <2>1. r \in Requests
    BY DEF AccountInv, TypeOK
  <2>2. PICK q \in Requests : Auth(q) \/ Admin(q) \/ Crash(q)
    BY DEF Next, Expire, session
  <2>3. q = r
    BY <2>1, <2>2, OneCallMoves
  <2> QED
    BY <2>2, <2>3, LateCallGetsNothing
<1> QED
  BY <1>1, <1>2, <1>3, PTL DEF Spec, DisabledStaysOut
=============================================================================
