---------------------------- MODULE SessionsProofs ----------------------------
(***************************************************************************)
(* Proofs that the invariants of Sessions hold for every set of tokens,    *)
(* every number of concurrent requests and of password changes, and that   *)
(* requests that do not overlap implement SessionRegistry.                 *)
(***************************************************************************)
EXTENDS Sessions, TLAPS

-----------------------------------------------------------------------------
(* Requests in flight name tokens that were issued; the row lock of the    *)
(* password lets one request at a time set it.                             *)

Setting(r) ==
    req[r].op \in {"change_password", "reset_password"} /\ req[r].step = "deleting"

RequestOK(r) ==
    /\ req[r].op \in {"refresh", "logout", "revoke_session", "change_password"} =>
          req[r].token \in Tokens /\ IsIssued(req[r].token)
    /\ req[r].op = "reset_password" => req[r].reset \in ResetTokens
    /\ \A t \in req[r].batch : IsIssued(t)
    /\ Setting(r) => password < MaxPassword

OneSetter == \A r, s \in Requests : Setting(r) /\ Setting(s) => r = s

TypeInv ==
    /\ TypeOK
    /\ \A r \in Requests : RequestOK(r)
    /\ live \subseteq {t \in Tokens : IsIssued(t)}
    /\ OneSetter

(* The initial state is well typed.                                        *)
LEMMA InitTypeInv == Init => TypeInv
  <1> SUFFICES ASSUME Init PROVE TypeInv
    OBVIOUS
  <1>1. Idle \in Request /\ 0 \in 0..MaxPassword
    BY ConstantsAssumption DEF Idle, Request
  <1>2. TypeOK
    BY <1>1 DEF Init, TypeOK
  <1>3. \A r \in Requests : RequestOK(r) /\ ~Setting(r)
    BY ConstantsAssumption DEF Init, RequestOK, Setting, Idle, Ops
  <1>4. QED
    BY <1>2, <1>3 DEF TypeInv, OneSetter, Init

(* A request that starts, whatever it reads.                               *)
LEMMA StartTyped ==
  ASSUME TypeInv, NEW r \in Requests, NEW request \in Request, Start(r, request),
         request.step = "read", request.batch = {},
         request.op \in {"refresh", "logout", "revoke_session", "change_password"} =>
            request.token \in Tokens /\ IsIssued(request.token),
         request.op = "reset_password" => request.reset \in ResetTokens
  PROVE  TypeInv'
  <1>1. TypeOK'
    BY DEF TypeInv, TypeOK, Start
  <1>2. \A s \in Requests : req'[s] = IF s = r THEN request ELSE req[s]
    BY DEF TypeInv, TypeOK, Start
  <1>3. \A s \in Requests : RequestOK(s)'
    BY <1>2 DEF TypeInv, Start, RequestOK, Setting, IsIssued
  <1>4. OneSetter'
    BY <1>2 DEF TypeInv, OneSetter, Setting
  <1>5. QED
    BY <1>1, <1>3, <1>4 DEF TypeInv, Start, IsIssued

(* A request ends: what it leaves is typed, it issued what it left live,   *)
(* and it set the password only while it was the one to do so.             *)
LEMMA FinishTyped ==
  ASSUME TypeInv, NEW r \in Requests, Finish(r),
         used' \subseteq Tokens, expired' \subseteq Tokens,
         password' \in 0..MaxPassword,
         resets' \in [ResetTokens -> {"absent", "open", "used"}],
         issued' \in [Tokens -> Issue \cup {NotIssued}],
         loggedOut' \in [Tokens -> {"no", "missed", "ended"}],
         \A t \in Tokens : IsIssued(t) => IsIssued(t)',
         live' \subseteq {t \in Tokens : IsIssued(t)'},
         password' = password \/ Setting(r)
  PROVE  TypeInv'
  <1>1. Idle \in Request
    BY ConstantsAssumption DEF Idle, Request
  <1>2. \A s \in Requests : req'[s] = IF s = r THEN Idle ELSE req[s]
    BY DEF TypeInv, TypeOK, Finish
  <1>3. TypeOK'
    BY <1>1 DEF TypeInv, TypeOK, Finish
  <1>4. \A s \in Requests : Setting(s)' => Setting(s) /\ s # r
    BY <1>2 DEF Setting, Idle
  <1>5. OneSetter'
    BY <1>4 DEF TypeInv, OneSetter
  <1>6. ASSUME NEW s \in Requests
        PROVE  RequestOK(s)'
    <2>1. CASE s = r
      BY <1>2, <1>4, <2>1, ConstantsAssumption DEF RequestOK, Idle, Ops
    <2>2. CASE s # r
      <3>1. req'[s] = req[s] /\ req[s].batch \subseteq Tokens
        BY <1>2, <2>2 DEF TypeInv, TypeOK, Request
      <3>2. Setting(s)' => password' < MaxPassword
        BY <1>4, <2>2 DEF TypeInv, OneSetter, RequestOK
      <3>3. QED
        BY <3>1, <3>2 DEF TypeInv, RequestOK
    <2>3. QED
      BY <2>1, <2>2
  <1>7. QED
    BY <1>3, <1>5, <1>6 DEF TypeInv, TypeOK

(* Tokens and rows change while no request and no password does.           *)
LEMMA NoRequestTyped ==
  ASSUME TypeInv, UNCHANGED <<used, password, issued, req>>,
         loggedOut' \in [Tokens -> {"no", "missed", "ended"}],
         live' \subseteq live, expired' \subseteq Tokens,
         resets' \in [ResetTokens -> {"absent", "open", "used"}]
  PROVE  TypeInv'
  <1>1. TypeOK'
    BY DEF TypeInv, TypeOK
  <1>2. \A r \in Requests : RequestOK(r)' /\ (Setting(r)' <=> Setting(r))
    BY DEF TypeInv, RequestOK, Setting, IsIssued
  <1>3. QED
    BY <1>1, <1>2 DEF TypeInv, OneSetter, IsIssued

(* The bulk DELETE: the setter of the password takes its row lock.         *)
LEMMA BulkDeleteTyped ==
  ASSUME TypeInv, NEW r \in Requests, BulkDelete(r)
  PROVE  TypeInv'
  <1>1. live \ Kept(r) \in SUBSET Tokens
    BY DEF TypeInv, TypeOK
  <1> DEFINE deleting == [req[r] EXCEPT !.step = "deleting", !.batch = live \ Kept(r)]
  <1>2. deleting \in Request /\ req[r] \in Request
    BY <1>1 DEF TypeInv, TypeOK, Request
  <1>3. \A s \in Requests : req'[s] = IF s = r THEN deleting ELSE req[s]
    BY DEF TypeInv, TypeOK, BulkDelete
  <1>4. TypeOK'
    BY <1>2, <1>3 DEF TypeInv, TypeOK, BulkDelete
  <1>5. /\ deleting.op = req[r].op /\ deleting.token = req[r].token
        /\ deleting.reset = req[r].reset /\ deleting.batch = live \ Kept(r)
        /\ deleting.step = "deleting"
    BY <1>2 DEF Request
  <1> HIDE DEF deleting
  <1>6. \A s \in Requests : Setting(s)' => (s = r \/ Setting(s)) /\ (s = r => ~PasswordLocked)
    BY <1>3, <1>5 DEF Setting, BulkDelete
  <1>7. OneSetter'
    BY <1>6 DEF TypeInv, OneSetter, Setting, PasswordLocked
  <1>8. ASSUME NEW s \in Requests
        PROVE  RequestOK(s)'
    <2>1. CASE s = r
      <3>1. /\ req'[s].op = req[r].op /\ req'[s].token = req[r].token
            /\ req'[s].reset = req[r].reset /\ req'[s].batch \subseteq live
        BY <1>3, <1>5, <2>1
      <3>2. Setting(s)' => password < MaxPassword
        BY <3>1 DEF Setting, BulkDelete
      <3>3. QED
        BY <2>1, <3>1, <3>2 DEF TypeInv, BulkDelete, RequestOK, IsIssued
    <2>2. CASE s # r
      <3>1. req'[s] = req[s] /\ UNCHANGED <<issued, password>>
        BY <1>3, <2>2 DEF BulkDelete
      <3>2. QED
        BY <3>1 DEF TypeInv, RequestOK, Setting, IsIssued
    <2>3. QED
      BY <2>1, <2>2
  <1>9. QED
    BY <1>4, <1>7, <1>8 DEF TypeInv, BulkDelete, IsIssued

(* Its commit.                                                             *)
LEMMA BulkDeleteCommitTyped ==
  ASSUME TypeInv, NEW r \in Requests, BulkDeleteCommit(r)
  PROVE  TypeInv'
  <1>1. /\ req[r] \in Request /\ req[r].batch \subseteq Tokens
        /\ password \in 0..MaxPassword /\ MaxPassword \in Nat
        /\ issued \in [Tokens -> Issue \cup {NotIssued}]
    BY ConstantsAssumption DEF TypeInv, TypeOK, Request
  <1>2. password' \in 0..MaxPassword /\ (password' = password \/ Setting(r))
    BY <1>1 DEF TypeInv, RequestOK, BulkDeleteCommit, Setting
  <1>3. resets' \in [ResetTokens -> {"absent", "open", "used"}]
    BY DEF TypeInv, TypeOK, BulkDeleteCommit
  <1>4. /\ issued' \in [Tokens -> Issue \cup {NotIssued}]
        /\ \A t \in Tokens : issued'[t].session = issued[t].session
    <2>1. CASE req[r].op = "change_password"
      <3>1. /\ req[r].token \in Tokens /\ issued[req[r].token] \in Issue
            /\ password + 1 \in 0..MaxPassword
        BY <1>1, <2>1
        DEF TypeInv, RequestOK, IsIssued, NotIssued, Setting, BulkDeleteCommit
      <3>2. issued' = [issued EXCEPT ![req[r].token].password = password + 1]
        BY <2>1 DEF BulkDeleteCommit
      <3>3. QED
        BY <1>1, <3>1, <3>2 DEF Issue
    <2>2. CASE req[r].op # "change_password"
      BY <1>1, <2>2 DEF BulkDeleteCommit
    <2>3. QED
      BY <2>1, <2>2
  <1>5. live' \subseteq {t \in Tokens : IsIssued(t)'}
    BY <1>4 DEF TypeInv, BulkDeleteCommit, IsIssued
  <1>6. QED
    BY <1>2, <1>3, <1>4, <1>5, FinishTyped
    DEF TypeInv, TypeOK, BulkDeleteCommit, IsIssued

-----------------------------------------------------------------------------
(* Every step preserves TypeInv.                                           *)

(* The requests that only read.                                            *)
LEMMA ReadTyped ==
  ASSUME TypeInv, NEW r \in Requests,
         \/ LoginRead(r) \/ RevokeAllRead(r)
         \/ \E t \in Tokens :
               \/ RefreshRead(r, t) \/ ReplayRead(r, t) \/ StaleReplayRead(r, t)
               \/ LogoutRead(r, t) \/ RevokeSessionRead(r, t) \/ ChangePasswordRead(r, t)
         \/ \E k \in ResetTokens : ResetPasswordRead(r, k)
  PROVE  TypeInv'
  <1> DEFINE OfAccount(op, n) == [Idle EXCEPT !.op = op, !.step = "read", !.password = n]
             Anonymous(op) == [Idle EXCEPT !.op = op, !.step = "read"]
             OfToken(op, t) == [Idle EXCEPT !.op = op, !.step = "read", !.token = t]
             OfReset(op, k) == [Idle EXCEPT !.op = op, !.step = "read", !.reset = k]
  <1>1. /\ live \subseteq {t \in Tokens : IsIssued(t)}
        /\ password \in 0..MaxPassword /\ 0 \in 0..MaxPassword
    BY ConstantsAssumption DEF TypeInv, TypeOK
  <1>2. CASE LoginRead(r)
    <2>1. /\ OfAccount("login", password) \in Request
          /\ OfAccount("login", password).op = "login"
          /\ OfAccount("login", password).step = "read"
          /\ OfAccount("login", password).batch = {}
      BY <1>1 DEF Idle, Request, Ops
    <2>2. QED
      BY <1>2, <2>1, StartTyped DEF LoginRead
  <1>3. CASE RevokeAllRead(r)
    <2>1. /\ Anonymous("revoke_all") \in Request
          /\ Anonymous("revoke_all").op = "revoke_all"
          /\ Anonymous("revoke_all").step = "read"
          /\ Anonymous("revoke_all").batch = {}
      BY <1>1 DEF Idle, Request, Ops
    <2>2. QED
      BY <1>3, <2>1, StartTyped DEF RevokeAllRead
  <1>4. ASSUME NEW t \in Tokens,
               NEW op \in {"refresh", "replay", "stale_replay", "logout",
                           "revoke_session", "change_password"},
               op \in {"replay", "stale_replay"} \/ t \in live,
               Start(r, OfToken(op, t))
        PROVE  TypeInv'
    <2>1. /\ OfToken(op, t) \in Request
          /\ OfToken(op, t).op = op /\ OfToken(op, t).step = "read"
          /\ OfToken(op, t).token = t /\ OfToken(op, t).batch = {}
      BY <1>1 DEF Idle, Request, Ops
    <2>2. QED
      BY <1>1, <1>4, <2>1, StartTyped
  <1>5. ASSUME NEW k \in ResetTokens, ResetPasswordRead(r, k)
        PROVE  TypeInv'
    <2>1. /\ OfReset("reset_password", k) \in Request
          /\ OfReset("reset_password", k).op = "reset_password"
          /\ OfReset("reset_password", k).step = "read"
          /\ OfReset("reset_password", k).reset = k
          /\ OfReset("reset_password", k).batch = {}
      BY <1>1 DEF Idle, Request, Ops
    <2>2. QED
      BY <1>5, <2>1, StartTyped DEF ResetPasswordRead
  <1>6. QED
    BY <1>2, <1>3, <1>4, <1>5
    DEF RefreshRead, ReplayRead, StaleReplayRead, LogoutRead, RevokeSessionRead,
        ChangePasswordRead

(* Putting a token in the place of another one, or of none.                *)
LEMMA IssueTyped ==
  ASSUME TypeInv, NEW r \in Requests, NEW t \in Tokens,
         LoginCommit(r, t) \/ RefreshCommit(r, t)
  PROVE  TypeInv'
  <1>1. /\ issued \in [Tokens -> Issue \cup {NotIssued}]
        /\ req[r].password \in 0..MaxPassword
    BY DEF TypeInv, TypeOK, Request
  <1>2. CASE LoginCommit(r, t)
    <2>1. [session |-> t, password |-> req[r].password] \in Issue
      BY <1>1 DEF Issue
    <2>2. /\ issued' \in [Tokens -> Issue \cup {NotIssued}]
          /\ \A u \in Tokens : issued'[u].session = IF u = t THEN t ELSE issued[u].session
      BY <1>1, <1>2, <2>1 DEF LoginCommit
    <2>3. \A u \in Tokens : IsIssued(u)' <=> u = t \/ IsIssued(u)
      BY <2>2, ConstantsAssumption DEF IsIssued
    <2>4. QED
      BY <1>2, <2>2, <2>3, FinishTyped DEF LoginCommit, TypeInv, TypeOK
  <1>3. CASE RefreshCommit(r, t)
    <2>1. /\ req[r].token \in Tokens /\ IsIssued(req[r].token)
          /\ issued[req[r].token] \in Issue \cup {NotIssued}
      BY <1>1, <1>3 DEF RefreshCommit, At, TypeInv, RequestOK
    <2>2. /\ issued' \in [Tokens -> Issue \cup {NotIssued}]
          /\ \A u \in Tokens : issued'[u] = IF u = t THEN issued[req[r].token] ELSE issued[u]
      BY <1>1, <1>3, <2>1 DEF RefreshCommit
    <2>3. \A u \in Tokens : IsIssued(u)' <=> u = t \/ IsIssued(u)
      BY <2>1, <2>2 DEF IsIssued
    <2>4. QED
      BY <1>3, <2>1, <2>2, <2>3, FinishTyped
      DEF RefreshCommit, Consume, Rotate, TypeInv, TypeOK
  <1>4. QED
    BY <1>2, <1>3

(* The requests that end one session, or nothing.                          *)
LEMMA EndTyped ==
  ASSUME TypeInv, NEW r \in Requests,
         LogoutCommit(r) \/ RevokeSessionCommit(r) \/ StaleReplayAbort(r) \/ Rollback(r)
  PROVE  TypeInv'
  <1>1. /\ issued \in [Tokens -> Issue \cup {NotIssued}]
        /\ live \subseteq {t \in Tokens : IsIssued(t)}
        /\ used \subseteq Tokens
    BY DEF TypeInv, TypeOK
  <1>2. LogoutCommit(r) \/ RevokeSessionCommit(r) => req[r].token \in Tokens
    BY DEF LogoutCommit, RevokeSessionCommit, At, TypeInv, RequestOK
  <1>3. used' \subseteq Tokens
    BY <1>1, <1>2
    DEF LogoutCommit, RevokeSessionCommit, StaleReplayAbort, Rollback, Consume
  <1>4. loggedOut' \in [Tokens -> {"no", "missed", "ended"}]
    BY <1>2
    DEF LogoutCommit, RevokeSessionCommit, StaleReplayAbort, Rollback, TypeInv, TypeOK
  <1>5. /\ live' \subseteq live /\ issued' = issued /\ Finish(r)
        /\ UNCHANGED <<expired, password, resets>>
    BY DEF LogoutCommit, RevokeSessionCommit, StaleReplayAbort, Rollback
  <1>6. \A t \in Tokens : IsIssued(t)' <=> IsIssued(t)
    BY <1>5 DEF IsIssued
  <1>7. QED
    BY <1>1, <1>3, <1>4, <1>5, <1>6, FinishTyped DEF TypeInv, TypeOK

LEMMA NextTypeInv == TypeInv /\ [Next]_vars => TypeInv'
  <1> SUFFICES ASSUME TypeInv, [Next]_vars PROVE TypeInv'
    OBVIOUS
  <1>1. TypeOK
    BY DEF TypeInv
  <1>2. CASE UNCHANGED vars
    BY <1>1, <1>2, NoRequestTyped DEF vars, TypeOK
  <1>3. ASSUME NEW r \in Requests, NEW t \in Tokens, RefreshExpired(r, t)
        PROVE  TypeInv'
    BY <1>1, <1>3, NoRequestTyped DEF RefreshExpired, TypeOK
  <1>4. ASSUME NEW t \in Tokens, Expire(t)
        PROVE  TypeInv'
    BY <1>1, <1>4, NoRequestTyped DEF Expire, TypeOK
  <1>5. ASSUME NEW k \in ResetTokens, RequestReset(k)
        PROVE  TypeInv'
    BY <1>1, <1>5, NoRequestTyped DEF RequestReset, TypeOK
  <1>6. ASSUME NEW r \in Requests,
               \/ LogoutCommit(r) \/ RevokeSessionCommit(r) \/ StaleReplayAbort(r)
               \/ Rollback(r)
        PROVE  TypeInv'
    BY <1>6, EndTyped
  <1>7. ASSUME NEW r \in Requests, NEW t \in Tokens, LoginCommit(r, t) \/ RefreshCommit(r, t)
        PROVE  TypeInv'
    BY <1>7, IssueTyped
  <1>8. ASSUME NEW r \in Requests, NEW t \in Tokens, LogoutMissed(r, t)
        PROVE  TypeInv'
    BY <1>1, <1>8, NoRequestTyped DEF LogoutMissed, TypeOK
  <1>9. QED
    BY <1>2, <1>3, <1>4, <1>5, <1>6, <1>7, <1>8, BulkDeleteTyped, BulkDeleteCommitTyped, ReadTyped
    DEF Next

(* Every reachable state is well typed; that the password counter stays in *)
(* its bound rests on the row lock under which the password is set.        *)
THEOREM TypeCorrect == Spec => []TypeOK
  <1>1. TypeInv => TypeOK
    BY DEF TypeInv
  <1>2. QED
    BY <1>1, InitTypeInv, NextTypeInv, PTL DEF Spec

-----------------------------------------------------------------------------
(* One thread of tokens per session.  "At most one live token" is not      *)
(* inductive: a revoked token that a refresh still holds is not live, yet  *)
(* can be rotated.  What every step keeps is that a session has at most    *)
(* one token that was never consumed, and a session a log-out ended, none. *)

Issued == {t \in Tokens : IsIssued(t)}

(* A session is named by its first token.                                  *)
NamedByFirst == \A t \in Issued : SessionOf(t) \in Issued

OneUnused ==
    \A s, t \in Issued \ used : SessionOf(s) = SessionOf(t) => s = t

LoggedOutUsedUp ==
    /\ \A t \in Tokens : loggedOut[t] # "no" => t \in Issued \ live
    /\ \A s \in Tokens : loggedOut[s] = "ended" =>
          \A t \in Issued : SessionOf(t) = SessionOf(s) => t \in used

ThreadInv ==
    /\ TypeInv
    /\ used \subseteq Issued
    /\ UsedNeverLive
    /\ NamedByFirst
    /\ OneUnused
    /\ LoggedOutUsedUp

(* The steps that issue no token and consume none.                         *)
LEMMA NoTokenThread ==
  ASSUME ThreadInv, TypeInv', live' \subseteq live, used' = used,
         \A t \in Tokens : issued'[t].session = issued[t].session,
         loggedOut' = loggedOut
  PROVE  ThreadInv'
  <1>1. Issued' = Issued /\ \A t \in Tokens : SessionOf(t)' = SessionOf(t)
    BY DEF Issued, IsIssued, SessionOf
  <1>2. QED
    BY <1>1
    DEF ThreadInv, UsedNeverLive, NamedByFirst, OneUnused, LoggedOutUsedUp, Issued

LEMMA LoginThread ==
  ASSUME ThreadInv, TypeInv', NEW r \in Requests, NEW t \in Tokens, LoginCommit(r, t)
  PROVE  ThreadInv'
  <1>1. issued' = [issued EXCEPT ![t] = [session |-> t, password |-> req[r].password]]
        /\ issued \in [Tokens -> Issue \cup {NotIssued}]
    BY DEF LoginCommit, ThreadInv, TypeInv, TypeOK
  <1>2. /\ t \notin Issued /\ Issued' = Issued \cup {t}
        /\ SessionOf(t)' = t
        /\ \A u \in Issued : u # t /\ SessionOf(u)' = SessionOf(u)
    BY <1>1, ConstantsAssumption DEF LoginCommit, Issued, IsIssued, SessionOf
  <1>3. used' = used /\ live' = live \cup {t} /\ loggedOut' = loggedOut
    BY DEF LoginCommit
  <1>4. QED
    BY <1>2, <1>3 DEF ThreadInv, UsedNeverLive, NamedByFirst, OneUnused, LoggedOutUsedUp

LEMMA RefreshThread ==
  ASSUME ThreadInv, TypeInv', NEW r \in Requests, NEW t \in Tokens, RefreshCommit(r, t)
  PROVE  ThreadInv'
  <1> DEFINE old == req[r].token
  <1>1. /\ issued' = [issued EXCEPT ![t] = issued[old]]
        /\ issued \in [Tokens -> Issue \cup {NotIssued}]
        /\ old \in Issued /\ t \notin Issued
    BY DEF RefreshCommit, At, ThreadInv, TypeInv, TypeOK, RequestOK, Issued
  <1>2. /\ Issued' = Issued \cup {t}
        /\ SessionOf(t)' = SessionOf(old)
        /\ \A u \in Issued : u # t /\ SessionOf(u)' = SessionOf(u)
    BY <1>1 DEF Issued, IsIssued, SessionOf
  <1>3. /\ old \notin used /\ used' = used \cup {old}
        /\ live' = (live \ {old}) \cup {t} /\ loggedOut' = loggedOut
    BY DEF RefreshCommit, Consume, Rotate
  <1> HIDE DEF old
  <1>4. \A s \in Tokens : loggedOut[s] = "ended" => SessionOf(s) # SessionOf(old)
    BY <1>1, <1>3 DEF ThreadInv, LoggedOutUsedUp
  <1>5. \A u \in Issued \ used' : SessionOf(u) # SessionOf(old)
    BY <1>1, <1>3 DEF ThreadInv, OneUnused
  <1>6. /\ NamedByFirst' /\ OneUnused'
    BY <1>1, <1>2, <1>3, <1>5 DEF ThreadInv, NamedByFirst, OneUnused
  <1>7. /\ used' \subseteq Issued' /\ UsedNeverLive'
    BY <1>1, <1>2, <1>3 DEF ThreadInv, UsedNeverLive
  <1>8. LoggedOutUsedUp'
    BY <1>1, <1>2, <1>3, <1>4 DEF ThreadInv, LoggedOutUsedUp
  <1>9. QED
    BY <1>6, <1>7, <1>8 DEF ThreadInv

LEMMA LogoutThread ==
  ASSUME ThreadInv, TypeInv', NEW r \in Requests, LogoutCommit(r)
  PROVE  ThreadInv'
  <1> DEFINE t == req[r].token
  <1>1. /\ t \in Issued /\ issued' = issued
        /\ t \notin used /\ used' = used \cup {t} /\ live' = live \ {t}
    BY DEF LogoutCommit, At, Consume, ThreadInv, TypeInv, RequestOK, Issued
  <1>2. \A u \in Tokens : loggedOut'[u] = IF u = t THEN "ended" ELSE loggedOut[u]
    BY DEF LogoutCommit, ThreadInv, TypeInv, TypeOK
  <1> HIDE DEF t
  <1>3. Issued' = Issued /\ \A u \in Tokens : SessionOf(u)' = SessionOf(u)
    BY <1>1 DEF Issued, IsIssued, SessionOf
  <1>4. \A u \in Issued : SessionOf(u) = SessionOf(t) => u \in used'
    BY <1>1 DEF ThreadInv, OneUnused
  <1>5. Issued \subseteq Tokens
    BY DEF Issued
  <1>6. LoggedOutUsedUp'
    BY <1>1, <1>2, <1>3, <1>4, <1>5 DEF ThreadInv, NamedByFirst, LoggedOutUsedUp
  <1>7. UsedNeverLive' /\ NamedByFirst' /\ OneUnused' /\ used' \subseteq Issued'
    BY <1>1, <1>3, <1>5 DEF ThreadInv, UsedNeverLive, NamedByFirst, OneUnused
  <1>8. QED
    BY <1>6, <1>7 DEF ThreadInv

(* A log-out that misses its row ends nothing and revives nothing.         *)
LEMMA MissedThread ==
  ASSUME ThreadInv, TypeInv', NEW r \in Requests, NEW t \in Tokens, LogoutMissed(r, t)
  PROVE  ThreadInv'
  <1>1. /\ t \in Issued \ live
        /\ UNCHANGED <<live, used, issued>>
    BY DEF LogoutMissed, Issued
  <1>2. \A u \in Tokens : /\ loggedOut'[u] # "no" => loggedOut[u] # "no" \/ u = t
                          /\ loggedOut'[u] = "ended" => loggedOut[u] = "ended"
    BY DEF LogoutMissed, ThreadInv, TypeInv, TypeOK
  <1>3. Issued' = Issued /\ \A u : SessionOf(u)' = SessionOf(u)
    BY <1>1 DEF Issued, IsIssued, SessionOf
  <1>4. ASSUME NEW u \in Tokens, (loggedOut[u] # "no")'
        PROVE  (u \in Issued \ live)'
    BY <1>1, <1>2, <1>3, <1>4 DEF ThreadInv, LoggedOutUsedUp
  <1>5. ASSUME NEW s \in Tokens, (loggedOut[s] = "ended")',
               NEW u \in Issued, SessionOf(u) = SessionOf(s)
        PROVE  u \in used
    BY <1>2, <1>5 DEF ThreadInv, LoggedOutUsedUp
  <1>6. LoggedOutUsedUp'
    BY <1>1, <1>3, <1>4, <1>5 DEF LoggedOutUsedUp
  <1>7. QED
    BY <1>1, <1>3, <1>6 DEF ThreadInv, UsedNeverLive, NamedByFirst, OneUnused

LEMMA NextThreadInv == ThreadInv /\ [Next]_vars => ThreadInv'
  <1> SUFFICES ASSUME ThreadInv, [Next]_vars PROVE ThreadInv'
    OBVIOUS
  <1>1. TypeInv'
        /\ issued \in [Tokens -> Issue \cup {NotIssued}]
    BY NextTypeInv DEF ThreadInv, TypeInv, TypeOK
  <1>2. CASE UNCHANGED <<live, used, issued, loggedOut>>
    BY <1>1, <1>2, NoTokenThread
  <1>3. ASSUME NEW r \in Requests, NEW t \in Tokens, RefreshExpired(r, t)
        PROVE  ThreadInv'
    BY <1>1, <1>3, NoTokenThread DEF RefreshExpired
  <1>4. ASSUME NEW r \in Requests, RevokeSessionCommit(r)
        PROVE  ThreadInv'
    BY <1>1, <1>4, NoTokenThread DEF RevokeSessionCommit
  <1>5. ASSUME NEW r \in Requests, BulkDeleteCommit(r)
        PROVE  ThreadInv'
    <2>1. loggedOut' = loggedOut
      BY <1>1, <1>5 DEF BulkDeleteCommit
    <2>2. \A t \in Tokens : issued'[t].session = issued[t].session
      <3>1. CASE req[r].op = "change_password"
        <4>1. issued[req[r].token] \in Issue /\ req[r].token \in Tokens
          BY <1>1, <3>1 DEF ThreadInv, TypeInv, RequestOK, IsIssued, NotIssued
        <4>2. issued' = [issued EXCEPT ![req[r].token].password = password + 1]
          BY <1>5, <3>1 DEF BulkDeleteCommit
        <4>3. QED
          BY <1>1, <4>1, <4>2 DEF Issue
      <3>2. CASE req[r].op # "change_password"
        BY <1>5, <3>2 DEF BulkDeleteCommit
      <3>3. QED
        BY <3>1, <3>2
    <2>3. live' \subseteq live /\ used' = used
      BY <1>5 DEF BulkDeleteCommit
    <2>4. QED
      BY <1>1, <2>1, <2>2, <2>3, NoTokenThread
  <1>6. ASSUME NEW r \in Requests, NEW t \in Tokens, LoginCommit(r, t)
        PROVE  ThreadInv'
    BY <1>1, <1>6, LoginThread
  <1>7. ASSUME NEW r \in Requests, NEW t \in Tokens, RefreshCommit(r, t)
        PROVE  ThreadInv'
    BY <1>1, <1>7, RefreshThread
  <1>8. ASSUME NEW r \in Requests, LogoutCommit(r)
        PROVE  ThreadInv'
    BY <1>1, <1>8, LogoutThread
  <1>9. CASE \/ UNCHANGED vars
             \/ \E r \in Requests :
                   \/ LoginRead(r) \/ RevokeAllRead(r) \/ StaleReplayAbort(r)
                   \/ BulkDelete(r) \/ Rollback(r)
                   \/ \E t \in Tokens :
                         \/ RefreshRead(r, t) \/ ReplayRead(r, t) \/ StaleReplayRead(r, t)
                         \/ LogoutRead(r, t) \/ RevokeSessionRead(r, t)
                         \/ ChangePasswordRead(r, t)
                   \/ \E k \in ResetTokens : ResetPasswordRead(r, k)
             \/ \E t \in Tokens : Expire(t)
             \/ \E k \in ResetTokens : RequestReset(k)
    <2>1. CASE UNCHANGED vars
      BY <1>2, <2>1 DEF vars
    <2>2. ASSUME NEW r \in Requests,
                 \/ LoginRead(r) \/ RevokeAllRead(r)
                 \/ \E t \in Tokens :
                       \/ RefreshRead(r, t) \/ ReplayRead(r, t) \/ StaleReplayRead(r, t)
                       \/ LogoutRead(r, t) \/ RevokeSessionRead(r, t)
                       \/ ChangePasswordRead(r, t)
                 \/ \E k \in ResetTokens : ResetPasswordRead(r, k)
          PROVE  UNCHANGED <<live, used, issued, loggedOut>>
      <3>1. \E request : Start(r, request)
        BY <2>2
        DEF LoginRead, RevokeAllRead, RefreshRead, ReplayRead, StaleReplayRead, LogoutRead,
            RevokeSessionRead, ChangePasswordRead, ResetPasswordRead
      <3>2. QED
        BY <3>1 DEF Start
    <2>3. ASSUME NEW r \in Requests,
                 StaleReplayAbort(r) \/ BulkDelete(r) \/ Rollback(r)
          PROVE  UNCHANGED <<live, used, issued, loggedOut>>
      BY <2>3 DEF StaleReplayAbort, BulkDelete, Rollback
    <2>4. CASE \/ \E t \in Tokens : Expire(t)
               \/ \E k \in ResetTokens : RequestReset(k)
      BY <1>2, <2>4 DEF Expire, RequestReset
    <2>5. QED
      BY <1>2, <1>9, <2>1, <2>2, <2>3, <2>4
  <1>10. ASSUME NEW r \in Requests, NEW t \in Tokens, LogoutMissed(r, t)
         PROVE  ThreadInv'
    BY <1>1, <1>10, MissedThread
  <1>11. QED
    BY <1>3, <1>4, <1>5, <1>6, <1>7, <1>8, <1>9, <1>10 DEF Next

LEMMA InitThreadInv == Init => ThreadInv
  BY InitTypeInv
  DEF Init, ThreadInv, UsedNeverLive, NamedByFirst, OneUnused, LoggedOutUsedUp, Issued,
      IsIssued, NotIssued

(* A token is never accepted for rotation and known as consumed at once.   *)
THEOREM UsedNeverLiveHolds == Spec => []UsedNeverLive
  <1>1. ThreadInv => UsedNeverLive
    BY DEF ThreadInv
  <1>2. QED
    BY <1>1, InitThreadInv, NextThreadInv, PTL DEF Spec

(* However many tabs refresh at once, a session has one live token.        *)
THEOREM OneLiveTokenHolds == Spec => []OneLiveTokenPerSession
  <1>1. ThreadInv => OneLiveTokenPerSession
    BY DEF ThreadInv, TypeInv, UsedNeverLive, OneUnused, OneLiveTokenPerSession, Issued
  <1>2. QED
    BY <1>1, InitThreadInv, NextThreadInv, PTL DEF Spec

(* A log-out that found its row ended the session for good, and one that   *)
(* did not leaves a session only where a rotation had consumed its token.  *)
THEOREM LogoutIsFinalHolds == Spec => []LogoutIsFinal
  <1>1. ThreadInv => LogoutIsFinal
    BY DEF ThreadInv, TypeInv, UsedNeverLive, OneUnused, LoggedOutUsedUp, LogoutIsFinal, Issued
  <1>2. QED
    BY <1>1, InitThreadInv, NextThreadInv, PTL DEF Spec

-----------------------------------------------------------------------------
(* One request at a time.  The token a request read stays live, and the    *)
(* rows its bulk DELETE names are all there are, until it commits, so each *)
(* commit is one step of the registry of sessions the account is promised. *)

OneRequest == \A r, s \in Requests : r = s

ReadsHold(r) ==
    /\ req[r].op \in {"refresh", "logout", "revoke_session", "change_password"} =>
          req[r].token \in live
    /\ req[r].step = "deleting" =>
          /\ req[r].op \in {"replay", "revoke_all", "change_password", "reset_password"}
          /\ req[r].batch = live \ Kept(r)

SoloInv == ThreadInv /\ \A r \in Requests : ReadsHold(r)

(* A request that starts has read a live row, if it names one.             *)
LEMMA StartReads ==
  ASSUME ThreadInv, NEW r \in Requests,
         \/ LoginRead(r) \/ RevokeAllRead(r)
         \/ \E t \in Tokens :
               \/ RefreshRead(r, t) \/ ReplayRead(r, t) \/ StaleReplayRead(r, t)
               \/ LogoutRead(r, t) \/ RevokeSessionRead(r, t) \/ ChangePasswordRead(r, t)
         \/ \E k \in ResetTokens : ResetPasswordRead(r, k)
  PROVE  ReadsHold(r)'
  <1>1. req \in [Requests -> Request]
    BY DEF ThreadInv, TypeInv, TypeOK
  <1>2. ASSUME NEW op \in {"login", "revoke_all", "reset_password"}, NEW n, NEW k, NEW t,
               Start(r, [Idle EXCEPT !.op = op, !.step = "read", !.password = n])
               \/ Start(r, [Idle EXCEPT !.op = op, !.step = "read"])
               \/ Start(r, [Idle EXCEPT !.op = op, !.step = "read", !.reset = k])
        PROVE  ReadsHold(r)'
    <2>1. req'[r].op = op /\ req'[r].step = "read"
      BY <1>1, <1>2 DEF Start, Idle
    <2>2. QED
      BY <2>1 DEF ReadsHold
  <1>3. ASSUME NEW t \in Tokens,
               NEW op \in {"refresh", "replay", "stale_replay", "logout",
                           "revoke_session", "change_password"},
               op \in {"replay", "stale_replay"} \/ t \in live,
               Start(r, [Idle EXCEPT !.op = op, !.step = "read", !.token = t])
        PROVE  ReadsHold(r)'
    <2>1. req'[r].op = op /\ req'[r].step = "read" /\ req'[r].token = t /\ live' = live
      BY <1>1, <1>3 DEF Start, Idle
    <2>2. QED
      BY <1>3, <2>1 DEF ReadsHold
  <1>4. QED
    BY <1>2, <1>3
    DEF LoginRead, RevokeAllRead, ResetPasswordRead, RefreshRead, ReplayRead,
        StaleReplayRead, LogoutRead, RevokeSessionRead, ChangePasswordRead

(* With one request at a time, what it read holds until it commits.        *)
LEMMA NextReads ==
  ASSUME OneRequest, SoloInv, [Next]_vars, NEW r \in Requests
  PROVE  ReadsHold(r)'
  <1>1. req \in [Requests -> Request] /\ ReadsHold(r) /\ ThreadInv
    BY DEF SoloInv, ThreadInv, TypeInv, TypeOK
  <1>2. ASSUME req'[r] = Idle
        PROVE  ReadsHold(r)'
    BY <1>2, ConstantsAssumption DEF ReadsHold, Idle, Ops
  <1>3. CASE UNCHANGED <<live, req>>
    BY <1>1, <1>3 DEF ReadsHold, Kept
  <1>4. ASSUME NEW s \in Requests,
               \/ LoginRead(s) \/ RevokeAllRead(s)
               \/ \E t \in Tokens :
                     \/ RefreshRead(s, t) \/ ReplayRead(s, t) \/ StaleReplayRead(s, t)
                     \/ LogoutRead(s, t) \/ RevokeSessionRead(s, t) \/ ChangePasswordRead(s, t)
               \/ \E k \in ResetTokens : ResetPasswordRead(s, k)
        PROVE  ReadsHold(r)'
    BY <1>1, <1>4, StartReads DEF OneRequest
  <1>5. ASSUME NEW s \in Requests,
               \/ LogoutCommit(s) \/ RevokeSessionCommit(s) \/ StaleReplayAbort(s)
               \/ BulkDeleteCommit(s) \/ Rollback(s)
               \/ \E t \in Tokens : LoginCommit(s, t) \/ RefreshCommit(s, t)
        PROVE  ReadsHold(r)'
    <2>1. Finish(s)
      BY <1>5 DEF LogoutCommit, RevokeSessionCommit, StaleReplayAbort, BulkDeleteCommit,
                  Rollback, LoginCommit, RefreshCommit
    <2>2. QED
      BY <1>1, <1>2, <2>1 DEF Finish, OneRequest
  <1>6. ASSUME NEW s \in Requests, NEW t \in Tokens, RefreshExpired(s, t)
        PROVE  ReadsHold(r)'
    BY <1>2, <1>6 DEF RefreshExpired, OneRequest
  <1>7. ASSUME NEW s \in Requests, BulkDelete(s)
        PROVE  ReadsHold(r)'
    <2>1. s = r
      BY DEF OneRequest
    <2> DEFINE deleting == [req[r] EXCEPT !.step = "deleting", !.batch = live \ Kept(r)]
    <2>2. req'[r] = deleting /\ live' = live
      BY <1>1, <1>7, <2>1 DEF BulkDelete
    <2>3. /\ deleting.op = req[r].op /\ deleting.token = req[r].token
          /\ deleting.batch = live \ Kept(r)
      BY <1>1 DEF Request
    <2> HIDE DEF deleting
    <2>4. Kept(r)' = Kept(r)
      BY <2>2, <2>3 DEF Kept
    <2>5. QED
      BY <1>1, <1>7, <2>1, <2>2, <2>3, <2>4 DEF ReadsHold, BulkDelete
  <1>8. ASSUME NEW t \in Tokens, Expire(t)
        PROVE  ReadsHold(r)'
    BY <1>3, <1>8 DEF Expire
  <1>9. ASSUME NEW k \in ResetTokens, RequestReset(k)
        PROVE  ReadsHold(r)'
    BY <1>3, <1>9 DEF RequestReset
  <1>10. CASE UNCHANGED vars
    BY <1>3, <1>10 DEF vars
  <1>11. ASSUME NEW s \in Requests, NEW t \in Tokens, LogoutMissed(s, t)
         PROVE  ReadsHold(r)'
    BY <1>3, <1>11 DEF LogoutMissed
  <1>12. QED
    BY <1>4, <1>5, <1>6, <1>7, <1>8, <1>9, <1>10, <1>11 DEF Next

LEMMA SoloInvariant ==
  ASSUME OneRequest
  PROVE  Spec => []SoloInv
  <1>1. Init => SoloInv
    <2>1. Init => \A r \in Requests : ReadsHold(r)
      BY ConstantsAssumption DEF Init, ReadsHold, Idle, Ops
    <2>2. QED
      BY <2>1, InitThreadInv DEF SoloInv
  <1>2. SoloInv /\ [Next]_vars => SoloInv'
    BY NextThreadInv, NextReads DEF SoloInv
  <1>3. QED
    BY <1>1, <1>2, PTL DEF Spec

-----------------------------------------------------------------------------
(* The registry, step by step.                                             *)

Open == {SessionOf(t) : t \in live}
Opened == {SessionOf(t) : t \in Issued}

Promised == Registry!Next \/ UNCHANGED <<Open, Opened, password>>

(* The registry's actions in terms of the sessions of the live tokens.     *)
LEMMA RegistrySteps ==
  /\ \A s : Registry!LogIn(s) <=> /\ s \notin Opened /\ Open' = Open \cup {s}
                                  /\ Opened' = Opened \cup {s} /\ password' = password
  /\ \A s : Registry!End(s) <=> /\ Open' = Open \ {s}
                                /\ Opened' = Opened /\ password' = password
  /\ Registry!EndAll <=> Open' = {} /\ Opened' = Opened /\ password' = password
  /\ \A s : Registry!ChangePassword(s) <=> /\ s \in Open /\ Open' = {s}
                                           /\ Opened' = Opened /\ password' = password + 1
  /\ Registry!ResetPassword <=> /\ Open' = {} /\ Opened' = Opened
                                /\ password' = password + 1
  BY DEF Registry!LogIn, Registry!End, Registry!EndAll, Registry!ChangePassword,
         Registry!ResetPassword, Open, Opened, Issued

(* A token alone carries its session: with the token the session ends.     *)
LEMMA EndOfToken ==
  ASSUME ThreadInv, NEW t \in live, live' = live \ {t}, issued' = issued, password' = password
  PROVE  Registry!Next
  <1>1. SessionOf(t) \in Tokens
    BY DEF ThreadInv, TypeInv, NamedByFirst, Issued
  <1>2. \A u \in live : SessionOf(u) = SessionOf(t) => u = t
    BY DEF ThreadInv, TypeInv, UsedNeverLive, OneUnused, Issued
  <1>3. \A u : SessionOf(u)' = SessionOf(u) /\ (IsIssued(u)' <=> IsIssued(u))
    BY DEF SessionOf, IsIssued
  <1>4. Open' = Open \ {SessionOf(t)} /\ Opened' = Opened
    BY <1>2, <1>3 DEF Open, Opened, Issued
  <1>5. Registry!End(SessionOf(t))
    BY <1>4, RegistrySteps
  <1>6. QED
    BY <1>1, <1>5 DEF Registry!Next

LEMMA LoginPromised ==
  ASSUME SoloInv, NEW r \in Requests, NEW t \in Tokens, LoginCommit(r, t)
  PROVE  Promised
  <1>1. /\ issued \in [Tokens -> Issue \cup {NotIssued}]
        /\ issued' = [issued EXCEPT ![t] = [session |-> t, password |-> req[r].password]]
        /\ live' = live \cup {t} /\ password' = password /\ live \subseteq Issued
    BY DEF LoginCommit, SoloInv, ThreadInv, TypeInv, TypeOK, Issued
  <1>2. /\ t \notin Issued /\ Issued' = Issued \cup {t} /\ SessionOf(t)' = t
        /\ \A u \in Issued : SessionOf(u)' = SessionOf(u)
    BY <1>1, ConstantsAssumption DEF LoginCommit, Issued, IsIssued, SessionOf
  <1>3. t \notin Opened
    BY <1>2 DEF SoloInv, ThreadInv, NamedByFirst, Opened
  <1>4. Open' = Open \cup {t} /\ Opened' = Opened \cup {t}
    BY <1>1, <1>2 DEF Open, Opened
  <1>5. Registry!LogIn(t)
    BY <1>1, <1>3, <1>4, RegistrySteps
  <1>6. QED
    BY <1>5 DEF Registry!Next, Promised

LEMMA RefreshPromised ==
  ASSUME SoloInv, NEW r \in Requests, NEW t \in Tokens, RefreshCommit(r, t)
  PROVE  Promised
  <1> DEFINE old == req[r].token
  <1>1. /\ issued \in [Tokens -> Issue \cup {NotIssued}]
        /\ issued' = [issued EXCEPT ![t] = issued[old]]
        /\ live' = (live \ {old}) \cup {t} /\ password' = password
        /\ old \in live /\ live \subseteq Issued
    BY DEF RefreshCommit, Rotate, At, ReadsHold, SoloInv, ThreadInv, TypeInv, TypeOK, Issued
  <1> HIDE DEF old
  <1>2. /\ t \notin Issued /\ Issued' = Issued \cup {t} /\ SessionOf(t)' = SessionOf(old)
        /\ \A u \in Issued : SessionOf(u)' = SessionOf(u)
    BY <1>1 DEF RefreshCommit, Issued, IsIssued, SessionOf
  <1>3. Open' = Open /\ Opened' = Opened
    BY <1>1, <1>2 DEF Open, Opened
  <1>4. QED
    BY <1>1, <1>3 DEF Promised

(* A bulk DELETE ends every session, but the caller's on a password change.*)
LEMMA BulkPromised ==
  ASSUME SoloInv, NEW r \in Requests, BulkDeleteCommit(r)
  PROVE  Promised
  <1>1. /\ issued \in [Tokens -> Issue \cup {NotIssued}]
        /\ live' = live \ (live \ Kept(r)) /\ live \subseteq Issued
        /\ req[r].op \in {"replay", "revoke_all", "change_password", "reset_password"}
        /\ req[r].op = "change_password" => req[r].token \in live
    BY DEF BulkDeleteCommit, Batch, ReadsHold, SoloInv, ThreadInv, TypeInv, TypeOK, Issued
  <1>2. \A u \in Tokens : issued'[u].session = issued[u].session
    <2>1. CASE req[r].op = "change_password"
      <3>1. issued[req[r].token] \in Issue /\ req[r].token \in Tokens
        BY <1>1, <2>1 DEF Issued, IsIssued, NotIssued
      <3>2. issued' = [issued EXCEPT ![req[r].token].password = password + 1]
        BY <2>1 DEF BulkDeleteCommit
      <3>3. QED
        BY <1>1, <3>1, <3>2 DEF Issue
    <2>2. CASE req[r].op # "change_password"
      BY <2>2 DEF BulkDeleteCommit
    <2>3. QED
      BY <2>1, <2>2
  <1>3. /\ Opened' = Opened /\ \A u \in Tokens : SessionOf(u)' = SessionOf(u)
    BY <1>2 DEF Opened, Issued, IsIssued, SessionOf
  <1>4. CASE req[r].op = "change_password"
    <2> DEFINE t == req[r].token
    <2>1. t \in Tokens /\ t \in live /\ live' = {t} /\ password' = password + 1
      BY <1>1, <1>4 DEF Kept, BulkDeleteCommit, Issued
    <2> HIDE DEF t
    <2>2. SessionOf(t) \in Open /\ Open' = {SessionOf(t)}
      BY <1>3, <2>1 DEF Open
    <2>3. SessionOf(t) \in Tokens
      BY <1>1, <2>1 DEF SoloInv, ThreadInv, NamedByFirst, Issued
    <2>4. Registry!ChangePassword(SessionOf(t))
      BY <1>3, <2>1, <2>2, RegistrySteps
    <2>5. QED
      BY <2>3, <2>4 DEF Registry!Next, Promised
  <1>5. CASE req[r].op # "change_password"
    <2>1. Open' = {}
      BY <1>1, <1>5 DEF Kept, Open
    <2>2. Registry!EndAll \/ Registry!ResetPassword
      <3>1. password' = password \/ password' = password + 1
        BY DEF BulkDeleteCommit
      <3>2. QED
        BY <1>3, <2>1, <3>1, RegistrySteps
    <2>3. QED
      BY <2>2 DEF Registry!Next, Promised
  <1>6. QED
    BY <1>4, <1>5

LEMMA NextPromised ==
  ASSUME SoloInv, [Next]_vars
  PROVE  Promised
  <1>1. ThreadInv /\ \A r \in Requests : ReadsHold(r)
    BY DEF SoloInv
  <1>2. CASE UNCHANGED <<live, issued, password>>
    <2>1. UNCHANGED <<Open, Opened>>
      BY <1>2 DEF Open, Opened, Issued, SessionOf, IsIssued
    <2>2. QED
      BY <1>2, <2>1 DEF Promised
  <1>3. ASSUME NEW r \in Requests,
               \/ LoginRead(r) \/ RevokeAllRead(r)
               \/ StaleReplayAbort(r) \/ BulkDelete(r) \/ Rollback(r)
               \/ \E t \in Tokens :
                     \/ RefreshRead(r, t) \/ ReplayRead(r, t) \/ StaleReplayRead(r, t)
                     \/ LogoutRead(r, t) \/ RevokeSessionRead(r, t) \/ ChangePasswordRead(r, t)
               \/ \E k \in ResetTokens : ResetPasswordRead(r, k)
        PROVE  Promised
    BY <1>2, <1>3
    DEF LoginRead, RevokeAllRead, ResetPasswordRead, RefreshRead, ReplayRead,
        StaleReplayRead, LogoutRead, RevokeSessionRead, ChangePasswordRead, Start,
        StaleReplayAbort, BulkDelete, Rollback
  <1>4. ASSUME NEW r \in Requests, NEW t \in Tokens, RefreshExpired(r, t)
        PROVE  Promised
    BY <1>1, <1>4, EndOfToken DEF RefreshExpired, Promised
  <1>5. ASSUME NEW r \in Requests, LogoutCommit(r) \/ RevokeSessionCommit(r)
        PROVE  Promised
    <2>1. req[r].token \in live
      BY <1>1, <1>5 DEF LogoutCommit, RevokeSessionCommit, At, ReadsHold
    <2>2. live' = live \ {req[r].token} /\ UNCHANGED <<issued, password>>
      BY <1>5 DEF LogoutCommit, RevokeSessionCommit
    <2>3. QED
      BY <1>1, <2>1, <2>2, EndOfToken DEF Promised
  <1>6. CASE \/ \E t \in Tokens : Expire(t)
             \/ \E k \in ResetTokens : RequestReset(k)
             \/ UNCHANGED vars
    BY <1>2, <1>6 DEF Expire, RequestReset, vars
  <1>7. ASSUME NEW r \in Requests, NEW t \in Tokens, LogoutMissed(r, t)
        PROVE  Promised
    BY <1>2, <1>7 DEF LogoutMissed
  <1>8. QED
    BY <1>3, <1>4, <1>5, <1>6, <1>7, LoginPromised, RefreshPromised, BulkPromised DEF Next

(* With one request at a time rotation neither opens nor ends a session, a *)
(* reset ends all and a password change all but the caller's: the handlers *)
(* implement the registry of sessions the account's owner is promised.     *)
THEOREM SessionsPromised ==
  ASSUME OneRequest
  PROVE  Spec => PromisedSessions
  <1>1. Init => Registry!Init
    BY ConstantsAssumption DEF Init, Registry!Init, IsIssued, NotIssued, SessionOf
  <1>2. SoloInv /\ [Next]_vars => [Registry!Next]_<<{SessionOf(t) : t \in live},
                        {SessionOf(t) : t \in {u \in Tokens : IsIssued(u)}}, password>>
    BY NextPromised DEF Promised, Open, Opened, Issued
  <1>3. QED
    BY <1>1, <1>2, SoloInvariant, PTL DEF Spec, PromisedSessions, Registry!Spec

=============================================================================
