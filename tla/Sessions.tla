------------------------------- MODULE Sessions -------------------------------
(***************************************************************************)
(* The refresh-token sessions of one account: log-in, rotation with replay *)
(* detection, log-out, revocation, password change and password reset,     *)
(* each over its own PostgreSQL transaction at READ COMMITTED.             *)
(*                                                                         *)
(* A request first reads what it validates and commits later.  A DELETE of *)
(* all the account's rows removes the rows of its own snapshot: a row that *)
(* another transaction commits afterwards escapes it.  A DELETE that finds *)
(* its row gone is not an error.  Access tokens carry the id of their      *)
(* refresh row and are refused when that row is missing.                   *)
(***************************************************************************)
EXTENDS Naturals

CONSTANTS
    Tokens,        \* refresh tokens: a bound on the rows ever inserted
    ResetTokens,   \* password-reset tokens mailed to the account
    Requests,      \* requests that can be in flight together
    MaxPassword,   \* bound on the number of times the password is set
    None           \* the null value

Ops == {"login", "refresh", "logout", "replay", "stale_replay", "revoke_session",
        "revoke_all", "change_password", "reset_password"}

ASSUME ConstantsAssumption ==
    /\ MaxPassword \in Nat
    /\ None \notin Tokens \cup ResetTokens \cup Ops

VARIABLES
    live,      \* rows of refreshtoken
    used,      \* hashes in usedrefreshtoken
    expired,   \* tokens whose expires_at has passed
    password,  \* number of times the password has been set
    resets,    \* status of each password-reset token
    req,       \* the requests in flight
    issued,    \* of each token ever committed: its session, the password it rests on
    loggedOut  \* of each token: whether a log-out that presented it was answered

(* issued and loggedOut are history: no guard of the code reads them, but  *)
(* for the freshness of a new token.  A session is named by its first one. *)
(* A log-out "ended" when it found the row of its token, and else "missed".*)
vars == <<live, used, expired, password, resets, req, issued, loggedOut>>

-----------------------------------------------------------------------------
Request ==
    [op : Ops \cup {None}, step : {"idle", "read", "deleting"},
     token : Tokens \cup {None}, reset : ResetTokens \cup {None},
     password : 0..MaxPassword, batch : SUBSET Tokens]

Idle == [op |-> None, step |-> "idle", token |-> None, reset |-> None,
         password |-> 0, batch |-> {}]

Issue == [session : Tokens, password : 0..MaxPassword]
NotIssued == [session |-> None, password |-> 0]

IsIssued(t) == issued[t].session # None
SessionOf(t) == issued[t].session

TypeOK ==
    /\ live \subseteq Tokens
    /\ used \subseteq Tokens
    /\ expired \subseteq Tokens
    /\ password \in 0..MaxPassword
    /\ resets \in [ResetTokens -> {"absent", "open", "used"}]
    /\ req \in [Requests -> Request]
    /\ issued \in [Tokens -> Issue \cup {NotIssued}]
    /\ loggedOut \in [Tokens -> {"no", "missed", "ended"}]

Init ==
    /\ live = {}
    /\ used = {}
    /\ expired = {}
    /\ password = 0
    /\ resets = [k \in ResetTokens |-> "absent"]
    /\ req = [r \in Requests |-> Idle]
    /\ issued = [t \in Tokens |-> NotIssued]
    /\ loggedOut = [t \in Tokens |-> "no"]

-----------------------------------------------------------------------------
(* Steps of a request.                                                     *)

Start(r, request) ==
    /\ req[r] = Idle
    /\ req' = [req EXCEPT ![r] = request]
    /\ UNCHANGED <<live, used, expired, password, resets, issued, loggedOut>>

At(r, op, step) == req[r].op = op /\ req[r].step = step

Finish(r) == req' = [req EXCEPT ![r] = Idle]

(* The session row an access token names must exist: get_current_user.     *)
LoggedIn == live # {}

(* Mutant: the hash column of usedrefreshtoken has no unique constraint.   *)
ConsumeAgain(t) == used' = used \cup {t}

(* INSERT INTO usedrefreshtoken, whose hash column is unique.              *)
Consume(t) == t \notin used /\ used' = used \cup {t}

(* Mutant: a rotation keeps the consumed row.                              *)
AddToken(old, new) == live' = live \cup {new}

(* The consumed row goes and the new one comes in one transaction.         *)
Rotate(old, new) == live' = (live \ {old}) \cup {new}

(* Mutant: the bulk DELETE runs before the new password is flushed.        *)
NotLocked == FALSE

(* The row lock the UPDATE of the password holds until COMMIT: setting the *)
(* password is flushed before the bulk DELETE that follows it.             *)
PasswordLocked ==
    \E r \in Requests : /\ req[r].op \in {"change_password", "reset_password"}
                        /\ req[r].step = "deleting"

-----------------------------------------------------------------------------
(* Log-in: authenticate_user, then create_user_tokens in a transaction of  *)
(* its own.                                                                *)

LoginRead(r) ==
    Start(r, [Idle EXCEPT !.op = "login", !.step = "read", !.password = password])

LoginCommit(r, t) ==
    /\ At(r, "login", "read")
    /\ ~IsIssued(t)
    /\ live' = live \cup {t}
    /\ issued' = [issued EXCEPT ![t] = [session |-> t, password |-> req[r].password]]
    /\ Finish(r)
    /\ UNCHANGED <<used, expired, password, resets, loggedOut>>

-----------------------------------------------------------------------------
(* Rotation: refresh_user_tokens.                                          *)

RefreshRead(r, t) ==
    /\ t \notin used
    /\ t \in live \ expired
    /\ Start(r, [Idle EXCEPT !.op = "refresh", !.step = "read", !.token = t])

RefreshCommit(r, t) ==
    LET old == req[r].token IN
    /\ At(r, "refresh", "read")
    /\ ~IsIssued(t)
    /\ Consume(old)
    /\ Rotate(old, t)
    /\ issued' = [issued EXCEPT ![t] = issued[old]]
    /\ Finish(r)
    /\ UNCHANGED <<expired, password, resets, loggedOut>>

(* A request that finds an expired row deletes it in a transaction of its  *)
(* own and answers 401.                                                    *)
RefreshExpired(r, t) ==
    /\ req[r] = Idle
    /\ t \in live \cap expired
    /\ live' = live \ {t}
    /\ UNCHANGED <<used, expired, password, resets, req, issued, loggedOut>>

(* A consumed token is presented again before its expiry.                  *)
ReplayRead(r, t) ==
    /\ t \in used \ expired
    /\ Start(r, [Idle EXCEPT !.op = "replay", !.step = "read", !.token = t])

(* ... or after it: the row is deleted in the request's transaction.       *)
StaleReplayRead(r, t) ==
    /\ t \in used \cap expired
    /\ Start(r, [Idle EXCEPT !.op = "stale_replay", !.step = "read", !.token = t])

(* No refreshtoken row carries that hash, so the request raises and its    *)
(* transaction, the deletion included, is rolled back.                     *)
StaleReplayAbort(r) ==
    /\ At(r, "stale_replay", "read")
    /\ Finish(r)
    /\ UNCHANGED <<live, used, expired, password, resets, issued, loggedOut>>

-----------------------------------------------------------------------------
(* Log-out and revocation.                                                 *)

LogoutRead(r, t) ==
    /\ t \in live
    /\ Start(r, [Idle EXCEPT !.op = "logout", !.step = "read", !.token = t])

LogoutCommit(r) ==
    LET t == req[r].token IN
    /\ At(r, "logout", "read")
    /\ Consume(t)
    /\ live' = live \ {t}
    /\ loggedOut' = [loggedOut EXCEPT ![t] = "ended"]
    /\ Finish(r)
    /\ UNCHANGED <<expired, password, resets, issued>>

(* No row carries the token, which a refresh has rotated or a revocation   *)
(* deleted: the request changes nothing and is answered like any other.    *)
LogoutMissed(r, t) ==
    /\ req[r] = Idle
    /\ IsIssued(t) /\ t \notin live
    /\ loggedOut' = [loggedOut EXCEPT ![t] = IF @ = "no" THEN "missed" ELSE @]
    /\ UNCHANGED <<live, used, expired, password, resets, req, issued>>

RevokeSessionRead(r, t) ==
    /\ t \in live
    /\ Start(r, [Idle EXCEPT !.op = "revoke_session", !.step = "read", !.token = t])

RevokeSessionCommit(r) ==
    LET t == req[r].token IN
    /\ At(r, "revoke_session", "read")
    /\ live' = live \ {t}
    /\ Finish(r)
    /\ UNCHANGED <<used, expired, password, resets, issued, loggedOut>>

RevokeAllRead(r) ==
    /\ LoggedIn
    /\ Start(r, [Idle EXCEPT !.op = "revoke_all", !.step = "read"])

-----------------------------------------------------------------------------
(* Passwords.                                                              *)

(* The current password is verified; `t` is the caller's cookie.           *)
ChangePasswordRead(r, t) ==
    /\ t \in live
    /\ password < MaxPassword
    /\ Start(r, [Idle EXCEPT !.op = "change_password", !.step = "read", !.token = t])

RequestReset(k) ==
    /\ resets[k] = "absent"
    /\ resets' = [resets EXCEPT ![k] = "open"]
    /\ UNCHANGED <<live, used, expired, password, req, issued, loggedOut>>

ResetPasswordRead(r, k) ==
    /\ resets[k] = "open"
    /\ password < MaxPassword
    /\ Start(r, [Idle EXCEPT !.op = "reset_password", !.step = "read", !.reset = k])

-----------------------------------------------------------------------------
(* DELETE of the account's rows, by the four requests that do so.          *)

(* The rows a bulk DELETE leaves: the caller's own, on a password change.  *)
Kept(r) == IF req[r].op = "change_password" THEN {req[r].token} ELSE {}

BulkDelete(r) ==
    /\ req[r].op \in {"replay", "revoke_all", "change_password", "reset_password"}
    /\ req[r].step = "read"
    /\ req[r].op \in {"change_password", "reset_password"} =>
          ~PasswordLocked /\ password < MaxPassword
    /\ req' = [req EXCEPT ![r].step = "deleting", ![r].batch = live \ Kept(r)]
    /\ UNCHANGED <<live, used, expired, password, resets, issued, loggedOut>>

(* Mutant: a reset leaves the sessions alone.                              *)
BatchUnlessReset(r) == IF req[r].op = "reset_password" THEN {} ELSE req[r].batch

Batch(r) == req[r].batch

BulkDeleteCommit(r) ==
    LET op == req[r].op
        k == req[r].reset
    IN
    /\ req[r].step = "deleting"
    /\ live' = live \ Batch(r)
    /\ password' = IF op \in {"change_password", "reset_password"}
                   THEN password + 1 ELSE password
    /\ resets' = IF op = "reset_password" THEN [resets EXCEPT ![k] = "used"] ELSE resets
    /\ issued' = IF op = "change_password"
                 THEN [issued EXCEPT ![req[r].token].password = password + 1] ELSE issued
    /\ Finish(r)
    /\ UNCHANGED <<used, expired, loggedOut>>

-----------------------------------------------------------------------------
Expire(t) ==
    /\ IsIssued(t) /\ t \notin expired
    /\ expired' = expired \cup {t}
    /\ UNCHANGED <<live, used, password, resets, req, issued, loggedOut>>

(* A violated unique constraint, any other database error, a disconnect or *)
(* a crash before COMMIT rolls the transaction back.                       *)
Rollback(r) ==
    /\ req[r].step # "idle"
    /\ Finish(r)
    /\ UNCHANGED <<live, used, expired, password, resets, issued, loggedOut>>

Next ==
    \/ \E r \in Requests :
          \/ LoginRead(r) \/ RevokeAllRead(r)
          \/ LogoutCommit(r) \/ RevokeSessionCommit(r) \/ StaleReplayAbort(r)
          \/ BulkDelete(r) \/ BulkDeleteCommit(r) \/ Rollback(r)
          \/ \E t \in Tokens :
                \/ LoginCommit(r, t)
                \/ RefreshRead(r, t) \/ RefreshCommit(r, t) \/ RefreshExpired(r, t)
                \/ ReplayRead(r, t) \/ StaleReplayRead(r, t)
                \/ LogoutRead(r, t) \/ LogoutMissed(r, t) \/ RevokeSessionRead(r, t)
                \/ ChangePasswordRead(r, t)
          \/ \E k \in ResetTokens : ResetPasswordRead(r, k)
    \/ \E t \in Tokens : Expire(t)
    \/ \E k \in ResetTokens : RequestReset(k)

Spec == Init /\ [][Next]_vars

-----------------------------------------------------------------------------
(* What holds whatever the interleaving.                                   *)

(* No token is ever accepted for rotation and known as consumed at once:   *)
(* a presented token either rotates or is a replay.                        *)
UsedNeverLive == live \cap used = {}

(* Two refreshes of one token, a log-out and a refresh, or a revocation    *)
(* and a refresh never split a session: it has at most one live token,     *)
(* however often its browser's tabs refresh at the same time.              *)
OneLiveTokenPerSession ==
    \A s, t \in live : SessionOf(s) = SessionOf(t) => s = t

(* What an answered log-out has ended.  One that found the row of its      *)
(* token ended the session for good: no refresh in flight brings it back.  *)
(* One that did not is answered with success all the same, and the session *)
(* may live on, but only when the token had been consumed by a rotation,   *)
(* in the token that rotation issued.  The token itself never comes back.  *)
LogoutIsFinal ==
    \A s \in Tokens : loggedOut[s] # "no" =>
        /\ s \notin live
        /\ loggedOut[s] = "ended" \/ s \notin used =>
              \A t \in live : SessionOf(t) # SessionOf(s)

-----------------------------------------------------------------------------
(* What holds while requests do not overlap.                               *)

(* With one request at a time the account's sessions behave as the         *)
(* abstract registry promises: rotation neither opens nor ends a session,  *)
(* a reset ends all of them and a password change all but the caller's.    *)
Registry == INSTANCE SessionRegistry WITH
    Names <- Tokens,
    sessions <- {SessionOf(t) : t \in live},
    opened <- {SessionOf(t) : t \in {u \in Tokens : IsIssued(u)}},
    password <- password
PromisedSessions == Registry!Spec

=============================================================================
