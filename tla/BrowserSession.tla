--------------------------- MODULE BrowserSession ---------------------------
(***************************************************************************)
(* The session as the browser keeps it: the access token in localStorage   *)
(* and the refresh cookie, shared by all tabs; in each tab the state of    *)
(* AuthProvider, the interceptors of services/api.ts with their queue, the *)
(* route guards and the pages whose requests go through them.              *)
(*                                                                         *)
(* The server is what these calls need of it (Sessions has the rest): a    *)
(* refresh consumes the cookie's token, and presenting a consumed one      *)
(* revokes every session.  Tokens are numbered in the order of issue; the  *)
(* access and the refresh token issued together have the same number.      *)
(***************************************************************************)
EXTENDS Naturals, FiniteSets

CONSTANTS Tabs,
          MaxIssues, MaxActs,  \* bounds: tokens; requests of pages and addresses opened
          none

ASSUME BrowserAssumption == /\ MaxIssues \in Nat \ {0} /\ MaxActs \in Nat
                            /\ none \notin Nat /\ none \notin Tabs \cup {"home", "login"}

VARIABLES
  stored, cookie,       \* the access token in localStorage, the refresh token in the cookie
  issues, valid,        \* tokens issued so far; access tokens that have not expired
  live, used,           \* refresh tokens with a session; those consumed
  tab,                  \* what each tab shows and holds
  wire,                 \* requests that are not settled
  acts                  \* requests made by pages and addresses opened so far

keys   == <<stored, cookie>>
server == <<issues, valid, live, used>>
vars   == <<keys, server, tab, wire, acts>>

Token == 1 .. MaxIssues

-----------------------------------------------------------------------------
(* Routes and guards.                                                       *)

PublicPaths  == {"home", "login"}              \* rendered for everybody
GuardedPaths == {"dashboard", "others"}  \* for any user; for another role than the user's

\* What the guards do with a path: wait, send to another one, or render it.
Verdict(t) ==
  LET s == tab[t]
  IN  CASE s.at = "home" -> "render"
        [] s.at = "login" /\ s.init -> "wait"
        [] s.at = "login" /\ ~s.init -> IF s.user THEN "dashboard" ELSE "render"
        [] s.at \in GuardedPaths /\ (s.out \/ s.init) -> "wait"
        [] s.at \in GuardedPaths /\ ~(s.out \/ s.init) ->
             IF ~s.user THEN "login" ELSE IF s.at = "others" THEN "dashboard" ELSE "render"

Renders(t) == Verdict(t) = "render"

Redirect(t) ==
  /\ Verdict(t) \notin {"wait", "render"}
  /\ tab' = [tab EXCEPT ![t].at = Verdict(t)]
  /\ UNCHANGED <<keys, server, wire, acts>>

\* Links of the header and of the sidebar.
Links(t) == {"home"} \cup (IF tab[t].user THEN {"dashboard"} ELSE {"login"})
Go(t, path) ==
  /\ Renders(t) /\ path \in Links(t) \ {tab[t].at}
  /\ tab' = [tab EXCEPT ![t].at = path]
  /\ UNCHANGED <<keys, server, wire, acts>>

-----------------------------------------------------------------------------
(* Documents.                                                               *)

Request(n, t, kind, token) ==
  [n |-> n, tab |-> t, kind |-> kind, token |-> token,
   cookie |-> IF kind \in {"call", "login"} THEN none ELSE cookie,
   again |-> FALSE, at |-> "sent", got |-> none]
Own(t) == {r \in wire : r.tab = t}
Auth(kind, t) == Request(0, t, kind, none)

\* computeInitialAuth, and the effect that probes the cookie after an expired token.
Opened(path) ==
  [at |-> path, user |-> stored \in valid, init |-> stored # none /\ stored \notin valid,
   out |-> FALSE, refreshing |-> FALSE, leaving |-> none]

\* Requests of a page that goes: the answers reach nobody, the server may still get them.
Orphans(t) == {[r EXCEPT !.tab = none] :
                 r \in {q \in Own(t) : q.kind # "call" /\ q.at = "sent"}}

Open(t, path) ==
  /\ tab' = [tab EXCEPT ![t] = Opened(path)]
  /\ stored' = IF Opened(path).init THEN none ELSE stored
  /\ wire' = (wire \ Own(t)) \cup Orphans(t)
             \cup (IF Opened(path).init THEN {Auth("probe", t)} ELSE {})
  /\ UNCHANGED <<cookie, server>>

\* window.location was set: the document is replaced.
Unload(t) == tab[t].leaving # none /\ Open(t, tab[t].leaving) /\ UNCHANGED acts

OpenByUser(t, path) ==
  /\ tab[t].leaving = none /\ acts < MaxActs
  /\ Open(t, path)
  /\ acts' = acts + 1

\* Ten seconds after the load: the guards stop waiting, the probe goes on.
SafetyTimer(t) ==
  /\ tab[t].init
  /\ tab' = [tab EXCEPT ![t].init = FALSE]
  /\ UNCHANGED <<keys, server, wire, acts>>

-----------------------------------------------------------------------------
(* Requests of the pages and the interceptors.                              *)

Call(t) ==
  /\ Renders(t) /\ tab[t].at \in GuardedPaths /\ acts < MaxActs
  /\ acts' = acts + 1
  /\ wire' = wire \cup {Request(acts + 1, t, "call", stored)}
  /\ UNCHANGED <<keys, server, tab>>

Answered(r, kinds, states) == r.tab # none /\ r.kind \in kinds /\ r.at \in states

\* A 401 after the retry goes to the caller.
CallRefused(r) ==
  /\ Answered(r, {"call"}, {"denied"}) /\ r.again
  /\ wire' = wire \ {r}
  /\ UNCHANGED <<keys, server, tab, acts>>

\* Mutant: every refused request starts a refresh of its own.
UnauthorizedAlone(r) ==
  /\ Answered(r, {"call"}, {"denied"}) /\ ~r.again
  /\ wire' = (wire \ {r}) \cup {[r EXCEPT !.at = "first", !.again = TRUE], Auth("refresh", r.tab)}
  /\ tab' = [tab EXCEPT ![r.tab].refreshing = TRUE]
  /\ UNCHANGED <<keys, server, acts>>

\* A first 401: wait for the refresh that is under way, or start one.
Unauthorized(r) ==
  /\ Answered(r, {"call"}, {"denied"}) /\ ~r.again
  /\ LET t == r.tab IN
     IF tab[t].refreshing
     THEN /\ wire' = (wire \ {r}) \cup {[r EXCEPT !.at = "queued", !.again = TRUE]}
          /\ UNCHANGED tab
     ELSE /\ wire' = (wire \ {r}) \cup {[r EXCEPT !.at = "first", !.again = TRUE],
                                        Auth("refresh", t)}
          /\ tab' = [tab EXCEPT ![t].refreshing = TRUE]
  /\ UNCHANGED <<keys, server, acts>>

Waiting(t) == {r \in Own(t) : r.at \in {"first", "queued"}}

\* Mutant: the queue is not drained, only the request that started the refresh goes out again.
RefreshedFirst(f) ==
  LET firsts == {r \in Own(f.tab) : r.at = "first"}
  IN  /\ Answered(f, {"refresh"}, {"ok"})
      /\ stored' = f.got /\ cookie' = f.got
      /\ wire' = (wire \ ({f} \cup firsts)) \cup {[r EXCEPT !.at = "sent", !.token = f.got] : r \in firsts}
      /\ tab' = [tab EXCEPT ![f.tab].refreshing = FALSE]
      /\ UNCHANGED <<server, acts>>

\* drainQueue, and the request that started the refresh: all go out again with the new token.
Refreshed(f) ==
  /\ Answered(f, {"refresh"}, {"ok"})
  /\ stored' = f.got /\ cookie' = f.got
  /\ wire' = (wire \ ({f} \cup Waiting(f.tab)))
             \cup {[r EXCEPT !.at = "sent", !.token = f.got] : r \in Waiting(f.tab)}
  /\ tab' = [tab EXCEPT ![f.tab].refreshing = FALSE]
  /\ UNCHANGED <<server, acts>>

\* Mutant: the page is not left.
RefreshFailedStaying(f) ==
  /\ Answered(f, {"refresh"}, {"denied"})
  /\ stored' = none
  /\ wire' = wire \ ({f} \cup {r \in Own(f.tab) : r.at = "first"})
  /\ tab' = [tab EXCEPT ![f.tab].refreshing = FALSE]
  /\ UNCHANGED <<cookie, server, acts>>

\* Mutant: the page is loaded again where it is.
RefreshFailedReloading(f) ==
  /\ Answered(f, {"refresh"}, {"denied"})
  /\ stored' = none
  /\ wire' = wire \ ({f} \cup {r \in Own(f.tab) : r.at = "first"})
  /\ tab' = [tab EXCEPT ![f.tab].refreshing = FALSE, ![f.tab].leaving = tab[f.tab].at]
  /\ UNCHANGED <<cookie, server, acts>>

\* clearSession: the queue is not drained, but the page is left, unless it is the log-in page.
RefreshFailed(f) ==
  /\ Answered(f, {"refresh"}, {"denied"})
  /\ stored' = none
  /\ wire' = wire \ ({f} \cup {r \in Own(f.tab) : r.at = "first"})
  /\ tab' = [tab EXCEPT ![f.tab].refreshing = FALSE,
                        ![f.tab].leaving = IF tab[f.tab].at = "login" THEN @ ELSE "login"]
  /\ UNCHANGED <<cookie, server, acts>>

-----------------------------------------------------------------------------
(* AuthProvider.                                                            *)

Probed(p) ==
  /\ Answered(p, {"probe"}, {"ok"})
  /\ cookie' = p.got /\ stored' = IF p.got \in valid THEN p.got ELSE none
  /\ tab' = [tab EXCEPT ![p.tab].user = @ \/ p.got \in valid, ![p.tab].init = FALSE]
  /\ wire' = wire \ {p}
  /\ UNCHANGED <<server, acts>>

ProbeFailed(p) ==
  /\ Answered(p, {"probe"}, {"denied"})
  /\ tab' = [tab EXCEPT ![p.tab].init = FALSE]
  /\ wire' = wire \ {p}
  /\ UNCHANGED <<keys, server, acts>>

\* LoginPage: the button is disabled while a log-in is under way.
Login(t) ==
  /\ tab[t].at = "login" /\ Renders(t) /\ issues < MaxIssues
  /\ ~ \E r \in Own(t) : r.kind = "login"
  /\ wire' = wire \cup {Auth("login", t)}
  /\ UNCHANGED <<keys, server, tab, acts>>

LoggedIn(r) ==
  /\ Answered(r, {"login"}, {"ok"}) /\ r.got \in valid
  /\ stored' = r.got /\ cookie' = r.got
  /\ tab' = [tab EXCEPT ![r.tab].user = TRUE, ![r.tab].at = "dashboard"]
  /\ wire' = wire \ {r}
  /\ UNCHANGED <<server, acts>>

\* Refused; or the token that came is already expired here, and the session is ended.
LoginFailed(r) ==
  /\ Answered(r, {"login"}, {"ok", "denied"}) /\ ~(r.at = "ok" /\ r.got \in valid)
  /\ IF r.at = "ok"
     THEN /\ cookie' = r.got /\ stored' = none
          /\ wire' = (wire \ {r}) \cup
                       {[Request(0, r.tab, "logout", r.got) EXCEPT !.cookie = r.got]}
     ELSE /\ wire' = wire \ {r} /\ UNCHANGED keys
  /\ UNCHANGED <<server, tab, acts>>

\* logout: by the sidebar's and the header's button.
Logout(t) ==
  /\ tab[t].user /\ Renders(t) /\ tab[t].at \in GuardedPaths
  /\ stored' = none
  /\ wire' = wire \cup {Request(0, t, "logout", stored)}
  /\ tab' = [tab EXCEPT ![t].user = FALSE, ![t].out = TRUE, ![t].leaving = "home"]
  /\ UNCHANGED <<cookie, server, acts>>

\* Half a second later the guards may send to the log-in page, if the document is still there.
LogoutTimer(t) ==
  /\ tab[t].out
  /\ tab' = [tab EXCEPT ![t].out = FALSE]
  /\ UNCHANGED <<keys, server, wire, acts>>

-----------------------------------------------------------------------------
(* The server and the network.                                              *)

Reply(r, at, got) == wire' = (wire \ {r}) \cup {[r EXCEPT !.at = at, !.got = got]}

Issue == /\ issues < MaxIssues
         /\ issues' = issues + 1 /\ valid' = valid \cup {issues + 1}

\* With a valid token the caller has its answer, whatever it is.
ServeCall(r) ==
  /\ r.kind = "call" /\ r.at = "sent"
  /\ IF r.token \in valid THEN wire' = wire \ {r} ELSE Reply(r, "denied", none)
  /\ UNCHANGED <<keys, server, tab, acts>>

ServeRefresh(r) ==
  /\ r.kind \in {"refresh", "probe"} /\ r.at = "sent"
  /\ \/ /\ r.cookie \in live
        /\ Issue /\ Reply(r, "ok", issues + 1)
        /\ live' = (live \ {r.cookie}) \cup {issues + 1} /\ used' = used \cup {r.cookie}
     \/ /\ r.cookie \notin live
        /\ Reply(r, "denied", none)
        /\ live' = IF r.cookie \in used THEN {} ELSE live
        /\ UNCHANGED <<issues, valid, used>>
  /\ UNCHANGED <<keys, tab, acts>>

ServeLogin(r) ==
  /\ r.kind = "login" /\ r.at = "sent"
  /\ \/ Issue /\ Reply(r, "ok", issues + 1) /\ live' = live \cup {issues + 1} /\ UNCHANGED used
     \/ Reply(r, "denied", none) /\ UNCHANGED server
  /\ UNCHANGED <<keys, tab, acts>>

\* The endpoint wants a valid access token; its answer deletes the cookie.
ServeLogout(r) ==
  /\ r.kind = "logout"
  /\ IF r.token \in valid
     THEN /\ live' = live \ {r.cookie}
          /\ used' = IF r.cookie = none THEN used ELSE used \cup {r.cookie}
          /\ cookie' \in {cookie, none}
     ELSE UNCHANGED <<live, used, cookie>>
  /\ wire' = wire \ {r}
  /\ UNCHANGED <<stored, issues, valid, tab, acts>>

\* A page that is gone: the server still acts, and the browser takes the cookie or does not.
OrphanAnswered(r) ==
  /\ r.tab = none /\ r.at \in {"ok", "denied"}
  /\ wire' = wire \ {r} /\ cookie' \in {cookie, IF r.at = "ok" THEN r.got ELSE cookie}
  /\ UNCHANGED <<stored, server, tab, acts>>

\* No answer: the caller has its error, a refresh or a log-in fails like a refused one.
Lose(r) ==
  /\ r.at \in {"sent", "ok"}
  /\ IF r.tab = none \/ r.kind \in {"call", "logout"} THEN wire' = wire \ {r} ELSE Reply(r, "denied", none)
  /\ UNCHANGED <<keys, server, tab, acts>>

Expire(i) ==
  /\ i \in valid /\ (i = stored \/ \E r \in wire : i \in {r.token, r.got})
  /\ valid' = valid \ {i}
  /\ UNCHANGED <<keys, issues, live, used, tab, wire, acts>>

-----------------------------------------------------------------------------
Init ==
  /\ stored = 1 /\ cookie = 1 /\ issues = 1 /\ valid = {1} /\ live = {1} /\ used = {}
  /\ tab = [t \in Tabs |-> [at |-> "dashboard", user |-> TRUE, init |-> FALSE, out |-> FALSE,
                            refreshing |-> FALSE, leaving |-> none]]
  /\ wire = {} /\ acts = 0

Arrive(r) == \/ CallRefused(r) \/ Unauthorized(r) \/ Refreshed(r) \/ RefreshFailed(r)
             \/ Probed(r) \/ ProbeFailed(r) \/ LoggedIn(r) \/ LoginFailed(r) \/ OrphanAnswered(r)
Travel(r) == \/ ServeCall(r) \/ ServeRefresh(r) \/ ServeLogin(r) \/ ServeLogout(r) \/ Lose(r)

UserStep(t) == \/ \E path \in PublicPaths \cup GuardedPaths : Go(t, path) \/ OpenByUser(t, path)
               \/ Call(t) \/ Login(t) \/ Logout(t)
TabStep(t)  == Redirect(t) \/ Unload(t) \/ SafetyTimer(t) \/ LogoutTimer(t)

Next == \/ \E t \in Tabs : UserStep(t) \/ TabStep(t)
        \/ \E r \in wire : Arrive(r) \/ Travel(r)
        \/ \E i \in Token : Expire(i)

-----------------------------------------------------------------------------
(* Properties.                                                              *)

Kinds == {"call", "refresh", "probe", "login", "logout"}

TypeOK ==
  /\ stored \in Token \cup {none} /\ cookie \in Token \cup {none}
  /\ issues \in Token /\ valid \subseteq Token /\ live \subseteq Token /\ used \subseteq Token
  /\ tab \in [Tabs -> [at : PublicPaths \cup GuardedPaths, user : BOOLEAN, init : BOOLEAN,
                       out : BOOLEAN, refreshing : BOOLEAN, leaving : {none, "home", "login"}]]
  /\ wire \subseteq [n : 0 .. MaxActs, tab : Tabs \cup {none}, kind : Kinds,
                     token : Token \cup {none}, cookie : Token \cup {none}, again : BOOLEAN,
                     at : {"sent", "ok", "denied", "first", "queued"},
                     got : Token \cup {none}]
  /\ acts \in 0 .. MaxActs

\* A tab has one refresh under way exactly while isRefreshing is up, however many requests were
\* refused at the same time: a second refresh would present a consumed token.
OneRefreshPerTab ==
  \A t \in Tabs : LET refreshes == {r \in Own(t) : r.kind = "refresh"}
                  IN  /\ tab[t].refreshing = (refreshes # {})
                      /\ Cardinality(refreshes) <= 1

\* A request waits in refreshQueue only for a refresh that will drain it, or in a page that is
\* being left: no failed refresh leaves one behind in a page that stays.
QueueIsServed ==
  \A t \in Tabs : Waiting(t) # {} => tab[t].refreshing \/ tab[t].leaving # none

\* Every request of a page settles or its page goes.
CallsSettle == \A n \in 1 .. MaxActs : (\E r \in wire : r.n = n) ~> (\A r \in wire : r.n # n)

Fairness == /\ \A n \in 1 .. MaxActs : WF_vars(\E r \in wire : r.n = n /\ (Arrive(r) \/ Travel(r)))
            /\ \A t \in Tabs : /\ WF_vars(\E r \in Own(t) : r.kind = "refresh" /\ (Arrive(r) \/ Travel(r)))
                               /\ WF_vars(Unload(t))
Spec == Init /\ [][Next]_vars /\ Fairness

=============================================================================
