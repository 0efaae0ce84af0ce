------------------------ MODULE BrowserSessionProofs ------------------------
(***************************************************************************)
(* Proofs about the browser's session, for any number of tabs, tokens and  *)
(* requests: a tab never has two refreshes under way, and no request is    *)
(* left in the queue of a page that stays.                                 *)
(***************************************************************************)
EXTENDS BrowserSession, FiniteSetTheorems, TLAPS

TabState == [at : PublicPaths \cup GuardedPaths, user : BOOLEAN, init : BOOLEAN,
             out : BOOLEAN, refreshing : BOOLEAN, leaving : {none, "home", "login"}]
Wired == [n : 0 .. MaxActs, tab : Tabs \cup {none}, kind : Kinds,
          token : Token \cup {none}, cookie : Token \cup {none}, again : BOOLEAN,
          at : {"sent", "ok", "denied", "first", "queued"}, got : Token \cup {none}]

(* The page of a tab goes on: whoever waits or refreshes is a user on a    *)
(* page that a failed refresh will leave, or the page is being left.       *)
Busy(r)      == r.kind \in {"call", "refresh"}
InQueue(r)   == r.at \in {"first", "queued"}
Refreshes(t) == {r \in Own(t) : r.kind = "refresh"}

TabInv(t) ==
  /\ tab[t].refreshing <=> Refreshes(t) # {}
  /\ \A r, s \in Refreshes(t) : r = s
  /\ \A r \in Own(t) : InQueue(r) => r.kind = "call"
                                     /\ (tab[t].refreshing \/ tab[t].leaving # none)
  /\ \A r \in Own(t) : Busy(r) => \/ tab[t].leaving # none
                                  \/ tab[t].user /\ tab[t].at # "login"

QueueInv == \A t \in Tabs : TabInv(t)

-----------------------------------------------------------------------------
(* Records of requests.                                                     *)

LEMMA WiredRequest ==
  ASSUME TypeOK, NEW n \in 0 .. MaxActs, NEW t \in Tabs, NEW kind \in Kinds,
         NEW token \in Token \cup {none}
  PROVE  LET r == Request(n, t, kind, token)
         IN  /\ r \in Wired
             /\ r.n = n /\ r.tab = t /\ r.kind = kind /\ r.at = "sent"
  BY DEF TypeOK, Request, Wired

LEMMA WiredReply ==
  ASSUME NEW r \in Wired, NEW at \in {"sent", "ok", "denied", "first", "queued"},
         NEW got \in Token \cup {none}
  PROVE  LET q == [r EXCEPT !.at = at, !.got = got]
         IN  q \in Wired /\ q.tab = r.tab /\ q.kind = r.kind /\ q.at = at
  BY DEF Wired

LEMMA WiredRetry ==
  ASSUME NEW r \in Wired, NEW at \in {"first", "queued"}
  PROVE  LET q == [r EXCEPT !.at = at, !.again = TRUE]
         IN  q \in Wired /\ q.tab = r.tab /\ q.kind = r.kind /\ q.at = at
  BY DEF Wired

LEMMA WiredResent ==
  ASSUME NEW r \in Wired, NEW token \in Token \cup {none}
  PROVE  LET q == [r EXCEPT !.at = "sent", !.token = token]
         IN  q \in Wired /\ q.tab = r.tab /\ q.kind = r.kind /\ q.at = "sent"
  BY DEF Wired

LEMMA WiredOrphan ==
  ASSUME NEW r \in Wired
  PROVE  LET q == [r EXCEPT !.tab = none]
         IN  q \in Wired /\ q.tab = none /\ q.kind = r.kind /\ q.at = r.at
  BY DEF Wired

LEMMA WiredSignOut ==
  ASSUME TypeOK, NEW t \in Tabs, NEW got \in Token \cup {none}
  PROVE  LET q == [Request(0, t, "logout", got) EXCEPT !.cookie = got]
         IN  q \in Wired /\ q.tab = t /\ q.kind = "logout" /\ q.at = "sent"
  <1>1. 0 \in 0 .. MaxActs /\ cookie \in Token \cup {none}
    BY BrowserAssumption DEF TypeOK
  <1> DEFINE r == Request(0, t, "logout", got)
  <1>2. r \in Wired /\ r.tab = t /\ r.kind = "logout" /\ r.at = "sent"
    BY <1>1, WiredRequest DEF Kinds
  <1> HIDE DEF r
  <1>3. LET q == [r EXCEPT !.cookie = got]
        IN  q \in Wired /\ q.tab = t /\ q.kind = "logout" /\ q.at = "sent"
    BY <1>2 DEF Wired
  <1>4. QED
    BY <1>3 DEF r

-----------------------------------------------------------------------------
(* Type correctness.                                                        *)

LEMMA TypeOKIs ==
  TypeOK <=> /\ stored \in Token \cup {none} /\ cookie \in Token \cup {none}
             /\ issues \in Token /\ valid \subseteq Token /\ live \subseteq Token
             /\ used \subseteq Token
             /\ tab \in [Tabs -> TabState] /\ wire \subseteq Wired /\ acts \in 0 .. MaxActs
  BY DEF TypeOK, TabState, Wired

LEMMA TypeOKNext ==
  ASSUME stored' \in Token \cup {none}, cookie' \in Token \cup {none},
         issues' \in Token, valid' \subseteq Token, live' \subseteq Token, used' \subseteq Token,
         tab' \in [Tabs -> TabState], wire' \subseteq Wired, acts' \in 0 .. MaxActs
  PROVE  TypeOK'
  BY DEF TypeOK, TabState, Wired

LEMMA InitType == Init => TypeOK
  BY BrowserAssumption DEF Init, TypeOK, Token, GuardedPaths

LEMMA ReplyType ==
  ASSUME TypeOK, NEW r \in wire, NEW at \in {"ok", "denied"}, NEW got \in Token \cup {none},
         Reply(r, at, got)
  PROVE  wire' \subseteq Wired
  <1>1. r \in Wired
    BY TypeOKIs
  <1>2. [r EXCEPT !.at = at, !.got = got] \in Wired
    BY <1>1 DEF Wired
  <1>3. QED
    BY <1>2, TypeOKIs DEF Reply

LEMMA OpenType ==
  ASSUME TypeOK, NEW t \in Tabs, NEW path \in PublicPaths \cup GuardedPaths, Open(t, path),
         acts' \in 0 .. MaxActs
  PROVE  TypeOK'
  <1>1. Opened(path) \in TabState
    BY DEF Opened, TabState
  <1>2. Orphans(t) \subseteq Wired
    BY TypeOKIs, WiredOrphan DEF Orphans, Own
  <1>3. Auth("probe", t) \in Wired
    BY WiredRequest, BrowserAssumption DEF Auth, Kinds
  <1>4. wire' \subseteq Wired
    BY <1>2, <1>3, TypeOKIs DEF Open
  <1>5. tab' \in [Tabs -> TabState] /\ stored' \in Token \cup {none}
    BY <1>1, TypeOKIs DEF Open
  <1>6. QED
    BY <1>4, <1>5, TypeOKIs, TypeOKNext DEF Open, server

LEMMA TabEdited ==
  ASSUME TypeOK, NEW t \in Tabs, NEW s \in TabState, tab' = [tab EXCEPT ![t] = s]
  PROVE  tab' \in [Tabs -> TabState]
  BY TypeOKIs

LEMMA TabStepType ==
  ASSUME TypeOK, NEW t \in Tabs, UserStep(t) \/ TabStep(t)
  PROVE  TypeOK'
  <1> USE TypeOKIs DEF keys, server
  <1>1. CASE Redirect(t)
    <2>1. Verdict(t) \in PublicPaths \cup GuardedPaths
      <3>1. tab[t].at \in {"home", "login", "dashboard", "others"}
        BY DEF TabState, PublicPaths, GuardedPaths
      <3>2. QED
        BY <1>1, <3>1 DEF Redirect, Verdict, PublicPaths, GuardedPaths
    <2>2. tab' \in [Tabs -> TabState]
      BY <1>1, <2>1 DEF Redirect, TabState
    <2>3. QED
      BY <1>1, <2>2, TypeOKNext DEF Redirect
  <1>2. CASE SafetyTimer(t) \/ LogoutTimer(t)
    <2>1. tab' \in [Tabs -> TabState]
      <3>1. /\ [tab[t] EXCEPT !.init = FALSE] \in TabState
            /\ [tab[t] EXCEPT !.out = FALSE] \in TabState
        BY DEF TabState
      <3>2. QED
        BY <1>2, <3>1, TabEdited DEF SafetyTimer, LogoutTimer
    <2>2. QED
      BY <1>2, <2>1, TypeOKNext DEF SafetyTimer, LogoutTimer
  <1>3. CASE Unload(t)
    <2>1. tab[t].leaving \in PublicPaths \cup GuardedPaths
      BY <1>3 DEF Unload, TabState, PublicPaths
    <2>2. QED
      BY <1>3, <2>1, OpenType DEF Unload
  <1>4. ASSUME NEW path \in PublicPaths \cup GuardedPaths, Go(t, path)
        PROVE  TypeOK'
    <2>1. tab' \in [Tabs -> TabState]
      BY <1>4 DEF Go, TabState
    <2>2. QED
      BY <1>4, <2>1, TypeOKNext DEF Go
  <1>5. ASSUME NEW path \in PublicPaths \cup GuardedPaths, OpenByUser(t, path)
        PROVE  TypeOK'
    <2>1. acts' \in 0 .. MaxActs
      BY <1>5, BrowserAssumption DEF OpenByUser
    <2>2. QED
      BY <1>5, <2>1, OpenType DEF OpenByUser
  <1>6. CASE Call(t)
    <2>1. acts + 1 \in 0 .. MaxActs
      BY <1>6, BrowserAssumption DEF Call
    <2>2. Request(acts + 1, t, "call", stored) \in Wired
      BY <2>1, WiredRequest DEF Kinds
    <2>3. wire' \subseteq Wired
      BY <1>6, <2>2 DEF Call
    <2>4. QED
      BY <1>6, <2>1, <2>3, TypeOKNext DEF Call
  <1>7. CASE Login(t)
    <2>1. Auth("login", t) \in Wired
      BY WiredRequest, BrowserAssumption DEF Auth, Kinds
    <2>2. wire' \subseteq Wired
      BY <1>7, <2>1 DEF Login
    <2>3. QED
      BY <1>7, <2>2, TypeOKNext DEF Login
  <1>8. CASE Logout(t)
    <2>1. Request(0, t, "logout", stored) \in Wired
      BY WiredRequest, BrowserAssumption DEF Kinds
    <2>2. wire' \subseteq Wired
      BY <1>8, <2>1 DEF Logout
    <2>3. tab' \in [Tabs -> TabState]
      <3>1. [tab[t] EXCEPT !.user = FALSE, !.out = TRUE, !.leaving = "home"] \in TabState
        BY DEF TabState
      <3>2. QED
        BY <1>8, <3>1, TabEdited DEF Logout
    <2>4. QED
      BY <1>8, <2>2, <2>3, TypeOKNext DEF Logout
  <1>9. QED
    BY <1>1, <1>2, <1>3, <1>4, <1>5, <1>6, <1>7, <1>8 DEF UserStep, TabStep

LEMMA ArriveType ==
  ASSUME TypeOK, NEW r \in wire, Arrive(r)
  PROVE  TypeOK'
  <1> USE TypeOKIs DEF keys, server
  <1>1. /\ r \in Wired /\ r.got \in Token \cup {none}
        /\ r.tab # none => r.tab \in Tabs
        /\ \A q \in wire : q \in Wired
    BY DEF Wired
  <1>2. CASE CallRefused(r)
    BY <1>2, TypeOKNext DEF CallRefused
  <1>3. CASE Unauthorized(r)
    <2>1. r.tab \in Tabs
      BY <1>1, <1>3 DEF Unauthorized, Answered
    <2>2. \A at \in {"first", "queued"} : [r EXCEPT !.at = at, !.again = TRUE] \in Wired
      BY <1>1, WiredRetry
    <2>3. Auth("refresh", r.tab) \in Wired
      BY <2>1, WiredRequest, BrowserAssumption DEF Auth, Kinds
    <2>4. wire' \subseteq Wired
      BY <1>3, <2>2, <2>3 DEF Unauthorized
    <2>5. tab' \in [Tabs -> TabState]
      <3>1. [tab[r.tab] EXCEPT !.refreshing = TRUE] \in TabState
        BY <2>1 DEF TabState
      <3>2. QED
        BY <1>3, <2>1, <3>1, TabEdited DEF Unauthorized
    <2>6. QED
      BY <1>3, <2>4, <2>5, TypeOKNext DEF Unauthorized
  <1>4. CASE Refreshed(r)
    <2>1. r.tab \in Tabs
      BY <1>1, <1>4 DEF Refreshed, Answered
    <2>2. \A q \in wire : [q EXCEPT !.at = "sent", !.token = r.got] \in Wired
      BY <1>1, WiredResent
    <2>3. wire' \subseteq Wired
      BY <1>4, <2>2 DEF Refreshed, Waiting, Own
    <2>4. tab' \in [Tabs -> TabState]
      BY <1>4, <2>1 DEF Refreshed, TabState
    <2>5. QED
      BY <1>1, <1>4, <2>3, <2>4, TypeOKNext DEF Refreshed
  <1>5. CASE RefreshFailed(r)
    <2>1. r.tab \in Tabs
      BY <1>1, <1>5 DEF RefreshFailed, Answered
    <2>2. tab' \in [Tabs -> TabState]
      BY <1>5, <2>1 DEF RefreshFailed, TabState
    <2>3. QED
      BY <1>5, <2>2, TypeOKNext DEF RefreshFailed
  <1>6. CASE Probed(r) \/ ProbeFailed(r)
    <2>1. r.tab \in Tabs
      BY <1>1, <1>6 DEF Probed, ProbeFailed, Answered
    <2>2. tab' \in [Tabs -> TabState]
      <3>1. PICK u \in BOOLEAN : u = (tab[r.tab].user \/ r.got \in valid)
        OBVIOUS
      <3>2. /\ [tab[r.tab] EXCEPT !.user = u, !.init = FALSE] \in TabState
            /\ [tab[r.tab] EXCEPT !.init = FALSE] \in TabState
        BY <2>1 DEF TabState
      <3>3. QED
        BY <1>6, <2>1, <3>1, <3>2, TabEdited DEF Probed, ProbeFailed
    <2>3. QED
      BY <1>1, <1>6, <2>2, TypeOKNext DEF Probed, ProbeFailed
  <1>7. CASE LoggedIn(r)
    <2>1. r.tab \in Tabs
      BY <1>1, <1>7 DEF LoggedIn, Answered
    <2>2. tab' \in [Tabs -> TabState]
      <3>1. [tab[r.tab] EXCEPT !.user = TRUE, !.at = "dashboard"] \in TabState
        <4>1. tab[r.tab] \in TabState /\ "dashboard" \in PublicPaths \cup GuardedPaths
          BY <2>1 DEF GuardedPaths
        <4>2. QED
          BY <4>1 DEF TabState
      <3>2. QED
        BY <1>7, <2>1, <3>1, TabEdited DEF LoggedIn
    <2>3. QED
      BY <1>1, <1>7, <2>2, TypeOKNext DEF LoggedIn
  <1>8. CASE LoginFailed(r)
    <2>1. r.tab \in Tabs
      BY <1>1, <1>8 DEF LoginFailed, Answered
    <2>2. [Request(0, r.tab, "logout", r.got) EXCEPT !.cookie = r.got] \in Wired
      BY <1>1, <2>1, WiredSignOut
    <2>3. wire' \subseteq Wired
      BY <1>8, <2>2 DEF LoginFailed
    <2>4. QED
      BY <1>1, <1>8, <2>3, TypeOKNext DEF LoginFailed
  <1>9. CASE OrphanAnswered(r)
    BY <1>1, <1>9, TypeOKNext DEF OrphanAnswered
  <1>10. QED
    BY <1>2, <1>3, <1>4, <1>5, <1>6, <1>7, <1>8, <1>9 DEF Arrive

LEMMA TravelType ==
  ASSUME TypeOK, NEW r \in wire, Travel(r)
  PROVE  TypeOK'
  <1> USE TypeOKIs DEF keys, server
  <1>1. r.cookie \in Token \cup {none}
    BY DEF Wired
  <1>2. issues < MaxIssues => issues + 1 \in Token
    BY BrowserAssumption DEF Token
  <1>3. CASE ServeCall(r)
    <2>1. wire' \subseteq Wired
      BY <1>3, ReplyType DEF ServeCall
    <2>2. QED
      BY <1>3, <2>1, TypeOKNext DEF ServeCall
  <1>4. CASE ServeRefresh(r)
    <2>1. CASE r.cookie \in live /\ Issue /\ Reply(r, "ok", issues + 1)
               /\ live' = (live \ {r.cookie}) \cup {issues + 1} /\ used' = used \cup {r.cookie}
      <3>1. PICK i \in Token : i = issues + 1
        BY <1>2, <2>1 DEF Issue
      <3>2. wire' \subseteq Wired
        BY <2>1, <3>1, ReplyType
      <3>3. QED
        BY <1>4, <2>1, <3>1, <3>2, TypeOKNext DEF ServeRefresh, Issue
    <2>2. CASE /\ Reply(r, "denied", none)
               /\ live' = IF r.cookie \in used THEN {} ELSE live
               /\ UNCHANGED <<issues, valid, used>>
      <3>1. wire' \subseteq Wired
        BY <2>2, ReplyType
      <3>2. QED
        BY <1>4, <2>2, <3>1, TypeOKNext DEF ServeRefresh
    <2>3. QED
      BY <1>4, <2>1, <2>2 DEF ServeRefresh
  <1>5. CASE ServeLogin(r)
    <2>1. CASE Issue /\ Reply(r, "ok", issues + 1) /\ live' = live \cup {issues + 1}
               /\ UNCHANGED used
      <3>1. PICK i \in Token : i = issues + 1
        BY <1>2, <2>1 DEF Issue
      <3>2. wire' \subseteq Wired
        BY <2>1, <3>1, ReplyType
      <3>3. QED
        BY <1>5, <2>1, <3>1, <3>2, TypeOKNext DEF ServeLogin, Issue
    <2>2. CASE Reply(r, "denied", none) /\ UNCHANGED server
      <3>1. wire' \subseteq Wired
        BY <2>2, ReplyType
      <3>2. QED
        BY <1>5, <2>2, <3>1, TypeOKNext DEF ServeLogin
    <2>3. QED
      BY <1>5, <2>1, <2>2 DEF ServeLogin
  <1>6. CASE ServeLogout(r)
    BY <1>1, <1>6, TypeOKNext DEF ServeLogout
  <1>7. CASE Lose(r)
    <2>1. wire' \subseteq Wired
      BY <1>7, ReplyType DEF Lose
    <2>2. QED
      BY <1>7, <2>1, TypeOKNext DEF Lose
  <1>8. QED
    BY <1>3, <1>4, <1>5, <1>6, <1>7 DEF Travel

LEMMA NextType == TypeOK /\ [Next]_vars => TypeOK'
  <1> SUFFICES ASSUME TypeOK, [Next]_vars PROVE TypeOK'
    OBVIOUS
  <1>1. ASSUME NEW i \in Token, Expire(i) PROVE TypeOK'
    BY <1>1, TypeOKIs, TypeOKNext DEF Expire, keys
  <1>2. CASE UNCHANGED vars
    BY <1>2, TypeOKIs, TypeOKNext DEF vars, keys, server
  <1>3. QED
    BY <1>1, <1>2, TabStepType, ArriveType, TravelType DEF Next

-----------------------------------------------------------------------------
(* Refreshes and the requests that wait for them.                           *)

LEMMA InitQueue == Init => QueueInv
  BY DEF Init, QueueInv, TabInv, Own, Refreshes

(* A step of a tab that keeps its refreshes, adds none and makes nobody    *)
(* wait.                                                                    *)
LEMMA TabKeeps ==
  ASSUME NEW t \in Tabs, TabInv(t),
         tab'[t].refreshing = tab[t].refreshing,
         tab[t].leaving # none => tab'[t].leaving # none,
         (\E r \in Own(t) : Busy(r)) /\ tab'[t].leaving = none =>
            (tab[t].user /\ tab[t].at # "login" => tab'[t].user /\ tab'[t].at # "login"),
         \A r \in (Own(t))' : r \in Own(t) \/ (~Busy(r) /\ ~InQueue(r)),
         \A r \in Refreshes(t) : r \in wire'
  PROVE  TabInv(t)'
  <1>1. (Refreshes(t))' = Refreshes(t)
    <2>1. \A r \in (Refreshes(t))' : r \in Refreshes(t)
      BY DEF Refreshes, Busy
    <2>2. \A r \in Refreshes(t) : r \in (Refreshes(t))'
      BY DEF Refreshes, Own
    <2>3. QED
      BY <2>1, <2>2
  <1>2. \A r \in (Own(t))' : InQueue(r) => r.kind = "call"
                             /\ (tab'[t].refreshing \/ tab'[t].leaving # none)
    BY DEF TabInv
  <1>3. \A r \in (Own(t))' : Busy(r) => \/ tab'[t].leaving # none
                                        \/ tab'[t].user /\ tab'[t].at # "login"
    BY DEF TabInv
  <1>4. QED
    BY <1>1, <1>2, <1>3 DEF TabInv

(* The other tabs.                                                          *)
LEMMA OtherTab ==
  ASSUME NEW u \in Tabs, TabInv(u), tab'[u] = tab[u],
         \A r : r.tab = u => (r \in wire' <=> r \in wire)
  PROVE  TabInv(u)'
  <1>1. \A r : r \in (Own(u))' <=> r \in Own(u)
    BY DEF Own
  <1>2. QED
    BY <1>1, TabKeeps DEF Refreshes, Own

(* The server answers, or the answer is lost: a refresh stays one.         *)
LEMMA ReplyQueue ==
  ASSUME TypeOK, QueueInv, NEW r \in wire, ~InQueue(r), NEW at \in {"ok", "denied"},
         NEW got \in Token \cup {none}, Reply(r, at, got), tab' = tab
  PROVE  QueueInv'
  <1> DEFINE q == [r EXCEPT !.at = at, !.got = got]
  <1>1. r \in Wired
    BY TypeOKIs
  <1>2. q.tab = r.tab /\ q.kind = r.kind /\ q.at = at
    BY <1>1 DEF Wired
  <1>3. wire' = (wire \ {r}) \cup {q}
    BY DEF Reply
  <1> HIDE DEF q
  <1>4. ASSUME NEW t \in Tabs PROVE TabInv(t)'
    <2>1. TabInv(t)
      BY DEF QueueInv
    <2>2. CASE r.tab # t
      BY <1>2, <1>3, <2>1, <2>2, OtherTab
    <2>3. CASE r.tab = t
      <3>1. (Own(t))' = (Own(t) \ {r}) \cup {q} /\ r \in Own(t)
        BY <1>2, <1>3, <2>3 DEF Own
      <3>2. (Refreshes(t))' = IF r.kind = "refresh" THEN (Refreshes(t) \ {r}) \cup {q}
                                                    ELSE Refreshes(t)
        BY <1>2, <3>1 DEF Refreshes
      <3>3. ~InQueue(q) /\ (Busy(q) <=> Busy(r))
        BY <1>2 DEF InQueue, Busy
      <3>4. r.kind = "refresh" => r \in Refreshes(t)
        BY <3>1 DEF Refreshes
      <3>5. /\ tab[t].refreshing <=> (Refreshes(t))' # {}
            /\ \A x, y \in (Refreshes(t))' : x = y
        BY <2>1, <3>2, <3>4 DEF TabInv
      <3>6. \A x \in (Own(t))' : InQueue(x) => x.kind = "call"
                                 /\ (tab[t].refreshing \/ tab[t].leaving # none)
        BY <2>1, <3>1, <3>3 DEF TabInv
      <3>7. \A x \in (Own(t))' : Busy(x) => \/ tab[t].leaving # none
                                            \/ tab[t].user /\ tab[t].at # "login"
        BY <2>1, <3>1, <3>3 DEF TabInv
      <3>8. QED
        BY <3>5, <3>6, <3>7 DEF TabInv
    <2>4. QED
      BY <2>2, <2>3
  <1>5. QED
    BY <1>4 DEF QueueInv

(* A request of the tab that is neither a call nor a refresh comes or goes, *)
(* or a call is done.                                                       *)
LEMMA WireKeeps ==
  ASSUME TypeOK, QueueInv, NEW gone, gone \subseteq wire, NEW come,
         wire' = (wire \ gone) \cup come, tab' = tab,
         \A r \in gone : r.tab = none \/ r.kind # "refresh",
         \A r \in come : ~Busy(r) /\ ~InQueue(r)
  PROVE  QueueInv'
  <1>1. ASSUME NEW t \in Tabs PROVE TabInv(t)'
    <2>1. \A r \in (Own(t))' : r \in Own(t) \/ (~Busy(r) /\ ~InQueue(r))
      BY DEF Own
    <2>2. \A r \in Refreshes(t) : r \in wire'
      BY BrowserAssumption DEF Refreshes, Own
    <2>3. QED
      BY <2>1, <2>2, TabKeeps DEF QueueInv
  <1>2. QED
    BY <1>1 DEF QueueInv

LEMMA RequestGoes ==
  ASSUME TypeOK, QueueInv, NEW r \in wire, wire' = wire \ {r}, tab' = tab,
         r.tab = none \/ r.kind # "refresh"
  PROVE  QueueInv'
  <1> DEFINE gone == {r}  come == {}
  <1>1. /\ gone \subseteq wire /\ wire' = (wire \ gone) \cup come
        /\ \A q \in gone : q.tab = none \/ q.kind # "refresh"
        /\ \A q \in come : ~Busy(q) /\ ~InQueue(q)
    OBVIOUS
  <1> HIDE DEF gone, come
  <1>2. QED
    BY <1>1, WireKeeps

LEMMA TravelQueue ==
  ASSUME TypeOK, QueueInv, NEW r \in wire, Travel(r)
  PROVE  QueueInv'
  <1> USE DEF Busy, InQueue
  <1>1. CASE ServeCall(r)
    <2>1. CASE r.token \in valid
      <3>1. wire' = wire \ {r} /\ tab' = tab /\ r.kind # "refresh"
        BY <1>1, <2>1 DEF ServeCall
      <3>2. QED
        BY <3>1, RequestGoes
    <2>2. CASE r.token \notin valid
      BY <1>1, <2>2, ReplyQueue DEF ServeCall
    <2>3. QED
      BY <2>1, <2>2
  <1>2. CASE ServeRefresh(r) \/ ServeLogin(r)
    <2>1. CASE Reply(r, "denied", none)
      BY <1>2, <2>1, ReplyQueue DEF ServeRefresh, ServeLogin
    <2>2. CASE Issue /\ Reply(r, "ok", issues + 1)
      <3>1. PICK i \in Token : i = issues + 1
        BY <2>2, BrowserAssumption DEF Issue, TypeOK, Token
      <3>2. QED
        BY <1>2, <2>2, <3>1, ReplyQueue DEF ServeRefresh, ServeLogin
    <2>3. QED
      BY <1>2, <2>1, <2>2 DEF ServeRefresh, ServeLogin
  <1>3. CASE ServeLogout(r)
    <2>1. wire' = wire \ {r} /\ tab' = tab /\ r.kind # "refresh"
      BY <1>3 DEF ServeLogout
    <2>2. QED
      BY <2>1, RequestGoes
  <1>4. CASE Lose(r)
    <2>1. CASE r.tab = none \/ r.kind \in {"call", "logout"}
      <3>1. wire' = wire \ {r} /\ tab' = tab /\ (r.tab = none \/ r.kind # "refresh")
        BY <1>4, <2>1 DEF Lose
      <3>2. QED
        BY <3>1, RequestGoes
    <2>2. CASE ~(r.tab = none \/ r.kind \in {"call", "logout"})
      BY <1>4, <2>2, ReplyQueue DEF Lose
    <2>3. QED
      BY <2>1, <2>2
  <1>5. QED
    BY <1>1, <1>2, <1>3, <1>4 DEF Travel

LEMMA ArriveQueue ==
  ASSUME TypeOK, QueueInv, NEW r \in wire, Arrive(r)
  PROVE  QueueInv'
  <1>1. /\ r \in Wired /\ r.got \in Token \cup {none}
        /\ r.tab # none => r.tab \in Tabs
        /\ \A q \in wire : q \in Wired
    BY TypeOKIs DEF Wired
  <1>2. CASE CallRefused(r) \/ OrphanAnswered(r)
    <2>1. wire' = wire \ {r} /\ tab' = tab /\ (r.tab = none \/ r.kind # "refresh")
      BY <1>2 DEF CallRefused, OrphanAnswered, Answered
    <2>2. QED
      BY <2>1, RequestGoes
  <1>3. CASE LoginFailed(r)
    <2>1. r.tab \in Tabs /\ r.kind # "refresh" /\ tab' = tab
      BY <1>1, <1>3 DEF LoginFailed, Answered
    <2>2. CASE r.at = "ok"
      <3> DEFINE q == [Request(0, r.tab, "logout", r.got) EXCEPT !.cookie = r.got]
                 gone == {r}  come == {q}
      <3>1. q.kind = "logout" /\ q.at = "sent"
        BY <1>1, <2>1, WiredSignOut
      <3>2. /\ gone \subseteq wire /\ wire' = (wire \ gone) \cup come
            /\ \A e \in gone : e.tab = none \/ e.kind # "refresh"
        BY <1>3, <2>1, <2>2 DEF LoginFailed
      <3> HIDE DEF q
      <3>3. \A e \in come : ~Busy(e) /\ ~InQueue(e)
        BY <3>1 DEF Busy, InQueue
      <3> HIDE DEF gone, come
      <3>4. QED
        BY <2>1, <3>2, <3>3, WireKeeps
    <2>3. CASE r.at # "ok"
      <3>1. wire' = wire \ {r}
        BY <1>3, <2>3 DEF LoginFailed
      <3>2. QED
        BY <2>1, <3>1, RequestGoes
    <2>4. QED
      BY <2>2, <2>3
  <1>4. CASE Probed(r) \/ ProbeFailed(r) \/ LoggedIn(r)
    <2>1. PICK t \in Tabs : t = r.tab
      BY <1>1, <1>4 DEF Probed, ProbeFailed, LoggedIn, Answered
    <2>2. wire' = wire \ {r} /\ r.kind # "refresh"
      BY <1>4 DEF Probed, ProbeFailed, LoggedIn, Answered
    <2>3. \A u \in Tabs \ {t} : tab'[u] = tab[u]
      BY <1>4, <2>1, TypeOKIs DEF Probed, ProbeFailed, LoggedIn
    <2>4. /\ tab'[t].refreshing = tab[t].refreshing /\ tab'[t].leaving = tab[t].leaving
          /\ tab[t].user => tab'[t].user
          /\ tab'[t].at \in {tab[t].at, "dashboard"}
      BY <1>4, <2>1, TypeOKIs DEF Probed, ProbeFailed, LoggedIn, TabState
    <2>5. ASSUME NEW u \in Tabs PROVE TabInv(u)'
      <3>1. \A q \in (Own(u))' : q \in Own(u)
        BY <2>2 DEF Own
      <3>2. \A q \in Refreshes(u) : q \in wire'
        BY <2>2 DEF Refreshes, Own
      <3>3. CASE u = t
        BY <2>4, <3>1, <3>2, <3>3, TabKeeps DEF QueueInv
      <3>4. CASE u # t
        BY <2>3, <3>1, <3>2, <3>4, TabKeeps DEF QueueInv
      <3>5. QED
        BY <3>3, <3>4
    <2>6. QED
      BY <2>5 DEF QueueInv
  <1>5. CASE Unauthorized(r)
    <2>1. PICK t \in Tabs : t = r.tab
      BY <1>1, <1>5 DEF Unauthorized, Answered
    <2> DEFINE q1 == [r EXCEPT !.at = "first", !.again = TRUE]
               q2 == [r EXCEPT !.at = "queued", !.again = TRUE]
               f  == Auth("refresh", t)
    <2>2. q1.tab = t /\ q1.kind = "call" /\ q1.at = "first"
      BY <1>1, <1>5, <2>1, WiredRetry DEF Unauthorized, Answered
    <2>3. q2.tab = t /\ q2.kind = "call" /\ q2.at = "queued"
      BY <1>1, <1>5, <2>1, WiredRetry DEF Unauthorized, Answered
    <2>4. f.tab = t /\ f.kind = "refresh" /\ f.at = "sent"
      BY WiredRequest, BrowserAssumption DEF Auth, Kinds
    <2>5. TabInv(t) /\ r \in Own(t) /\ r.kind = "call"
      BY <1>5, <2>1 DEF QueueInv, Own, Unauthorized, Answered
    <2>9. /\ tab[t].refreshing => wire' = (wire \ {r}) \cup {q2} /\ tab' = tab
          /\ ~tab[t].refreshing => /\ wire' = (wire \ {r}) \cup {q1, f}
                                   /\ tab' = [tab EXCEPT ![t].refreshing = TRUE]
      BY <1>5, <2>1 DEF Unauthorized
    <2> HIDE DEF q1, q2, f
    <2>6. ASSUME NEW u \in Tabs, u # t PROVE TabInv(u)'
      <3>1. tab'[u] = tab[u]
        BY <2>6, <2>9, TypeOKIs
      <3>2. \A q : q.tab = u => (q \in wire' <=> q \in wire)
        BY <2>1, <2>2, <2>3, <2>4, <2>6, <2>9
      <3>3. QED
        BY <3>1, <3>2, OtherTab DEF QueueInv
    <2>7. TabInv(t)'
      <3>1. CASE tab[t].refreshing
        <4>1. wire' = (wire \ {r}) \cup {q2} /\ tab' = tab
          BY <2>9, <3>1
        <4>2. (Own(t))' = (Own(t) \ {r}) \cup {q2}
          BY <2>3, <4>1 DEF Own
        <4>3. (Refreshes(t))' = Refreshes(t)
          BY <2>3, <2>5, <4>2 DEF Refreshes
        <4>4. QED
          BY <2>3, <2>5, <3>1, <4>1, <4>2, <4>3 DEF TabInv, Busy, InQueue
      <3>2. CASE ~tab[t].refreshing
        <4>1. /\ wire' = (wire \ {r}) \cup {q1, f}
              /\ tab' = [tab EXCEPT ![t].refreshing = TRUE]
          BY <2>9, <3>2
        <4>2. /\ tab'[t].refreshing /\ tab'[t].leaving = tab[t].leaving
              /\ tab'[t].user = tab[t].user /\ tab'[t].at = tab[t].at
          BY <4>1, TypeOKIs DEF TabState
        <4>3. (Own(t))' = (Own(t) \ {r}) \cup {q1, f}
          BY <2>2, <2>4, <4>1 DEF Own
        <4>4. (Refreshes(t))' = {f}
          BY <2>2, <2>4, <2>5, <3>2, <4>3 DEF Refreshes, TabInv
        <4>5. \A q \in (Own(t))' : InQueue(q) => q.kind = "call"
          BY <2>2, <2>4, <2>5, <4>3 DEF TabInv, InQueue
        <4>6. \A q \in (Own(t))' : Busy(q) => \/ tab'[t].leaving # none
                                              \/ tab'[t].user /\ tab'[t].at # "login"
          BY <2>2, <2>4, <2>5, <4>2, <4>3 DEF TabInv, Busy
        <4>7. QED
          BY <4>2, <4>4, <4>5, <4>6 DEF TabInv
      <3>3. QED
        BY <3>1, <3>2
    <2>8. QED
      BY <2>6, <2>7 DEF QueueInv
  <1>6. CASE Refreshed(r)
    <2>1. PICK t \in Tabs : t = r.tab
      BY <1>1, <1>6 DEF Refreshed, Answered
    <2>2. TabInv(t) /\ r \in Refreshes(t)
      BY <1>6, <2>1 DEF QueueInv, Own, Refreshes, Refreshed, Answered
    <2> DEFINE resent == {[q EXCEPT !.at = "sent", !.token = r.got] : q \in Waiting(t)}
    <2>3. \A x \in resent : x.tab = t /\ x.kind = "call" /\ x.at = "sent"
      <3>1. ASSUME NEW q \in Waiting(t)
            PROVE  LET x == [q EXCEPT !.at = "sent", !.token = r.got]
                   IN  x.tab = t /\ x.kind = "call" /\ x.at = "sent"
        <4>1. q \in Wired /\ q.tab = t /\ q.kind = "call"
          BY <1>1, <2>2 DEF Waiting, Own, TabInv, InQueue
        <4>2. QED
          BY <1>1, <4>1, WiredResent
      <3>2. QED
        BY <3>1
    <2> HIDE DEF resent
    <2>4. /\ wire' = (wire \ ({r} \cup Waiting(t))) \cup resent
          /\ tab' = [tab EXCEPT ![t].refreshing = FALSE]
      BY <1>6, <2>1 DEF Refreshed, resent
    <2>5. ASSUME NEW u \in Tabs, u # t PROVE TabInv(u)'
      <3>1. tab'[u] = tab[u]
        BY <2>4, <2>5, TypeOKIs
      <3>2. \A q : q.tab = u => (q \in wire' <=> q \in wire)
        BY <2>1, <2>3, <2>4, <2>5 DEF Waiting, Own
      <3>3. QED
        BY <3>1, <3>2, OtherTab DEF QueueInv
    <2>6. TabInv(t)'
      <3>1. /\ ~tab'[t].refreshing /\ tab'[t].leaving = tab[t].leaving
            /\ tab'[t].user = tab[t].user /\ tab'[t].at = tab[t].at
        BY <2>4, TypeOKIs DEF TabState
      <3>2. (Own(t))' = (Own(t) \ ({r} \cup Waiting(t))) \cup resent
        BY <2>3, <2>4 DEF Own
      <3>3. (Refreshes(t))' = {}
        BY <2>2, <2>3, <3>2 DEF Refreshes, TabInv
      <3>4. \A q \in (Own(t))' : ~InQueue(q)
        BY <2>3, <3>2 DEF InQueue, Waiting
      <3>5. \A q \in (Own(t))' : Busy(q) => \/ tab[t].leaving # none
                                            \/ tab[t].user /\ tab[t].at # "login"
        <4>1. Busy(r) /\ r \in Own(t)
          BY <2>2 DEF Refreshes, Busy
        <4>2. QED
          BY <2>2, <4>1 DEF TabInv
      <3>6. QED
        BY <3>1, <3>3, <3>4, <3>5 DEF TabInv
    <2>7. QED
      BY <2>5, <2>6 DEF QueueInv
  <1>7. CASE RefreshFailed(r)
    <2>1. PICK t \in Tabs : t = r.tab
      BY <1>1, <1>7 DEF RefreshFailed, Answered
    <2>2. TabInv(t) /\ r \in Refreshes(t) /\ r \in Own(t) /\ Busy(r)
      BY <1>7, <2>1 DEF QueueInv, Own, Refreshes, RefreshFailed, Answered, Busy
    <2>3. wire' \subseteq wire \ {r} /\ \A q : q.tab # t => (q \in wire' <=> q \in wire)
      BY <1>7, <2>1 DEF RefreshFailed, Own
    <2>4. ASSUME NEW u \in Tabs, u # t PROVE TabInv(u)'
      <3>1. tab'[u] = tab[u]
        BY <1>7, <2>1, <2>4, TypeOKIs DEF RefreshFailed
      <3>2. QED
        BY <2>3, <2>4, <3>1, OtherTab DEF QueueInv
    <2>5. ~tab'[t].refreshing /\ tab'[t].leaving # none
      <3>1. /\ ~tab'[t].refreshing
            /\ tab'[t].leaving = IF tab[t].at = "login" THEN tab[t].leaving ELSE "login"
        BY <1>7, <2>1, TypeOKIs DEF RefreshFailed, TabState
      <3>2. tab[t].at = "login" => tab[t].leaving # none
        BY <2>2 DEF TabInv
      <3>3. "login" # none
        BY BrowserAssumption
      <3>4. QED
        BY <3>1, <3>2, <3>3
    <2>6. (Refreshes(t))' = {} /\ (Own(t))' \subseteq Own(t)
      BY <2>2, <2>3 DEF Refreshes, Own, TabInv
    <2>7. TabInv(t)'
      BY <2>2, <2>5, <2>6 DEF TabInv
    <2>8. QED
      BY <2>4, <2>7 DEF QueueInv
  <1>8. QED
    BY <1>2, <1>3, <1>4, <1>5, <1>6, <1>7 DEF Arrive

LEMMA VerdictOfGuarded ==
  ASSUME NEW t \in Tabs, Renders(t), tab[t].at \in GuardedPaths
  PROVE  tab[t].user /\ tab[t].at # "login"
  BY DEF Renders, Verdict, GuardedPaths

LEMMA OpenQueue ==
  ASSUME TypeOK, QueueInv, NEW t \in Tabs, NEW path, Open(t, path)
  PROVE  QueueInv'
  <1> DEFINE probe == Auth("probe", t)
  <1>1. probe.tab = t /\ probe.kind = "probe" /\ probe.at = "sent"
    BY WiredRequest, BrowserAssumption DEF Auth, Kinds
  <1>2. wire' \subseteq (wire \ Own(t)) \cup Orphans(t) \cup {probe}
        /\ (wire \ Own(t)) \subseteq wire'
    BY DEF Open
  <1> HIDE DEF probe
  <1>3. \A r \in Orphans(t) : r.tab = none
    <2>1. ASSUME NEW r \in Orphans(t) PROVE r.tab = none
      <3>1. PICK q \in wire : r = [q EXCEPT !.tab = none]
        BY <2>1 DEF Orphans, Own
      <3>2. q \in Wired
        BY TypeOKIs
      <3>3. QED
        BY <3>1, <3>2, WiredOrphan
    <2>2. QED
      BY <2>1
  <1>4. tab' = [tab EXCEPT ![t] = Opened(path)]
    BY DEF Open
  <1>5. ASSUME NEW u \in Tabs, u # t PROVE TabInv(u)'
    <2>1. tab'[u] = tab[u]
      BY <1>4, <1>5, TypeOKIs
    <2>2. \A r : r.tab = u => (r \in wire' <=> r \in wire)
      BY <1>1, <1>2, <1>3, <1>5, BrowserAssumption DEF Own
    <2>3. QED
      BY <2>1, <2>2, OtherTab DEF QueueInv
  <1>6. TabInv(t)'
    <2>1. ~tab'[t].refreshing
      BY <1>4, TypeOKIs DEF Opened
    <2>2. (Own(t))' \subseteq {probe}
      BY <1>2, <1>3, BrowserAssumption DEF Own
    <2>3. QED
      BY <1>1, <2>1, <2>2 DEF TabInv, Refreshes, Busy, InQueue
  <1>7. QED
    BY <1>5, <1>6 DEF QueueInv

LEMMA TabStepQueue ==
  ASSUME TypeOK, QueueInv, NEW t \in Tabs, UserStep(t) \/ TabStep(t)
  PROVE  QueueInv'
  <1>1. ASSUME \A u \in Tabs \ {t} : tab'[u] = tab[u],
               tab'[t].refreshing = tab[t].refreshing,
               tab[t].leaving # none => tab'[t].leaving # none,
               (\E r \in Own(t) : Busy(r)) /\ tab'[t].leaving = none =>
                 (tab[t].user /\ tab[t].at # "login" => tab'[t].user /\ tab'[t].at # "login"),
               NEW come, wire' = wire \cup come,
               \A r \in come : r.tab = t /\ ~Busy(r) /\ ~InQueue(r)
        PROVE  QueueInv'
    <2>1. ASSUME NEW u \in Tabs PROVE TabInv(u)'
      <3>1. \A r \in (Own(u))' : r \in Own(u) \/ (~Busy(r) /\ ~InQueue(r))
        BY <1>1 DEF Own
      <3>2. \A r \in Refreshes(u) : r \in wire'
        BY <1>1 DEF Refreshes, Own
      <3>3. CASE u = t
        BY <1>1, <3>1, <3>2, <3>3, TabKeeps DEF QueueInv
      <3>4. CASE u # t
        BY <1>1, <3>1, <3>2, <3>4, TabKeeps DEF QueueInv
      <3>5. QED
        BY <3>3, <3>4
    <2>2. QED
      BY <2>1 DEF QueueInv
  <1>2. ASSUME NEW v \in PublicPaths \cup GuardedPaths, v = "login" => ~tab[t].user,
               tab' = [tab EXCEPT ![t].at = v], wire' = wire
        PROVE  QueueInv'
    <2>1. /\ \A u \in Tabs \ {t} : tab'[u] = tab[u]
          /\ tab'[t].refreshing = tab[t].refreshing /\ tab'[t].leaving = tab[t].leaving
          /\ tab'[t].user = tab[t].user /\ tab'[t].at = v
      BY <1>2, TypeOKIs DEF TabState
    <2> DEFINE come == {}
    <2>2. wire' = wire \cup come /\ \A r \in come : r.tab = t /\ ~Busy(r) /\ ~InQueue(r)
      BY <1>2
    <2> HIDE DEF come
    <2>3. QED
      BY <1>1, <1>2, <2>1, <2>2
  <1>3. CASE Redirect(t)
    <2>1. tab[t].at \in {"home", "login", "dashboard", "others"}
      BY TypeOKIs DEF TabState, PublicPaths, GuardedPaths
    <2>2. Verdict(t) \in {"dashboard", "login"} /\ (Verdict(t) = "login" => ~tab[t].user)
      BY <1>3, <2>1 DEF Redirect, Verdict, GuardedPaths
    <2>3. PICK v \in {"dashboard", "login"} : v = Verdict(t)
      BY <2>2
    <2>4. QED
      BY <1>2, <1>3, <2>2, <2>3 DEF Redirect, PublicPaths, GuardedPaths
  <1>4. ASSUME NEW path \in PublicPaths \cup GuardedPaths, Go(t, path) PROVE QueueInv'
    BY <1>2, <1>4 DEF Go, Links
  <1>5. CASE SafetyTimer(t) \/ LogoutTimer(t)
    <2>1. /\ \A u \in Tabs \ {t} : tab'[u] = tab[u]
          /\ tab'[t].refreshing = tab[t].refreshing /\ tab'[t].leaving = tab[t].leaving
          /\ tab'[t].user = tab[t].user /\ tab'[t].at = tab[t].at
      BY <1>5, TypeOKIs DEF SafetyTimer, LogoutTimer, TabState
    <2> DEFINE come == {}
    <2>2. wire' = wire \cup come /\ \A r \in come : r.tab = t /\ ~Busy(r) /\ ~InQueue(r)
      BY <1>5 DEF SafetyTimer, LogoutTimer
    <2> HIDE DEF come
    <2>3. QED
      BY <1>1, <2>1, <2>2
  <1>6. CASE Login(t)
    <2> DEFINE come == {Auth("login", t)}
    <2>1. /\ Auth("login", t).tab = t /\ Auth("login", t).kind = "login"
          /\ Auth("login", t).at = "sent"
      BY WiredRequest, BrowserAssumption DEF Auth, Kinds
    <2>2. wire' = wire \cup come /\ \A r \in come : r.tab = t /\ ~Busy(r) /\ ~InQueue(r)
      BY <1>6, <2>1 DEF Login, Busy, InQueue
    <2> HIDE DEF come
    <2>3. tab' = tab
      BY <1>6 DEF Login
    <2>4. QED
      BY <1>1, <2>2, <2>3
  <1>7. CASE Logout(t)
    <2> DEFINE q == Request(0, t, "logout", stored)  come == {q}
    <2>1. q.tab = t /\ q.kind = "logout" /\ q.at = "sent"
      BY WiredRequest, BrowserAssumption, TypeOKIs DEF Kinds
    <2>2. wire' = wire \cup come
      BY <1>7 DEF Logout
    <2> HIDE DEF q
    <2>3. \A r \in come : r.tab = t /\ ~Busy(r) /\ ~InQueue(r)
      BY <2>1 DEF Busy, InQueue
    <2> HIDE DEF come
    <2>4. /\ \A u \in Tabs \ {t} : tab'[u] = tab[u]
          /\ tab'[t].refreshing = tab[t].refreshing /\ tab'[t].leaving = "home"
      BY <1>7, TypeOKIs DEF Logout, TabState
    <2>5. QED
      BY <1>1, <2>2, <2>3, <2>4, BrowserAssumption
  <1>8. CASE Call(t)
    <2> DEFINE q == Request(acts + 1, t, "call", stored)
    <2>1. acts + 1 \in 0 .. MaxActs
      BY <1>8, BrowserAssumption, TypeOKIs DEF Call
    <2>2. q.tab = t /\ q.kind = "call" /\ q.at = "sent"
      BY <2>1, WiredRequest, TypeOKIs DEF Kinds
    <2>3. wire' = wire \cup {q} /\ tab' = tab
      BY <1>8 DEF Call
    <2> HIDE DEF q
    <2>4. tab[t].user /\ tab[t].at # "login"
      BY <1>8, VerdictOfGuarded DEF Call
    <2>5. ASSUME NEW u \in Tabs, u # t PROVE TabInv(u)'
      <3>1. \A r : r.tab = u => (r \in wire' <=> r \in wire)
        BY <2>2, <2>3, <2>5
      <3>2. QED
        BY <2>3, <3>1, OtherTab DEF QueueInv
    <2>6. TabInv(t)'
      <3>1. (Own(t))' = Own(t) \cup {q}
        BY <2>2, <2>3 DEF Own
      <3>2. (Refreshes(t))' = Refreshes(t)
        BY <2>2, <3>1 DEF Refreshes
      <3>3. QED
        BY <2>2, <2>3, <2>4, <3>1, <3>2 DEF TabInv, QueueInv, InQueue
    <2>7. QED
      BY <2>5, <2>6 DEF QueueInv
  <1>9. CASE Unload(t)
    BY <1>9, OpenQueue DEF Unload
  <1>10. ASSUME NEW path, OpenByUser(t, path) PROVE QueueInv'
    BY <1>10, OpenQueue DEF OpenByUser
  <1>11. QED
    BY <1>3, <1>4, <1>5, <1>6, <1>7, <1>8, <1>9, <1>10 DEF UserStep, TabStep

LEMMA NextQueue == TypeOK /\ QueueInv /\ [Next]_vars => QueueInv'
  <1> SUFFICES ASSUME TypeOK, QueueInv, [Next]_vars PROVE QueueInv'
    OBVIOUS
  <1>1. ASSUME tab' = tab, wire' = wire PROVE QueueInv'
    BY <1>1, OtherTab DEF QueueInv
  <1>2. CASE UNCHANGED vars
    BY <1>1, <1>2 DEF vars
  <1>3. ASSUME NEW i \in Token, Expire(i) PROVE QueueInv'
    BY <1>1, <1>3 DEF Expire
  <1>4. QED
    BY <1>2, <1>3, TabStepQueue, ArriveQueue, TravelQueue DEF Next

-----------------------------------------------------------------------------
(* The theorems.                                                            *)

LEMMA Invariant == Spec => [](TypeOK /\ QueueInv)
  <1>1. Init => TypeOK /\ QueueInv
    BY InitType, InitQueue
  <1>2. TypeOK /\ QueueInv /\ [Next]_vars => (TypeOK /\ QueueInv)'
    BY NextType, NextQueue
  <1>3. QED
    BY <1>1, <1>2, PTL DEF Spec

(* Tokens, tabs and requests keep their types: a page is only ever left    *)
(* for the log-in page or the home page (clearSession, logout).             *)
THEOREM TypeCorrect == Spec => []TypeOK
  BY Invariant, PTL

(* A tab refreshes once, however many of its requests were refused         *)
(* together (isRefreshing of services/api.ts).                              *)
THEOREM OneRefreshPerTabHolds == Spec => []OneRefreshPerTab
  <1>1. TypeOK /\ QueueInv => OneRefreshPerTab
    <2> SUFFICES ASSUME TypeOK, QueueInv, NEW t \in Tabs
                 PROVE  /\ tab[t].refreshing = (Refreshes(t) # {})
                        /\ Cardinality(Refreshes(t)) <= 1
      BY DEF OneRefreshPerTab, Refreshes
    <2>1. TabInv(t)
      BY DEF QueueInv
    <2>2. Cardinality(Refreshes(t)) <= 1
      <3>1. CASE Refreshes(t) = {}
        BY <3>1, FS_EmptySet
      <3>2. CASE Refreshes(t) # {}
        <4>1. PICK r : Refreshes(t) = {r}
          BY <2>1, <3>2 DEF TabInv
        <4>2. IsFiniteSet({r}) /\ Cardinality({r}) = 1
          BY FS_Singleton
        <4>3. QED
          BY <4>1, <4>2
      <3>3. QED
        BY <3>1, <3>2
    <2>3. QED
      BY <2>1, <2>2, TypeOKIs DEF TabInv, TabState
  <1>2. QED
    BY <1>1, Invariant, PTL

(* A request that waits for a refresh waits for one that is under way, or  *)
(* its page is being left: a user's requests are never made on the log-in  *)
(* page, the only one a failed refresh does not leave (clearSession).       *)
THEOREM QueueIsServedHolds == Spec => []QueueIsServed
  <1>1. QueueInv => QueueIsServed
    BY DEF QueueInv, TabInv, QueueIsServed, Waiting, InQueue
  <1>2. QED
    BY <1>1, Invariant, PTL

=============================================================================
