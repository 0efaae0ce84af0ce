---------------------------- MODULE AdminConsole ----------------------------
(***************************************************************************)
(* The frame of the administrator's pages: one page on screen with its     *)
(* list (useInfiniteList), its record pane (RecordPane), its dialogs and   *)
(* the requests its handlers sent.  What each page offers on a row and     *)
(* what its handlers do is in AdminPages and ReviewQueues; AdminSite puts  *)
(* them together.                                                          *)
(*                                                                         *)
(* A behaviour is about one page, home, which the administrator may leave  *)
(* and come back to: leaving unmounts it, its requests go on.  A handler   *)
(* runs to its await in one step and after it in another; the server acts  *)
(* on a request in between.  Pages of rows are read by the server at a     *)
(* moment of their own and land later.                                     *)
(***************************************************************************)
EXTENDS CursorList

CONSTANT Scenes  \* what behaviours are about, with their bounds: a set of Scene

Pages == {"jobs", "applications", "candidates", "companies", "companyRecord", "pending",
          "invites", "jobsQueue", "applicationsQueue", "companiesQueue"}

\* The page; the rows there are, 1 .. old; how many may be created, how many rows a page has, how
\* many requests the handlers may send, how often the page is mounted; the ids that pass what
\* is matched in the browser.
Scene == [home : Pages, old : Nat \ {0}, new : Nat, size : Nat \ {0}, calls : Nat,
          visits : Nat \ {0}, narrow : SUBSET Nat]

ASSUME ConsoleAssumption == Scenes \subseteq Scene /\ none \notin Nat

VARIABLES
  scene, away, visit,  \* the page, whether the administrator is elsewhere, mounts so far
  list, query, narrow, \* its list, the query of its fetcher, the search applied here
  selected, pane,      \* the id in the URL (or the rail) and what RecordPane fetched for it
  dlg, busy, acting,   \* open dialogs with the row each was opened for; pending flags; acting id
  banner,              \* pendingUndo of the applications queue
  calls, sent,         \* requests of handlers not answered yet; how many were sent
  rows                 \* the rows in the database

place  == <<scene, away, visit>>
view   == <<list, query, narrow, selected, pane>>
modals == <<dlg, busy, acting, banner>>
server == <<calls, sent, rows>>
vars   == <<place, view, modals, server>>

home     == scene.home
Id       == 1 .. scene.old + scene.new
Dialogs == {"edit", "create", "reject", "delete", "paneEdit", "paneDelete", "notes", "revoke"}
Flags   == {"confirm", "pane", "confirmPane", "save", "status", "notes"}

\* Handlers of a component that lives in the pane and goes with it.
PaneKinds == {"candidatePaneDelete", "applicationStatus", "applicationNotes"}

Idle == [state |-> "idle", id |-> none, row |-> none]

-----------------------------------------------------------------------------
(* The database, as the requests of services/ read and write it.           *)

Exists(id) == rows[id].exists
Copy(id)   == [id |-> id, status |-> rows[id].status, edit |-> rows[id].edit]

\* Pages whose list asks the server for some rows only.
QueuePages == {"jobsQueue", "applicationsQueue"}
Matches(q, id) == q = "all" \/ rows[id].status = "PENDING"

\* One page of the list, newest first.
ReadPage(q, cursor) ==
  LET hits == {id \in Id : Exists(id) /\ Matches(q, id) /\ (cursor = none \/ id < cursor)}
      Newest(n) == Nth(hits, Cardinality(hits) + 1 - n)
      size == IF Cardinality(hits) > scene.size THEN scene.size ELSE Cardinality(hits)
  IN  [items |-> [n \in 1..size |-> Copy(Newest(n))],
       next  |-> IF Cardinality(hits) > scene.size THEN Newest(size) ELSE none]

\* What a request of a handler does in the database, and when it is refused.
Unborn == {id \in Id : rows[id].status = "NONE"}
Target(c) == IF c.op = "create" THEN CHOOSE id \in Unborn : \A other \in Unborn : id <= other
             ELSE c.row

Permitted(c) ==
  CASE c.op = "create" -> Unborn # {}
    [] c.op = "moderate" -> Exists(c.row) /\ rows[c.row].status = "PENDING"
    [] OTHER -> Exists(c.row)

Written(c) ==
  CASE c.op = "create" -> [exists |-> TRUE, status |-> c.to, edit |-> 0]
    [] c.op = "delete" -> [rows[c.row] EXCEPT !.exists = FALSE]
    [] c.op \in {"moderate", "status"} -> [rows[c.row] EXCEPT !.status = c.to]
    [] c.op = "edit"   -> [rows[c.row] EXCEPT !.edit = 1]

-----------------------------------------------------------------------------
(* The list and the pane of the page on screen.                            *)

Here == ~away

\* Filters applied in the browser to the rows loaded so far.
Shown(l) == IF narrow
            THEN RowsAt(l.items, {i \in DOMAIN l.items : l.items[i].id \in scene.narrow})
            ELSE l.items

InList(l, id) == \E i \in DOMAIN l.items : l.items[i].id = id
RowOf(l, id)  == l.items[CHOOSE i \in DOMAIN l.items : l.items[i].id = id]

\* AdminCompaniesPage gives its pane no entity; the others look the id up in the list.
Known(l, id) == home # "companyRecord" /\ InList(l, id)

\* Mutant: a record fetched for one id is kept while another is fetched.
PaneKept(l, id) ==
  CASE id = none \/ Known(l, id) -> Idle
    [] ~(id = none \/ Known(l, id)) ->
         IF pane.id = id THEN pane ELSE [pane EXCEPT !.state = "fetching", !.id = id]

\* RecordPane's effect: a record that is not in the list is fetched; another id, or the
\* record turning up in the list, aborts the fetch and forgets what it held.
PaneAfter(l, id) ==
  CASE id = none \/ Known(l, id) -> Idle
    [] ~(id = none \/ Known(l, id)) ->
         IF pane.id = id THEN pane ELSE [state |-> "fetching", id |-> id, row |-> none]

\* The record the pane shows, if any.
PaneValue ==
  IF selected # none /\ Known(list, selected) THEN RowOf(list, selected) ELSE pane.row

Look(l, id) == list' = l /\ selected' = id /\ pane' = PaneAfter(l, id)
SetList(l)  == Look(l, selected)

ServePage ==
  /\ Here /\ list.inFlight /\ list.request.page = none
  /\ list' = Served(list, ReadPage(list.request.query, list.request.cursor))
  /\ UNCHANGED <<place, query, narrow, selected, pane, modals, server>>

LandPage ==
  /\ Here /\ list.inFlight /\ list.request.page # none
  /\ SetList(Landed(list))
  /\ UNCHANGED <<place, query, narrow, modals, server>>

PageFails ==
  /\ Here /\ list.inFlight
  /\ SetList(Failed(list))
  /\ UNCHANGED <<place, query, narrow, modals, server>>

\* The sentinel is mounted with the rows, so an empty selection of them never asks for more.
ScrollToEnd ==
  /\ Here /\ ListState(list, Shown(list)) = "rows" /\ WantsMore(list)
  /\ SetList(FetchMore(list, query))
  /\ UNCHANGED <<place, query, narrow, modals, server>>

Retry ==
  /\ Here /\ ListState(list, Shown(list)) = "error"
  /\ SetList(Reload(list, query))
  /\ UNCHANGED <<place, query, narrow, modals, server>>

\* RecordPane's fetch is answered: the record, a 404, or another failure.
PaneFetched ==
  /\ Here /\ pane.state = "fetching"
  /\ pane' = IF Exists(pane.id) THEN [pane EXCEPT !.state = "fetched", !.row = Copy(pane.id)]
                                ELSE [pane EXCEPT !.state = "missing"]
  /\ UNCHANGED <<place, list, query, narrow, selected, modals, server>>

PaneFails ==
  /\ Here /\ pane.state = "fetching"
  /\ pane' = [pane EXCEPT !.state = "failed"]
  /\ UNCHANGED <<place, list, query, narrow, selected, modals, server>>

\* Another row, or none: a link, the back button, "show list".
\* The list of companies and a company's record are two mounts of the tab, hence two homes.
FlagsBeside(id) ==
  [f \in Flags |-> IF id = none /\ f \in {"pane", "status", "notes"} THEN FALSE ELSE busy[f]]
PaneGone(cs) == {IF c.kind \in PaneKinds THEN [c EXCEPT !.live = FALSE] ELSE c : c \in cs}

Select(id) ==
  /\ Here /\ home \notin {"companies", "pending", "invites"} /\ id # selected
  /\ IF id = none
     THEN /\ home # "companyRecord"
          /\ calls' = PaneGone(calls) /\ busy' = FlagsBeside(none)
     ELSE /\ \E i \in DOMAIN Shown(list) : Shown(list)[i].id = id
          /\ UNCHANGED <<calls, busy>>
  /\ Look(list, id)
  /\ UNCHANGED <<place, query, narrow, dlg, acting, banner, sent, rows>>

-----------------------------------------------------------------------------
(* Dialogs and requests.                                                    *)

NoModal == \A k \in Dialogs : dlg[k] = none

OpenFor(k, row) ==
  /\ Here /\ NoModal
  /\ dlg' = [dlg EXCEPT ![k] = row]
  /\ UNCHANGED <<place, view, busy, acting, banner, server>>

\* Escape, a click outside or "cancel"; a pending request disables the buttons, not these.
Dismiss(k) ==
  /\ Here /\ dlg[k] # none
  /\ dlg' = [dlg EXCEPT ![k] = none]
  /\ UNCHANGED <<place, view, busy, acting, banner, server>>

\* What the rest of a handler uses of what it saw when it was called: the row a dialog was opened
\* for, the selected id, the rows of the list.
Closure(kind, row) ==
  [from |-> IF kind \in {"jobReject", "inviteRevoke"} THEN row ELSE none,
   sel  |-> IF kind = "listDelete" THEN selected ELSE none,
   seen |-> IF home \in {"companiesQueue", "applicationsQueue"} THEN list.items ELSE <<>>]

SendBeside(others, kind, op, row, to) ==
  /\ sent < scene.calls
  /\ sent' = sent + 1
  /\ calls' = others \cup {[n |-> sent + 1, kind |-> kind, op |-> op, row |-> row.id, to |-> to,
                            saw |-> Closure(kind, row), visit |-> visit, live |-> TRUE,
                            at |-> "sent", result |-> none]}
  /\ UNCHANGED rows
Send(kind, op, row, to) == SendBeside(calls, kind, op, row, to)

\* Mutant: a confirmation does not look at the flag it raises.
RaiseAgain(flag) == busy' = [busy EXCEPT ![flag] = TRUE]

Raise(flag) == ~busy[flag] /\ busy' = [busy EXCEPT ![flag] = TRUE]
Lower(flag) == busy' = [busy EXCEPT ![flag] = FALSE]

\* ConfirmDialog: its button is disabled while the flag it is given is up.
Confirm(k, flag, kind, op, to) ==
  /\ Here /\ dlg[k] # none
  /\ Raise(flag)
  /\ Send(kind, op, dlg[k], to)
  /\ UNCHANGED <<place, view, dlg, acting, banner>>

Serve(c) ==
  /\ c.at = "sent"
  /\ IF Permitted(c)
     THEN LET id  == Target(c)
              new == Written(c)
          IN  /\ rows' = [rows EXCEPT ![id] = new]
              /\ calls' = (calls \ {c}) \cup
                   {[c EXCEPT !.at = "done",
                              !.result = [id |-> id, status |-> new.status, edit |-> new.edit]]}
     ELSE /\ calls' = (calls \ {c}) \cup {[c EXCEPT !.at = "failed", !.result = none]}
          /\ UNCHANGED rows
  /\ UNCHANGED <<place, view, modals, sent>>

\* The request fails on the way, or the server carries it out and its answer is lost.
Fail(c) ==
  /\ c.at \in {"sent", "done"}
  /\ calls' = (calls \ {c}) \cup {[c EXCEPT !.at = "failed", !.result = none]}
  /\ UNCHANGED <<place, view, modals, sent, rows>>

\* The rest of a handler of this visit, after its await.
Answered(c, kind) ==
  /\ Here /\ c.kind = kind /\ c.visit = visit /\ c.at \in {"done", "failed"}
  /\ UNCHANGED <<place, query, narrow, sent, rows>>
Done(c) == calls' = calls \ {c}
Succeeded(c) == c.at = "done"

-----------------------------------------------------------------------------
(* Coming and going.                                                        *)

FirstQuery  == IF home \in QueuePages THEN "PENDING" ELSE "all"
FirstRecord == IF home = "companyRecord" THEN 1 ELSE none
FirstPane   == IF FirstRecord = none THEN Idle
               ELSE [state |-> "fetching", id |-> FirstRecord, row |-> none]
NoDialogs == [k \in Dialogs |-> none]
NoFlags   == [f \in Flags |-> FALSE]

FreshPage ==
  /\ list' = Mounted(FirstQuery) /\ query' = FirstQuery /\ narrow' = FALSE
  /\ selected' = FirstRecord /\ pane' = FirstPane
  /\ dlg' = NoDialogs /\ busy' = NoFlags /\ acting' = none /\ banner' = none

Leave ==
  /\ Here /\ NoModal
  /\ away' = TRUE /\ UNCHANGED <<scene, visit>>
  /\ FreshPage /\ UNCHANGED server

Return ==
  /\ away /\ visit < scene.visits
  /\ away' = FALSE /\ visit' = visit + 1 /\ UNCHANGED scene
  /\ UNCHANGED <<view, modals, server>>

\* The rest of a handler whose page is gone: its setStates do nothing, but a navigate()
\* still takes the administrator to the list of that page.
ToTheList ==
  CASE home = "companyRecord" /\ away -> UNCHANGED <<place, view, modals>>
    [] home = "companyRecord" /\ Here -> away' = TRUE /\ FreshPage /\ UNCHANGED <<scene, visit>>
    [] home # "companyRecord" /\ away -> /\ visit < scene.visits /\ visit' = visit + 1
                                         /\ away' = FALSE /\ UNCHANGED <<scene, view, modals>>
    [] home # "companyRecord" /\ Here -> /\ Look(list, none) /\ busy' = FlagsBeside(none)
                                         /\ UNCHANGED <<place, query, narrow, dlg, acting, banner>>

AnsweredLate(c) ==
  /\ c.at \in {"done", "failed"} /\ (away \/ c.visit # visit)
  /\ IF Succeeded(c) /\ (c.kind \in {"candidatePaneDelete", "companyPaneDelete"}
                         \/ (c.kind = "listDelete" /\ c.saw.sel = c.row))
     THEN ToTheList /\ calls' = PaneGone(calls \ {c})
     ELSE UNCHANGED <<place, view, modals>> /\ Done(c)
  /\ UNCHANGED <<sent, rows>>

InitConsole ==
  /\ scene \in Scenes /\ away = FALSE /\ visit = 1
  /\ query = FirstQuery /\ list = Mounted(FirstQuery) /\ narrow = FALSE
  /\ selected = FirstRecord /\ pane = FirstPane
  /\ dlg = NoDialogs /\ busy = NoFlags /\ acting = none /\ banner = none
  /\ calls = {} /\ sent = 0
  /\ rows = [id \in Id |-> [exists |-> id <= scene.old, edit |-> 0,
                            status |-> IF id <= scene.old THEN "PENDING" ELSE "NONE"]]

=============================================================================
