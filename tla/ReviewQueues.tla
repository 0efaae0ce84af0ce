---------------------------- MODULE ReviewQueues ----------------------------
(***************************************************************************)
(* The review queue (AdminReviewQueuePage): one tab at a time of new       *)
(* applications, jobs and companies to decide on.  Applications and jobs   *)
(* leave the list when the decision is made, before the server knows of    *)
(* it; companies when it has answered.  Switching tabs unmounts a queue,   *)
(* like leaving the page does.                                             *)
(***************************************************************************)
EXTENDS AdminPages

Position(seen, id) ==
  IF \E i \in DOMAIN seen : seen[i].id = id THEN CHOOSE i \in DOMAIN seen : seen[i].id = id ELSE 0

\* items[idx + 1] ?? items[idx - 1]; for an id that is not there, the first one.
NextAfter(seen, id) ==
  LET i == Position(seen, id)
  IN  CASE i < Len(seen) -> seen[i + 1].id
        [] i = Len(seen) /\ i > 1 -> seen[i - 1].id
        [] i = Len(seen) /\ i <= 1 -> none

\* The row goes and the selection moves to the row that followed it in `seen'.
Advance(id, seen) == Look(RemoveItem(list, id), NextAfter(seen, id))

-----------------------------------------------------------------------------
(* Jobs.                                                                    *)

JobsQueueDecide(to) ==
  /\ At("jobsQueue")
  /\ \E r \in PaneRows :
       /\ r.status = "PENDING"
       /\ Advance(r.id, list.items)
       /\ Send("queueJob", "moderate", r, to)
  /\ UNCHANGED <<place, query, narrow, modals>>

\* A failure loads the queue again, if no page of it is being loaded.
JobsQueueDecided(c) ==
  /\ Answered(c, "queueJob") /\ Done(c)
  /\ SetList(IF Succeeded(c) THEN list ELSE Reload(list, query))
  /\ UNCHANGED modals

JobsQueuePage ==
  \/ \E to \in {"OPEN", "CLOSED"} : JobsQueueDecide(to)
  \/ \E c \in calls : JobsQueueDecided(c)

-----------------------------------------------------------------------------
(* Applications.                                                            *)

\* decide, by the keys: whatever is selected, in the list or not.
ApplicationsQueueDecide(to) ==
  /\ At("applicationsQueue") /\ selected # none
  /\ LET next == NextAfter(list.items, selected)
     IN  /\ Advance(selected, list.items)
         /\ SendBeside(IF next = none THEN PaneGone(calls) ELSE calls,
                       "queueApplication", "status", [Blank EXCEPT !.id = selected], to)
         /\ busy' = FlagsBeside(next)
  /\ banner' = none
  /\ UNCHANGED <<place, query, narrow, dlg, acting>>

ApplicationsQueueDecided(c) ==
  /\ Answered(c, "queueApplication") /\ Done(c)
  /\ SetList(IF Succeeded(c) THEN list ELSE Reload(list, query))
  /\ banner' = IF Succeeded(c) THEN c.row ELSE banner
  /\ UNCHANGED <<dlg, busy, acting>>

\* handleUndo: the banner goes at once, the list is loaded again after the answer.
UndoDecision ==
  /\ At("applicationsQueue") /\ banner # none
  /\ Send("queueUndo", "status", [Blank EXCEPT !.id = banner], "PENDING")
  /\ banner' = none
  /\ UNCHANGED <<place, view, dlg, busy, acting>>

DecisionUndone(c) ==
  /\ Answered(c, "queueUndo") /\ Done(c)
  /\ SetList(IF Succeeded(c) THEN Reload(list, query) ELSE list)
  /\ UNCHANGED modals

\* The banner's five seconds are over.
BannerExpires ==
  /\ At("applicationsQueue") /\ banner # none
  /\ banner' = none
  /\ UNCHANGED <<place, view, dlg, busy, acting, server>>

\* onUpdated of the queue: a status other than NEW, saved in the record, advances like a
\* decision, by the rows the handler saw when it was sent.
QueueStatusSaved(c) ==
  /\ home = "applicationsQueue" /\ Answered(c, "applicationStatus")
  /\ LET takes == Succeeded(c) /\ c.result.status # "PENDING"
         next  == NextAfter(c.saw.seen, c.row)
     IN  IF takes
         THEN /\ Advance(c.row, c.saw.seen)
              /\ calls' = IF next = none THEN PaneGone(calls \ {c}) ELSE calls \ {c}
              /\ busy' = [FlagsBeside(next) EXCEPT !["status"] = @ /\ ~c.live]
         ELSE SetList(list) /\ Done(c) /\ LowerIfLive(c, "status")
  /\ UNCHANGED <<dlg, acting, banner>>

ApplicationsQueuePage ==
  \/ HeaderSaveNotes
  \/ \E to \in {"OPEN", "CLOSED"} : ApplicationsQueueDecide(to) \/ HeaderSaveStatus(to)
  \/ UndoDecision \/ BannerExpires
  \/ \E c \in calls : \/ ApplicationsQueueDecided(c) \/ DecisionUndone(c)
                      \/ QueueStatusSaved(c) \/ HeaderNotesSaved(c)

-----------------------------------------------------------------------------
(* Companies.                                                               *)

\* The buttons are disabled only while the company on screen is the acting one.
CompaniesQueueDecide(kind, op) ==
  /\ At("companiesQueue") /\ selected # none /\ InList(list, selected) /\ acting # selected
  /\ acting' = selected
  /\ Send(kind, op, RowOf(list, selected), none)
  /\ UNCHANGED <<place, view, dlg, busy, banner>>

\* advance runs on the rows of the moment the button was pressed.
CompaniesQueueDecided(c) ==
  /\ c.kind \in {"queueInvite", "queueTurnDown"}
  /\ Answered(c, c.kind) /\ Done(c)
  /\ IF Succeeded(c) THEN Advance(c.row, c.saw.seen) ELSE SetList(list)
  /\ acting' = none
  /\ UNCHANGED <<dlg, busy, banner>>

CompaniesQueuePage ==
  \/ CompaniesQueueDecide("queueInvite", "edit") \/ CompaniesQueueDecide("queueTurnDown", "delete")
  \/ \E c \in calls : CompaniesQueueDecided(c)

=============================================================================
