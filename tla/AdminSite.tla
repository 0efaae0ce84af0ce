------------------------------ MODULE AdminSite ------------------------------
(***************************************************************************)
(* The administrator's pages together: a behaviour is about one of them,   *)
(* while its list, its pane, its dialogs, the requests of its handlers and *)
(* the server take their steps in any order.                               *)
(***************************************************************************)
EXTENDS ReviewQueues

PageStep ==
  \/ JobsPage \/ ApplicationsPage \/ CandidatesPage \/ CompaniesPage \/ PendingPage
  \/ InvitesPage \/ JobsQueuePage \/ ApplicationsQueuePage \/ CompaniesQueuePage

Next ==
  \/ ServePage \/ LandPage \/ PageFails \/ ScrollToEnd \/ Retry
  \/ PaneFetched \/ PaneFails
  \/ \E id \in Id \cup {none} : Select(id)
  \/ \E k \in Dialogs : Dismiss(k)
  \/ PageStep
  \/ \E c \in calls : Serve(c) \/ Fail(c) \/ AnsweredLate(c)
  \/ Leave \/ Return

\* A page of rows that was asked for is answered or fails.
Spec == InitConsole /\ [][Next]_vars /\ WF_vars(ServePage) /\ WF_vars(LandPage \/ PageFails)

-----------------------------------------------------------------------------
(* Properties.                                                              *)

\* A skeleton, or the spinner below the rows, stands for a page under way: a request that was
\* refused, dropped or failed never leaves one up (inFlight, useInfiniteList).
SkeletonMeansFetching == Here /\ (list.isLoading \/ list.isFetchingMore) => list.inFlight

\* The record on the pane is the selected one, whatever was fetched for an earlier one
\* (RecordPane's effect, with its abort).
PaneShowsItsRecord == Here /\ PaneValue # none => PaneValue.id = selected

\* The button of a confirmation is disabled exactly while its request is under way, and so are
\* the row buttons of pending companies and invites: no flag is left up, none is taken down by
\* the answer to something else, and none is up for two requests.
UnderWay(kinds) == {c \in calls : c.kind \in kinds /\ c.visit = visit}
Confirmed == {"jobReject", "listDelete", "pendingReject", "inviteRevoke", "inviteDelete"}
Acted     == {"pendingApprove", "inviteResend"}
FlagsMatchCalls ==
  Here => /\ busy["confirm"] = (UnderWay(Confirmed) # {})
          /\ home \in {"pending", "invites"} =>
               (acting = none /\ UnderWay(Acted) = {}) \/ {c.row : c \in UnderWay(Acted)} = {acting}
          /\ \A kinds \in {Confirmed, Acted} : Cardinality(UnderWay(kinds)) <= 1

\* While the administrator stays on a page, a row leaves its list only with a page that takes
\* the place of all rows, or because of a request about that very row: late answers of other
\* handlers take nothing away.
RowsLeaveForAReason ==
  [][\A id \in Id :
       Here /\ ~away' /\ visit' = visit /\ InList(list, id) /\ ~InList(list', id) =>
         \/ list.inFlight /\ list.request.replace /\ ~list'.inFlight
         \/ \E c \in calls \cup calls' : c.visit = visit /\ c.row = id]_vars

\* A skeleton ends, whatever was typed, reloaded or answered meanwhile.
LoadingEnds == (Here /\ list.isLoading) ~> (away \/ ~list.isLoading)

=============================================================================
