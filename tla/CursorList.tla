----------------------------- MODULE CursorList -----------------------------
(***************************************************************************)
(* useInfiniteList: the list every page with a table or a rail keeps, one  *)
(* page of rows at a time.  A list is a record; each callback of the hook  *)
(* is an operator from lists to lists.  inFlight is the hook's ref of the  *)
(* same name, request the call it stands for: its cursor, whether it       *)
(* replaces the rows, the query of the fetcher it was sent with and, once  *)
(* the server has read it, the page on its way back.                       *)
(***************************************************************************)
EXTENDS Naturals, Sequences, FiniteSets

CONSTANT none  \* JavaScript's null

\* The n-th of a set of numbers, from the least on, and the rows of s at some places, in order
\* (a SelectSeq that says which places it keeps).
Nth(S, n) == CHOOSE x \in S : Cardinality({y \in S : y < x}) = n - 1
RowsAt(s, places) == [n \in 1..Cardinality(places) |-> s[Nth(places, n)]]

\* initialState(); a mounting list shows a skeleton.
EmptyList == [items |-> <<>>, cursor |-> none, hasMore |-> TRUE, isLoading |-> TRUE,
              isFetchingMore |-> FALSE, error |-> FALSE, inFlight |-> FALSE,
              request |-> none]

\* fetchPage: nothing while another page is in flight.
FetchPage(l, cursor, replace, showLoading, query) ==
  IF l.inFlight THEN l
  ELSE [l EXCEPT !.inFlight = TRUE,
                 !.request = [cursor |-> cursor, replace |-> replace, query |-> query,
                              page |-> none],
                 !.isLoading = IF replace THEN showLoading ELSE @,
                 !.isFetchingMore = IF replace THEN @ ELSE TRUE,
                 !.error = FALSE]

\* reload, and the effect of a new fetcher: the rows stay on screen until the page arrives.
\* The state is reset even when the fetch is refused because one is in flight.
Reload(l, query) ==
  FetchPage([EmptyList EXCEPT !.items = l.items, !.inFlight = l.inFlight, !.request = l.request],
            none, TRUE, l.items = <<>>, query)

Mounted(query) == Reload(EmptyList, query)

\* The sentinel below the rows came into view.
WantsMore(l) == ~l.inFlight /\ l.hasMore /\ l.cursor # none
FetchMore(l, query) == FetchPage(l, l.cursor, FALSE, FALSE, query)

Served(l, page) == [l EXCEPT !.request.page = page, !.request.query = none]

\* Mutant: only a first page takes the skeleton down.
LandedBelow(l) ==
  LET page == l.request.page
  IN  [l EXCEPT !.items = IF l.request.replace THEN page.items ELSE @ \o page.items,
                !.cursor = page.next, !.hasMore = page.next # none,
                !.isLoading = @ /\ ~l.request.replace, !.isFetchingMore = FALSE, !.error = FALSE,
                !.inFlight = FALSE, !.request = none]

\* The page arrives ...
Landed(l) ==
  LET page == l.request.page
  IN  [l EXCEPT !.items = IF l.request.replace THEN page.items ELSE @ \o page.items,
                !.cursor = page.next, !.hasMore = page.next # none,
                !.isLoading = FALSE, !.isFetchingMore = FALSE, !.error = FALSE,
                !.inFlight = FALSE, !.request = none]

\* Mutant: the spinner below the rows stays after a failure.
FailedSpinning(l) == [l EXCEPT !.isLoading = FALSE, !.error = TRUE, !.inFlight = FALSE, !.request = none]

\* ... or the request fails.
Failed(l) == [l EXCEPT !.isLoading = FALSE, !.isFetchingMore = FALSE, !.error = TRUE,
                       !.inFlight = FALSE, !.request = none]

PrependItem(l, row) == [l EXCEPT !.items = <<row>> \o @]
UpdateItem(l, id, New(_)) ==
  [l EXCEPT !.items = [i \in DOMAIN l.items |->
                         IF l.items[i].id = id THEN New(l.items[i]) ELSE l.items[i]]]
RemoveItem(l, id) == [l EXCEPT !.items = RowsAt(@, {i \in DOMAIN @ : @[i].id # id})]

\* ListStateSwitch: what a page shows in place of, or around, its rows.
ListState(l, shown) ==
  CASE l.isLoading -> "skeleton"
    [] ~l.isLoading /\ l.error -> "error"
    [] ~l.isLoading /\ ~l.error /\ shown = <<>> -> "empty"
    [] OTHER -> "rows"

=============================================================================
