----------------------------- MODULE CompanyBoard -----------------------------
(***************************************************************************)
(* The board of a company's job (pages/company/components/JobKanban.tsx):  *)
(* applications as cards in three columns, moved by dragging.  A move is   *)
(* shown at once and taken back when its request fails.  One pointer drags *)
(* at a time.                                                              *)
(*                                                                         *)
(* A column is the set of its cards: their order within it, which          *)
(* localStorage keeps, never decides in which column a card is.            *)
(***************************************************************************)
EXTENDS ScreenFrame

Columns   == <<"APPROVED_BY_ADMIN", "HIRED", "REJECTED">>
Droppable == {"HIRED", "REJECTED"}
Column    == {Columns[i] : i \in 1..Len(Columns)}
Cards     == DOMAIN server   \* of a story about the board: the status of every application

NoOrder == [col \in Column |-> {}]

\* The n-th board on screen: apps is empty until it has loaded.
MaxMounts == 2
Board(n) ==
  [shown |-> "loading", mount |-> n, apps |-> <<>>, order |-> NoOrder, drag |-> none,
   drawer |-> none]

Holding(order, card) == {col \in Column : card \in order[col]}
Without(cards, card) == cards \ {card}

BuildOrder(apps) == [col \in Column |-> {card \in DOMAIN apps : apps[card] = col}]

\* A load that overtakes a move still under way shows what that move is about to change.
BoardLoads ==
  /\ On("board") /\ ui.shown = "loading"
  /\ ui' = [ui EXCEPT !.shown = "board", !.apps = server,
              !.order = BuildOrder(server)]
  /\ doubtful' = (doubtful \/ \E c \in wire : c.answer = none)
  /\ UNCHANGED <<story, server, wire, sent>>

BoardFails == On("board") /\ ui.shown = "loading" /\ Local([ui EXCEPT !.shown = "error"])

\* The other tab takes the board away, with what it was dragging.
SwitchTab ==
  /\ On("board")
  /\ \/ ui.shown # "away" /\ Local([Board(ui.mount) EXCEPT !.shown = "away"])
     \/ ui.shown = "away" /\ ui.mount < MaxMounts /\ Local(Board(ui.mount + 1))

\* A drag starts in the first column that holds the card.
PointerDown(card) ==
  /\ On("board") /\ ui.shown = "board" /\ ui.drag = none /\ ui.drawer = none
  /\ \E i \in 1..Len(Columns) :
       /\ card \in ui.order[Columns[i]]
       /\ \A j \in 1 .. i - 1 : card \notin ui.order[Columns[j]]
       /\ Local([ui EXCEPT !.drag = [card |-> card, status |-> ui.apps[card],
                                     start |-> Columns[i]]])

\* Released where it was pressed: the drawer opens.  Released elsewhere: nothing.
Click ==
  /\ On("board") /\ ui.drag # none
  /\ \/ Local([ui EXCEPT !.drag = none, !.drawer = ui.drag.card])
     \/ Local([ui EXCEPT !.drag = none])

CloseDrawer == On("board") /\ ui.drawer # none /\ Local([ui EXCEPT !.drawer = none])

Place(order, col, card) == [order EXCEPT ![col] = @ \cup {card}]

\* Dropped in the column it came from, wherever in it.
Reorder ==
  /\ On("board") /\ ui.drag # none
  /\ Local([ui EXCEPT !.drag = none, !.order = Place(@, ui.drag.start, ui.drag.card)])

\* The move is shown before it is asked for; the request remembers the whole order.  Two moves
\* of one card may be carried out in either order.
MoveTo(col) ==
  /\ On("board") /\ ui.drag # none /\ col \in Droppable \ {ui.drag.start}
  /\ LET d    == ui.drag
         bare == [ui.order EXCEPT ![d.start] = Without(@, d.card)]
     IN  /\ ui' = [ui EXCEPT !.drag = none, !.order = Place(bare, col, d.card),
                     !.apps[d.card] = col]
         /\ Send("move", [card |-> d.card, from |-> d.status, to |-> col, snapshot |-> ui.order,
                          mount |-> ui.mount])
         /\ doubtful' = (doubtful \/ \E c \in wire : c.body.card = d.card)

MoveServed(c) ==
  /\ c.kind = "move"
  /\ \/ Serve(c, [code |-> "moved"], [server EXCEPT ![c.body.card] = c.body.to])
     \/ Serve(c, [code |-> "refused"], server)

\* The board that made the move is still on screen.
Mine(c) == ui.shown = "board" /\ ui.mount = c.body.mount

MoveSaved(c) ==
  /\ c.kind = "move" /\ c.answer = [code |-> "moved"] /\ Take(c) /\ UNCHANGED doubtful
  /\ ui' = IF Mine(c) THEN [ui EXCEPT !.apps[c.body.card] = c.body.to] ELSE ui

\* Mutant: the card is taken out of its new column and nothing puts it back.
MoveFailsLosing(c) ==
  /\ c.kind = "move" /\ c.answer \notin {none, [code |-> "moved"]} /\ Take(c)
  /\ ui' = IF Mine(c)
           THEN [ui EXCEPT !.apps[c.body.card] = c.body.from,
                           !.order[c.body.to] = Without(@, c.body.card)]
           ELSE ui
  /\ UNCHANGED doubtful

\* Mutant: only the status is taken back, the card stays where it was dropped.
MoveFailsInPlace(c) ==
  /\ c.kind = "move" /\ c.answer \notin {none, [code |-> "moved"]} /\ Take(c)
  /\ ui' = IF Mine(c) THEN [ui EXCEPT !.apps[c.body.card] = c.body.from] ELSE ui
  /\ UNCHANGED doubtful

\* A move that failed puts every card back where it was when the move was made: other moves made
\* since are taken back with it, and a card that is being dragged may change its column.
MoveFails(c) ==
  /\ c.kind = "move" /\ c.answer \notin {none, [code |-> "moved"]} /\ Take(c)
  /\ IF Mine(c)
     THEN /\ ui' = [ui EXCEPT !.apps[c.body.card] = c.body.from, !.order = c.body.snapshot]
          /\ doubtful' = (doubtful \/ sent > c.n + 1 \/ ui.drag # none)
     ELSE UNCHANGED <<ui, doubtful>>

BoardStep ==
  /\ On("board")
  /\ \/ BoardLoads \/ BoardFails \/ SwitchTab
     \/ \E card \in DOMAIN ui.apps : PointerDown(card)
     \/ Click \/ CloseDrawer \/ Reorder
     \/ \E col \in Droppable : MoveTo(col)
     \/ \E c \in wire : MoveServed(c) \/ MoveSaved(c) \/ MoveFails(c)

=============================================================================
