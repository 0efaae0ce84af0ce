------------------------------ MODULE MCScreens ------------------------------
(***************************************************************************)
(* Each screen with a request that may fail and one that follows: the      *)
(* wizard for a visitor and a member whose profile holds a phone the       *)
(* wizard refuses, every form, two cards, two saves of an application and  *)
(* three of a profile, and three moves on the board, which may cross.      *)
(***************************************************************************)
EXTENDS Screens

Tell(screen, calls, state, rows) ==
  [screen |-> screen, calls |-> calls, ui |-> state, server |-> rows]

MCStories ==
  {Tell("wizard", 1, Wizard(FALSE), [application |-> none, phone |-> "refused", resume |-> TRUE]),
   Tell("wizard", 2, Wizard(TRUE), [application |-> none, phone |-> none, resume |-> FALSE]),
   Tell("wizard", 2, Wizard(TRUE), [application |-> "locked", phone |-> "accepted", resume |-> TRUE])}
    \cup {Tell("form", 2, Blank(page), [token |-> "open", effects |-> 0]) : page \in FormPages}
    \cup {Tell("board", 3, Board(1), <<"APPROVED_BY_ADMIN", "APPROVED_BY_ADMIN">>)}
    \cup {Tell("application", 2, Detail,
               [answer |-> 0, resume |-> 0, editable |-> TRUE, exists |-> TRUE])}
    \cup {Tell("profile", 2, Desk("page"), [name |-> 0, phone |-> 0, resume |-> 1, rev |-> 0]),
          Tell("profile", 3, Desk("dashboard"), [name |-> 1, phone |-> 0, resume |-> 0, rev |-> 0])}

=============================================================================
