--------------------------- MODULE SessionRegistry ---------------------------
(***************************************************************************)
(* What the account's owner is promised: a set of open sessions.  Logging  *)
(* in opens one, and only that does.  Log-out, revocation and expiry end   *)
(* one, "log out everywhere" and a detected replay end all; a password     *)
(* reset ends all, a password change all but the session it came from.  A  *)
(* log-out with a token that has been rotated ends none.                   *)
(***************************************************************************)
EXTENDS Naturals

CONSTANT Names

VARIABLES sessions, opened, password

Init == sessions = {} /\ opened = {} /\ password = 0

LogIn(s) ==
    /\ s \notin opened
    /\ sessions' = sessions \cup {s}
    /\ opened' = opened \cup {s}
    /\ UNCHANGED password

End(s) == sessions' = sessions \ {s} /\ UNCHANGED <<opened, password>>

EndAll == sessions' = {} /\ UNCHANGED <<opened, password>>

ChangePassword(s) ==
    /\ s \in sessions
    /\ sessions' = {s}
    /\ password' = password + 1
    /\ UNCHANGED opened

ResetPassword ==
    /\ sessions' = {}
    /\ password' = password + 1
    /\ UNCHANGED opened

Next ==
    \/ \E s \in Names : LogIn(s) \/ End(s) \/ ChangePassword(s)
    \/ EndAll \/ ResetPassword

Spec == Init /\ [][Next]_<<sessions, opened, password>>
=============================================================================
