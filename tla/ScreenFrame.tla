----------------------------- MODULE ScreenFrame -----------------------------
(***************************************************************************)
(* The frame shared by the screens of candidates, companies and visitors:  *)
(* one component on screen with its state (ui), the part of the database   *)
(* it is about (server), and the requests its handlers sent (wire).  A     *)
(* handler runs to its await in one step, the server carries the request   *)
(* out in another, and the handler goes on in a third; an answer may be    *)
(* lost on the way, or the request itself.                                 *)
(***************************************************************************)
EXTENDS Naturals, Sequences, FiniteSets

CONSTANTS none,    \* JavaScript's null
          Stories  \* what behaviours are about: a set of Story

\* The screen, the requests its handlers may send, and where ui and server start.
ScreenNames == {"wizard", "form", "board", "application", "profile"}

ASSUME ScreenAssumption ==
  \A s \in Stories : s.screen \in ScreenNames /\ s.calls \in Nat

VARIABLES
  story,    \* the story told
  ui,       \* the state of the component
  server,   \* the rows it is about
  wire,     \* requests of its handlers that were not answered yet
  sent,     \* how many were sent
  doubtful  \* history: what is shown may lag behind the server, and the code has no way to know

vars == <<story, ui, server, wire, sent, doubtful>>

On(screen) == story.screen = screen

\* An axios call of a handler, with what it carries.
Send(kind, body) ==
  /\ sent < story.calls
  /\ sent' = sent + 1
  /\ wire' = wire \cup {[n |-> sent, kind |-> kind, body |-> body, answer |-> none]}
  /\ UNCHANGED <<story, server>>

\* The server answers a request that it left the rows as they are, or changed them.
Serve(c, a, rows) ==
  /\ c.answer = none
  /\ wire' = (wire \ {c}) \cup {[c EXCEPT !.answer = a]}
  /\ server' = rows
  /\ UNCHANGED <<story, ui, sent, doubtful>>

\* The connection breaks before the request was carried out, or after.
Broken == [code |-> "broken"]
Break(c) ==
  /\ c.answer # Broken
  /\ wire' = (wire \ {c}) \cup {[c EXCEPT !.answer = Broken]}
  /\ doubtful' = (doubtful \/ c.answer # none)
  /\ UNCHANGED <<story, ui, server, sent>>

\* A handler goes on after its await.
Take(c) == /\ c.answer # none /\ wire' = wire \ {c}
           /\ UNCHANGED <<story, server, sent>>

\* A step of the component alone.
Local(state) == ui' = state /\ UNCHANGED <<story, server, wire, sent, doubtful>>

=============================================================================
