------------------------------ MODULE ScreensProofs ------------------------------
(***************************************************************************)
(* Proofs of the properties of Screens for every story: any number of      *)
(* requests, any cards, any rows to begin with.                            *)
(*                                                                         *)
(* The screens share their variables, so the invariant has a part for each *)
(* screen, which says something only of the stories about that screen, and *)
(* a frame that holds in every story.                                      *)
(***************************************************************************)
EXTENDS Screens, FiniteSetTheorems, TLAPS

(* What the handlers of a screen send.                                     *)
Kinds(screen) ==
  CASE screen = "wizard"      -> {"apply"}
    [] screen = "form"        -> {"submit"}
    [] screen = "board"       -> {"move"}
    [] screen = "application" -> {"patch", "withdraw"}
    [] screen = "profile"     -> {"profile"}

(* Requests are numbered in the order they are sent.                       *)
FrameInv ==
  /\ story \in Stories
  /\ sent \in Nat
  /\ \A c \in wire : /\ {"n", "kind", "body", "answer"} \subseteq DOMAIN c
                     /\ c.n \in Nat /\ c.n < sent
                     /\ c.kind \in Kinds(story.screen)
  /\ \A c, d \in wire : c.n = d.n => c = d

Answered(c, code) == c.answer # none /\ c.answer.code = code
OneRequest == \A c, d \in wire : c = d

WizardInv ==
  /\ {"shown", "member", "step", "maxStep", "me", "refused", "file", "saved", "resumeError",
      "consents", "reading", "claim", "submitting"} \subseteq DOMAIN ui
  /\ "application" \in DOMAIN server
  /\ ui.claim \in {"off", "weak", "strong"}
  /\ OneRequest /\ (wire # {} => ui.submitting)
  /\ \A c \in wire : WholeApplication(c.body)
  /\ \A c \in wire : Answered(c, "created") => server.application # none
  /\ ui.shown = "success" => server.application # none

FormInv ==
  /\ {"page", "step", "shown", "refused", "logo", "signed", "consents", "reading", "submitting",
      "hint"} \subseteq DOMAIN ui
  /\ {"token", "effects"} \subseteq DOMAIN server /\ server.effects \in Nat
  /\ ui.page = "company" /\ ui.step # 1 => Step1Holds(ui)
  /\ OneRequest
  /\ wire # {} => IF ui.page = "activate" THEN ui.shown = "checking"
                  ELSE ui.shown = "form" /\ ui.submitting
  /\ \A c \in wire : c.body.page = ui.page /\ WholeEntry(c.body)
  /\ \A c \in wire : Answered(c, "created") => server.effects > 0
  /\ ui.shown = "success" => server.effects > 0
  /\ ui.page # "companyProfile" /\ ~doubtful /\ server.effects > 0 =>
       /\ server.effects = 1
       /\ ui.shown \in {"success", "left"} \/ \E c \in wire : Answered(c, "created")

(* The board.                                                              *)
Covers(order) == \A card \in Cards : \E col \in Column : card \in order[col]

MoveOK(c) ==
  /\ c.body.card \in Cards /\ c.body.from \in Column /\ c.body.to \in Column
  /\ c.body.snapshot \in [Column -> SUBSET Cards] /\ Covers(c.body.snapshot)
  /\ c.body.mount \in Nat /\ c.body.mount <= ui.mount
  /\ ui.shown = "loading" => c.body.mount < ui.mount

Moved == [code |-> "moved"]

(* A move of the board on screen was shown, and is taken back to what was  *)
(* shown before as long as it is the last.                                 *)
MoveShown(c) ==
  /\ ui.apps[c.body.card] = c.body.to
  /\ server[c.body.card] = IF c.answer = Moved THEN c.body.to ELSE c.body.from
  /\ c.n + 1 = sent =>
       c.body.snapshot = BuildOrder([ui.apps EXCEPT ![c.body.card] = c.body.from])

BoardAgrees ==
  /\ ui.order = BuildOrder(ui.apps)
  /\ ui.drag # none => /\ ui.drag.status = ui.apps[ui.drag.card]
                       /\ ui.drag.start = ui.apps[ui.drag.card]
  /\ \A c \in wire : IF Mine(c) THEN MoveShown(c) ELSE c.answer # none
  /\ \A card \in Cards :
       (\A c \in wire : Mine(c) => c.body.card # card) => ui.apps[card] = server[card]

BoardInv ==
  /\ {"shown", "mount", "apps", "order", "drag", "drawer"} \subseteq DOMAIN ui
  /\ server \in [Cards -> Column]
  /\ ui.mount \in Nat
  /\ ui.order \in [Column -> SUBSET Cards]
  /\ ui.shown = "board" => ui.apps \in [Cards -> Column] /\ Covers(ui.order)
  /\ ui.drag # none => /\ ui.shown = "board"
                       /\ ui.drag.card \in Cards
                       /\ ui.drag.status \in Column /\ ui.drag.start \in Column
  /\ \A c \in wire : MoveOK(c)
  /\ ~doubtful => /\ \A c, d \in wire : c.body.card = d.body.card => c = d
                  /\ ui.shown = "board" => BoardAgrees

(* The pages of a candidate.                                               *)
Alike(row, other) ==
  row.answer = other.answer /\ row.resume = other.resume /\ row.exists = other.exists

DetailRequestOK(c) ==
  /\ c.kind = "patch" => /\ ui.saving
                         /\ c.body.answer \in {none, 0, 1} /\ c.body.resume \in BOOLEAN
                         /\ Answered(c, "saved") => /\ c.answer.row \in ApplicationRow
                                                    /\ Alike(c.answer.row, server)
  /\ c.kind = "withdraw" => ui.withdrawing

Supersedes(c) ==
  \/ c.kind = "patch" /\ Answered(c, "saved")
  \/ c.kind = "withdraw" /\ Answered(c, "withdrawn")

DetailInv ==
  /\ {"shown", "data", "form", "saving", "confirm", "withdrawing", "downloading"} \subseteq DOMAIN ui
  /\ server \in ApplicationRow
  /\ ui.shown = "detail" => ui.data \in ApplicationRow
  /\ ui.form = none \/ ui.form \in DetailEdit
  /\ ui.saving => ui.form # none /\ ~ui.confirm
  /\ ui.withdrawing => ui.confirm
  /\ ui.shown = "loading" => wire = {}
  /\ OneRequest
  /\ \A c \in wire : DetailRequestOK(c)
  /\ ui.shown = "detail" /\ ~doubtful =>
       Alike(ui.data, server) \/ \E c \in wire : Supersedes(c)

SaveOK(c) ==
  /\ c.body.field \in {"name", "phone", "resume"}
  /\ c.body.value \in IF c.body.field = "resume" THEN 0..2 ELSE {0, 1}
  /\ Answered(c, "saved") => /\ c.answer.row \in ProfileRow
                             /\ c.answer.row.rev <= server.rev
                             /\ c.answer.row.rev = server.rev => c.answer.row = server

ProfileInv ==
  /\ {"page", "shown", "me", "name", "phone", "busy", "renaming", "expanded", "landed"}
       \subseteq DOMAIN ui
  /\ server \in ProfileRow
  /\ ui.name \in {0, 1} /\ ui.phone \in {0, 1} /\ ui.expanded \in {none, "phone", "resume"}
  /\ ui.shown # "profile" => wire = {}
  /\ ui.shown = "profile" => ui.me \in ProfileRow /\ ui.landed \in Nat
  /\ \A c \in wire : SaveOK(c)
  /\ ui.shown = "profile" /\ ~doubtful =>
       /\ ui.landed <= server.rev
       /\ IF ui.landed = server.rev THEN ui.me = server
          ELSE \E c \in wire : Answered(c, "saved") /\ c.answer.row = server

ScreenInv ==
  /\ FrameInv
  /\ On("wizard")      => WizardInv
  /\ On("form")        => FormInv
  /\ On("board")       => BoardInv
  /\ On("application") => DetailInv
  /\ On("profile")     => ProfileInv

-----------------------------------------------------------------------------
(* What the steps of the frame do to the requests under way.                *)

(* A step of the component alone.                                           *)
LEMMA LocalFrame ==
  ASSUME FrameInv, NEW state, Local(state)
  PROVE  /\ FrameInv' /\ ui' = state
         /\ UNCHANGED <<story, server, wire, sent, doubtful>>
  BY DEF Local, FrameInv

(* A handler sends a request.                                               *)
LEMMA SendFrame ==
  ASSUME FrameInv, NEW kind, NEW body, Send(kind, body), kind \in Kinds(story.screen)
  PROVE  /\ FrameInv' /\ UNCHANGED <<story, server>> /\ sent' = sent + 1
         /\ \E r : /\ wire' = wire \cup {r}
                   /\ r.n = sent /\ r.kind = kind /\ r.body = body /\ r.answer = none
  <1> DEFINE r == [n |-> sent, kind |-> kind, body |-> body, answer |-> none]
  <1>1. /\ wire' = wire \cup {r} /\ sent' = sent + 1 /\ UNCHANGED <<story, server>>
    BY DEF Send
  <1>2. /\ r.n = sent /\ r.kind = kind /\ r.body = body /\ r.answer = none
        /\ {"n", "kind", "body", "answer"} \subseteq DOMAIN r
    OBVIOUS
  <1> HIDE DEF r
  <1>3. FrameInv'
    BY <1>1, <1>2 DEF FrameInv
  <1>4. QED
    BY <1>1, <1>2, <1>3

(* A request is answered, by the server or by the connection.               *)
LEMMA AnswerFrame ==
  ASSUME FrameInv, NEW c \in wire, NEW a, UNCHANGED <<story, sent>>,
         wire' = (wire \ {c}) \cup {[c EXCEPT !.answer = a]}
  PROVE  /\ FrameInv'
         /\ \E r : /\ wire' = (wire \ {c}) \cup {r}
                   /\ r.n = c.n /\ r.kind = c.kind /\ r.body = c.body /\ r.answer = a
  <1> DEFINE r == [c EXCEPT !.answer = a]
  <1>1. wire' = (wire \ {c}) \cup {r}
    OBVIOUS
  <1>2. /\ r.n = c.n /\ r.kind = c.kind /\ r.body = c.body /\ r.answer = a
        /\ DOMAIN r = DOMAIN c
    BY DEF FrameInv
  <1> HIDE DEF r
  <1>3. FrameInv'
    BY <1>1, <1>2 DEF FrameInv
  <1>4. QED
    BY <1>1, <1>2, <1>3

LEMMA ServeFrame ==
  ASSUME FrameInv, NEW c \in wire, NEW a, NEW rows, Serve(c, a, rows)
  PROVE  /\ FrameInv' /\ UNCHANGED <<story, ui, sent, doubtful>>
         /\ c.answer = none /\ server' = rows
         /\ \E r : /\ wire' = (wire \ {c}) \cup {r}
                   /\ r.n = c.n /\ r.kind = c.kind /\ r.body = c.body /\ r.answer = a
  <1>1. /\ UNCHANGED <<story, ui, sent, doubtful>> /\ c.answer = none /\ server' = rows
        /\ wire' = (wire \ {c}) \cup {[c EXCEPT !.answer = a]}
    BY DEF Serve
  <1>2. QED
    BY <1>1, AnswerFrame

LEMMA BreakFrame ==
  ASSUME FrameInv, NEW c \in wire, Break(c)
  PROVE  /\ FrameInv' /\ UNCHANGED <<story, ui, server, sent>>
         /\ doubtful' = (doubtful \/ c.answer # none)
         /\ \E r : /\ wire' = (wire \ {c}) \cup {r}
                   /\ r.n = c.n /\ r.kind = c.kind /\ r.body = c.body /\ r.answer = Broken
  <1>1. /\ UNCHANGED <<story, ui, server, sent>> /\ doubtful' = (doubtful \/ c.answer # none)
        /\ wire' = (wire \ {c}) \cup {[c EXCEPT !.answer = Broken]}
    BY DEF Break
  <1>2. QED
    BY <1>1, AnswerFrame

LEMMA TakeFrame ==
  ASSUME FrameInv, NEW c \in wire, Take(c)
  PROVE  /\ FrameInv' /\ UNCHANGED <<story, server, sent>>
         /\ c.answer # none /\ wire' = wire \ {c}
  BY DEF Take, FrameInv

(* Of a screen that sends one request at a time, the request under way.     *)
LEMMA TheRequest ==
  ASSUME OneRequest, NEW c \in wire, NEW r
  PROVE  /\ wire \ {c} = {} /\ (wire \ {c}) \cup {r} = {r}
  BY DEF OneRequest

-----------------------------------------------------------------------------
(* The wizard of an application.                                            *)

(* A step of the wizard that leaves the request and what it is about alone. *)
LEMMA WizardLocal ==
  ASSUME FrameInv, WizardInv, NEW state, Local(state),
         DOMAIN ui \subseteq DOMAIN state, state.claim \in {"off", "weak", "strong"},
         state.submitting = ui.submitting, state.shown = "success" => ui.shown = "success"
  PROVE  FrameInv' /\ WizardInv'
  <1>1. /\ FrameInv' /\ ui' = state /\ UNCHANGED <<story, server, wire, sent, doubtful>>
    BY LocalFrame
  <1>2. WizardInv'
    BY <1>1 DEF WizardInv, OneRequest, Answered
  <1>3. QED
    BY <1>1, <1>2

LEMMA WizardEdits ==
  ASSUME FrameInv, WizardInv,
         \/ JobFetched \/ SessionResolves \/ MeFetched \/ MeFails
         \/ TypeIdentity \/ IngestResume \/ ReplaceResume \/ Consent \/ CloseLegalModal
         \/ ClaimAccount \/ HandleNext \/ HandleBack \/ \E s \in 1..TOTAL_STEPS : JumpTo(s)
  PROVE  FrameInv' /\ WizardInv'
  <1>0. /\ {"shown", "member", "step", "maxStep", "me", "refused", "file", "saved",
            "resumeError", "consents", "reading", "claim", "submitting"} \subseteq DOMAIN ui
        /\ ui.claim \in {"off", "weak", "strong"}
    BY DEF WizardInv
  <1>1. CASE JobFetched
    BY <1>0, <1>1, WizardLocal DEF JobFetched
  <1>2. CASE SessionResolves
    BY <1>0, <1>2, WizardLocal DEF SessionResolves
  <1>3. CASE MeFetched
    BY <1>0, <1>3, WizardLocal DEF MeFetched
  <1>4. CASE MeFails
    BY <1>0, <1>4, WizardLocal DEF MeFails
  <1>5. CASE TypeIdentity
    BY <1>0, <1>5, WizardLocal DEF TypeIdentity
  <1>6. CASE IngestResume
    BY <1>0, <1>6, WizardLocal DEF IngestResume
  <1>7. CASE ReplaceResume
    BY <1>0, <1>7, WizardLocal DEF ReplaceResume
  <1>8. CASE Consent
    BY <1>0, <1>8, WizardLocal DEF Consent
  <1>9. CASE CloseLegalModal
    BY <1>0, <1>9, WizardLocal DEF CloseLegalModal
  <1>10. CASE ClaimAccount
    BY <1>0, <1>10, WizardLocal DEF ClaimAccount
  <1>11. CASE HandleBack
    BY <1>0, <1>11, WizardLocal DEF HandleBack
  <1>12. CASE HandleNext
    <2> DEFINE w    == Looked(ui, ui.step)
               next == [w EXCEPT !.step = @ + 1]
               done == [next EXCEPT !.maxStep = MaxStep(next)]
    <2>1. /\ DOMAIN w = DOMAIN ui /\ w.claim = ui.claim /\ w.submitting = ui.submitting
          /\ w.shown = ui.shown
      BY <1>0 DEF Looked
    <2>2. Local(IF StepHolds(ui, ui.step) THEN done ELSE w)
      BY <1>12 DEF HandleNext
    <2> HIDE DEF w
    <2>3. /\ DOMAIN done = DOMAIN w /\ done.claim = w.claim /\ done.submitting = w.submitting
          /\ done.shown = w.shown
      BY <1>0, <2>1
    <2> HIDE DEF next, done
    <2>4. CASE StepHolds(ui, ui.step)
      <3>1. Local(done)
        BY <2>2, <2>4
      <3>2. QED
        BY <1>0, <2>1, <2>3, <3>1, WizardLocal
    <2>5. CASE ~StepHolds(ui, ui.step)
      <3>1. Local(w)
        BY <2>2, <2>5
      <3>2. QED
        BY <1>0, <2>1, <3>1, WizardLocal
    <2>6. QED
      BY <2>4, <2>5
  <1>13. ASSUME NEW target \in 1..TOTAL_STEPS, JumpTo(target)
         PROVE  FrameInv' /\ WizardInv'
    <2> DEFINE failing == {s \in ui.step .. target - 1 : ~StepHolds(ui, s)}
               stop    == CHOOSE s \in failing : \A t \in failing : s <= t
    <2>1. \/ Local([ui EXCEPT !.step = target])
          \/ Local(Looked([ui EXCEPT !.step = stop], stop))
      BY <1>13 DEF JumpTo
    <2> HIDE DEF failing, stop
    <2>2. CASE Local([ui EXCEPT !.step = target])
      BY <1>0, <2>2, WizardLocal
    <2>3. CASE Local(Looked([ui EXCEPT !.step = stop], stop))
      <3> DEFINE state == Looked([ui EXCEPT !.step = stop], stop)
      <3>1. /\ DOMAIN state = DOMAIN ui /\ state.claim = ui.claim
            /\ state.submitting = ui.submitting /\ state.shown = ui.shown
        BY <1>0 DEF Looked
      <3> HIDE DEF state
      <3>2. Local(state)
        BY <2>3 DEF state
      <3>3. QED
        BY <1>0, <3>1, <3>2, WizardLocal
    <2>4. QED
      BY <2>1, <2>2, <2>3
  <1>14. QED
    BY <1>1, <1>2, <1>3, <1>4, <1>5, <1>6, <1>7, <1>8, <1>9, <1>10, <1>11, <1>12, <1>13

(* What is sent is what every step was found to hold, and a password that   *)
(* is not weak.                                                             *)
LEMMA WholeWhenSent ==
  ASSUME WizardInv, Failing(ui) = {}, ui.member \/ ui.claim # "weak"
  PROVE  WholeApplication(Application(ui))
  <1>1. /\ StepHolds(ui, 1) /\ StepHolds(ui, 2) /\ StepHolds(ui, 3)
    BY DEF Failing, TOTAL_STEPS
  <1>2. ui.claim \in {"off", "weak", "strong"}
    BY DEF WizardInv
  <1>3. /\ "phone" \notin ui.refused /\ (ui.member \/ "email" \notin ui.refused)
        /\ ui.file \/ ui.saved
        /\ ui.member \/ ui.consents = Consents
    BY <1>1 DEF StepHolds, HasResume
  <1> DEFINE a == Application(ui)
  <1>4. /\ a.refused = ui.refused /\ a.member = ui.member /\ a.consents = ui.consents
        /\ a.resume = (ui.file \/ ui.saved)
        /\ a.password = IF ui.member \/ ui.claim = "off" THEN none ELSE ui.claim
    BY DEF Application
  <1> HIDE DEF a
  <1>5. a.password \in {none, "strong"}
    BY <1>2, <1>4
  <1>6. /\ "phone" \notin a.refused /\ (a.member \/ "email" \notin a.refused)
        /\ a.member \/ a.consents = Consents
    BY <1>3, <1>4
  <1>7. a.resume
    BY <1>3, <1>4
  <1>8. WholeApplication(a)
    BY <1>5, <1>6, <1>7 DEF WholeApplication
  <1>9. QED
    BY <1>8 DEF a

LEMMA WizardSubmits ==
  ASSUME FrameInv, WizardInv, On("wizard"), HandleFormSubmit
  PROVE  FrameInv' /\ WizardInv'
  <1>0. /\ {"shown", "member", "step", "maxStep", "me", "refused", "file", "saved",
            "resumeError", "consents", "reading", "claim", "submitting"} \subseteq DOMAIN ui
        /\ ui.claim \in {"off", "weak", "strong"}
    BY DEF WizardInv
  <1>1. CASE \E stop \in {FirstFailing(ui)} : Local(Looked([ui EXCEPT !.step = stop], stop))
    <2> PICK stop \in {FirstFailing(ui)} : Local(Looked([ui EXCEPT !.step = stop], stop))
      BY <1>1
    <2> DEFINE state == Looked([ui EXCEPT !.step = stop], stop)
    <2>1. /\ DOMAIN state = DOMAIN ui /\ state.claim = ui.claim
          /\ state.submitting = ui.submitting /\ state.shown = ui.shown
      BY <1>0 DEF Looked
    <2>2. Local(state)
      OBVIOUS
    <2> HIDE DEF state
    <2>3. QED
      BY <1>0, <2>1, <2>2, WizardLocal
  <1>2. CASE /\ Failing(ui) = {} /\ (ui.member \/ ui.claim # "weak")
             /\ ui' = [ui EXCEPT !.submitting = TRUE]
             /\ Send("apply", Application(ui)) /\ UNCHANGED doubtful
    <2>1. "apply" \in Kinds(story.screen)
      BY DEF On, Kinds
    <2>2. /\ FrameInv' /\ UNCHANGED server
          /\ \E r : /\ wire' = wire \cup {r} /\ r.body = Application(ui) /\ r.answer = none
      BY <1>2, <2>1, SendFrame
    <2>3. WholeApplication(Application(ui))
      BY <1>2, WholeWhenSent
    <2>4. wire = {}
      BY DEF HandleFormSubmit, SubmitOffered, WizardInv
    <2>5. /\ DOMAIN ui' = DOMAIN ui /\ ui'.claim = ui.claim /\ ui'.submitting
          /\ ui'.shown = ui.shown
      BY <1>0, <1>2
    <2>6. WizardInv'
      BY <2>2, <2>3, <2>4, <2>5 DEF WizardInv, OneRequest, Answered
    <2>7. QED
      BY <2>2, <2>6
  <1>3. QED
    BY <1>1, <1>2 DEF HandleFormSubmit

LEMMA WizardServed ==
  ASSUME FrameInv, WizardInv, NEW c \in wire, ApplicationServed(c)
  PROVE  FrameInv' /\ WizardInv'
  <1>1. PICK a, rows : /\ Serve(c, a, rows)
                       /\ rows.application = none => server.application = none
                       /\ a.code = "created" => rows.application # none
                       /\ DOMAIN rows = DOMAIN server
    <2>1. CASE Serve(c, [code |-> "created"], [server EXCEPT !.application = "editable"])
      <3> DEFINE rows == [server EXCEPT !.application = "editable"]
                 a    == [code |-> "created"]
      <3>1. rows.application # none /\ DOMAIN rows = DOMAIN server
        BY NoneAssumption DEF WizardInv
      <3>2. Serve(c, a, rows)
        BY <2>1
      <3> HIDE DEF a, rows
      <3>3. QED
        BY <3>1, <3>2
    <2>2. CASE server.application # none /\ Serve(c, [code |-> server.application], server)
      BY <2>2
    <2>3. CASE Serve(c, [code |-> "refused"], server)
      BY <2>3
    <2>4. QED
      BY <2>1, <2>2, <2>3 DEF ApplicationServed
  <1>2. /\ FrameInv' /\ UNCHANGED <<ui, doubtful>> /\ server' = rows
        /\ \E r : /\ wire' = (wire \ {c}) \cup {r} /\ r.body = c.body /\ r.answer = a
    BY <1>1, ServeFrame
  <1>3. PICK r : wire' = {r} /\ r.body = c.body /\ r.answer = a
    BY <1>2, TheRequest DEF WizardInv
  <1>4. WizardInv'
    BY <1>1, <1>2, <1>3 DEF WizardInv, OneRequest, Answered
  <1>5. QED
    BY <1>2, <1>4

LEMMA WizardAnswered ==
  ASSUME FrameInv, WizardInv, NEW c \in wire, ApplicationAnswered(c)
  PROVE  FrameInv' /\ WizardInv'
  <1>1. /\ FrameInv' /\ UNCHANGED server /\ c.answer # none /\ wire' = wire \ {c}
    BY TakeFrame DEF ApplicationAnswered
  <1>2. wire' = {}
    BY <1>1, TheRequest DEF WizardInv
  <1>3. /\ DOMAIN ui' = DOMAIN ui /\ ui'.claim = ui.claim
        /\ ui'.shown = "success" => c.answer.code = "created" \/ ui.shown = "success"
    BY DEF ApplicationAnswered, WizardInv
  <1>4. WizardInv'
    BY <1>1, <1>2, <1>3 DEF WizardInv, OneRequest, Answered
  <1>5. QED
    BY <1>1, <1>4

LEMMA WizardBreaks ==
  ASSUME FrameInv, WizardInv, NEW c \in wire, Break(c)
  PROVE  FrameInv' /\ WizardInv'
  <1>1. /\ FrameInv' /\ UNCHANGED <<ui, server>>
        /\ \E r : /\ wire' = (wire \ {c}) \cup {r} /\ r.body = c.body /\ r.answer = Broken
    BY BreakFrame
  <1>2. PICK r : wire' = {r} /\ r.body = c.body /\ r.answer = Broken
    BY <1>1, TheRequest DEF WizardInv
  <1>3. WizardInv'
    BY <1>1, <1>2 DEF WizardInv, OneRequest, Answered, Broken
  <1>4. QED
    BY <1>1, <1>3

LEMMA WizardKept ==
  ASSUME FrameInv, WizardInv, On("wizard"), WizardStep
  PROVE  FrameInv' /\ WizardInv'
  BY WizardEdits, WizardSubmits, WizardServed, WizardAnswered DEF WizardStep

-----------------------------------------------------------------------------
(* The forms.                                                               *)

(* A step of a form that leaves the request alone: it goes to no screen     *)
(* that follows an answer, and the second step of a registration stands on  *)
(* a first step that held.                                                  *)
LEMMA FormLocal ==
  ASSUME FrameInv, FormInv, NEW state, Local(state),
         DOMAIN ui \subseteq DOMAIN state, state.page = ui.page,
         wire # {} => state.shown = ui.shown /\ state.submitting = ui.submitting,
         state.shown = "success" => ui.shown = "success",
         ui.shown \in {"success", "left"} => state.shown = ui.shown,
         state.page = "company" /\ state.step # 1 => Step1Holds(state)
  PROVE  FrameInv' /\ FormInv'
  <1>1. /\ FrameInv' /\ ui' = state /\ UNCHANGED <<story, server, wire, sent, doubtful>>
    BY LocalFrame
  <1>2. FormInv'
    BY <1>1 DEF FormInv, OneRequest, Answered, Step1Holds, WholeEntry
  <1>3. QED
    BY <1>1, <1>2

(* A form is sent while nothing is under way and no effect is known.        *)
LEMMA FormSends ==
  ASSUME FrameInv, FormInv, On("form"), wire = {}, ui.shown \notin {"success", "left"},
         Send("submit", Entry(ui)), UNCHANGED doubtful, WholeEntry(Entry(ui)),
         DOMAIN ui \subseteq DOMAIN ui', ui'.page = ui.page, ui'.step = ui.step,
         ui'.refused = ui.refused, ui'.logo = ui.logo,
         IF ui.page = "activate" THEN ui'.shown = "checking"
         ELSE ui'.shown = "form" /\ ui'.submitting
  PROVE  FrameInv' /\ FormInv'
  <1>1. "submit" \in Kinds(story.screen)
    BY DEF On, Kinds
  <1>2. /\ FrameInv' /\ UNCHANGED server
        /\ \E r : /\ wire' = wire \cup {r} /\ r.body = Entry(ui) /\ r.answer = none
    BY <1>1, SendFrame
  <1>3. PICK r : wire' = {r} /\ r.body = Entry(ui) /\ r.answer = none
    BY <1>2
  <1>4. Entry(ui).page = ui.page
    BY DEF Entry
  <1>5. FormInv'
    BY <1>2, <1>3, <1>4 DEF FormInv, OneRequest, Answered, Step1Holds, WholeEntry
  <1>6. QED
    BY <1>2, <1>5

(* A submit button sends a form that holds, or shows what does not.         *)
LEMMA FormSubmits ==
  ASSUME FrameInv, FormInv, On("form"), ui.shown = "form", ui.page # "activate",
         ~ui.submitting, NEW holds, SubmitIf(holds), holds => WholeEntry(Entry(ui))
  PROVE  FrameInv' /\ FormInv'
  <1>0. {"page", "step", "shown", "refused", "logo", "signed", "consents", "reading",
         "submitting", "hint"} \subseteq DOMAIN ui
    BY DEF FormInv
  <1>1. CASE ~holds /\ Local([ui EXCEPT !.hint = "fields"])
    <2> DEFINE state == [ui EXCEPT !.hint = "fields"]
    <2>1. /\ DOMAIN state = DOMAIN ui /\ state.page = ui.page /\ state.step = ui.step
          /\ state.shown = ui.shown /\ state.submitting = ui.submitting
          /\ state.refused = ui.refused /\ state.logo = ui.logo
      OBVIOUS
    <2>2. Local(state)
      BY <1>1
    <2> HIDE DEF state
    <2>3. state.page = "company" /\ state.step # 1 => Step1Holds(state)
      BY <2>1 DEF FormInv, Step1Holds
    <2>4. QED
      BY <2>1, <2>2, <2>3, FormLocal
  <1>2. CASE /\ holds /\ ui' = [ui EXCEPT !.submitting = TRUE, !.hint = none]
             /\ Send("submit", Entry(ui)) /\ UNCHANGED doubtful
    <2>1. /\ DOMAIN ui' = DOMAIN ui /\ ui'.page = ui.page /\ ui'.step = ui.step
          /\ ui'.shown = ui.shown /\ ui'.submitting
          /\ ui'.refused = ui.refused /\ ui'.logo = ui.logo
      BY <1>0, <1>2
    <2>2. wire = {}
      BY DEF FormInv
    <2>3. QED
      BY <1>2, <2>1, <2>2, FormSends
  <1>3. QED
    BY <1>1, <1>2 DEF SubmitIf

(* The forms of one step send whether a validator refuses their fields.     *)
LEMMA WholeOfOneStep ==
  ASSUME ~ui.refused, ui.page # "company", ui.page \in Agreeing => ui.consents = Texts
  PROVE  WholeEntry(Entry(ui))
  BY DEF WholeEntry, Entry

LEMMA FormButtons ==
  ASSUME FrameInv, FormInv, On("form"),
         \/ RegisterSubmit \/ CandidateSubmit
         \/ ForgotSubmit \/ ResetSubmit \/ JobSubmit \/ ProfileSubmit
  PROVE  FrameInv' /\ FormInv'
  <1>1. CASE RegisterSubmit
    <2>1. /\ ui.page = "company" /\ ui.shown = "form" /\ ui.step = 2 /\ ~ui.submitting
          /\ SubmitIf(Step2Holds(ui))
      BY <1>1 DEF RegisterSubmit, Open
    <2>2. Step1Holds(ui)
      BY <2>1 DEF FormInv
    <2>3. Step2Holds(ui) => WholeEntry(Entry(ui))
      BY <2>2 DEF Step1Holds, Step2Holds, WholeEntry, Entry
    <2>4. QED
      BY <2>1, <2>3, FormSubmits
  <1>2. CASE CandidateSubmit
    <2>1. /\ ui.page = "candidate" /\ ui.shown = "form" /\ ~ui.submitting
          /\ SubmitIf(~ui.refused /\ ui.consents = Texts)
      BY <1>2 DEF CandidateSubmit, Open
    <2>2. ~ui.refused /\ ui.consents = Texts => WholeEntry(Entry(ui))
      BY <2>1, WholeOfOneStep
    <2>3. QED
      BY <2>1, <2>2, FormSubmits
  <1>3. CASE ForgotSubmit \/ ResetSubmit \/ JobSubmit \/ ProfileSubmit
    <2>1. /\ ui.page \in {"forgot", "reset", "job", "companyProfile"}
          /\ ui.shown = "form" /\ ~ui.submitting /\ SubmitIf(~ui.refused)
      BY <1>3 DEF ForgotSubmit, ResetSubmit, JobSubmit, ProfileSubmit, Open
    <2>2. ~ui.refused => WholeEntry(Entry(ui))
      BY <2>1, WholeOfOneStep DEF Agreeing
    <2>3. QED
      BY <2>1, <2>2, FormSubmits
  <1>4. QED
    BY <1>1, <1>2, <1>3

LEMMA FormActivates ==
  ASSUME FrameInv, FormInv, On("form"), Activate
  PROVE  FrameInv' /\ FormInv'
  <1>1. /\ ui.page = "activate" /\ ui.shown = "opened" /\ ui' = [ui EXCEPT !.shown = "checking"]
        /\ Send("submit", Entry(ui)) /\ UNCHANGED doubtful
    BY DEF Activate
  <1>2. /\ DOMAIN ui' = DOMAIN ui /\ ui'.page = ui.page /\ ui'.step = ui.step
        /\ ui'.shown = "checking" /\ ui'.refused = ui.refused /\ ui'.logo = ui.logo
    BY <1>1 DEF FormInv
  <1>3. wire = {}
    BY <1>1 DEF FormInv
  <1>4. WholeEntry(Entry(ui))
    BY <1>1 DEF WholeEntry, Entry
  <1>5. QED
    BY <1>1, <1>2, <1>3, <1>4, FormSends

LEMMA FormEdits ==
  ASSUME FrameInv, FormInv,
         \/ Prefetch \/ FillIn \/ ChooseLogo \/ Sign \/ Agree \/ CloseText
         \/ RegisterNext \/ RegisterBack
  PROVE  FrameInv' /\ FormInv'
  <1>0. /\ {"page", "step", "shown", "refused", "logo", "signed", "consents", "reading",
            "submitting", "hint"} \subseteq DOMAIN ui
        /\ ui.page = "company" /\ ui.step # 1 => Step1Holds(ui)
    BY DEF FormInv
  <1>1. CASE Prefetch
    <2>1. PICK page \in {"form", "invalid"} : Local([ui EXCEPT !.shown = page])
      BY <1>1 DEF Prefetch
    <2>2. wire = {}
      BY <1>1 DEF Prefetch, Prefetched, FormInv
    <2> DEFINE state == [ui EXCEPT !.shown = page]
    <2>3. /\ DOMAIN state = DOMAIN ui /\ state.page = ui.page /\ state.step = ui.step
          /\ state.shown = page /\ state.refused = ui.refused /\ state.logo = ui.logo
      BY <1>0
    <2>4. Local(state) /\ ui.shown = "checking"
      BY <1>1, <2>1 DEF Prefetch
    <2> HIDE DEF state
    <2>5. state.page = "company" /\ state.step # 1 => Step1Holds(state)
      BY <1>0, <2>3 DEF Step1Holds
    <2>6. QED
      BY <2>2, <2>3, <2>4, <2>5, FormLocal
  <1>2. CASE FillIn
    <2>1. /\ ui.step = 1
          /\ \E refused \in BOOLEAN :
               Local([ui EXCEPT !.refused = refused, !.hint = IF @ = "form" THEN @ ELSE none])
      BY <1>2 DEF FillIn, Filling1
    <2>2. PICK refused \in BOOLEAN :
            Local([ui EXCEPT !.refused = refused, !.hint = IF @ = "form" THEN @ ELSE none])
      BY <2>1
    <2>3. QED
      BY <1>0, <2>1, <2>2, FormLocal
  <1>3. CASE ChooseLogo
    BY <1>0, <1>3, FormLocal DEF ChooseLogo
  <1>4. CASE Sign
    BY <1>0, <1>4, FormLocal DEF Sign, Step1Holds
  <1>5. CASE Agree
    <2>1. PICK k \in Texts :
            \/ Local([ui EXCEPT !.consents = IF k \in @ THEN @ \ {k} ELSE @ \cup {k}])
            \/ Local([ui EXCEPT !.reading = k])
      BY <1>5 DEF Agree
    <2>2. CASE Local([ui EXCEPT !.consents = IF k \in @ THEN @ \ {k} ELSE @ \cup {k}])
      BY <1>0, <2>2, FormLocal DEF Step1Holds
    <2>3. CASE Local([ui EXCEPT !.reading = k])
      BY <1>0, <2>3, FormLocal DEF Step1Holds
    <2>4. QED
      BY <2>1, <2>2, <2>3
  <1>6. CASE CloseText
    <2>1. PICK agreed \in {{}, {ui.reading}} :
            Local([ui EXCEPT !.consents = @ \cup agreed, !.reading = none])
      BY <1>6 DEF CloseText
    <2>2. QED
      BY <1>0, <2>1, FormLocal DEF Step1Holds
  <1>7. CASE RegisterNext
    <2>1. CASE Step1Holds(ui) /\ Local([ui EXCEPT !.step = 2, !.hint = none])
      BY <1>0, <2>1, FormLocal DEF Step1Holds
    <2>2. CASE ~Step1Holds(ui) /\ Local([ui EXCEPT !.hint = "fields"])
      BY <1>0, <2>2, FormLocal DEF Step1Holds
    <2>3. QED
      BY <1>7, <2>1, <2>2 DEF RegisterNext
  <1>8. CASE RegisterBack
    BY <1>0, <1>8, FormLocal DEF RegisterBack
  <1>9. QED
    BY <1>1, <1>2, <1>3, <1>4, <1>5, <1>6, <1>7, <1>8

(* The one request of a form is carried out at most once.                   *)
LEMMA FormIsServed ==
  ASSUME FrameInv, FormInv, NEW c \in wire, FormServed(c)
  PROVE  FrameInv' /\ FormInv'
  <1>0. /\ c.body.page = ui.page /\ WholeEntry(c.body) /\ server.effects \in Nat
        /\ ui.shown \notin {"success", "left"}
    BY DEF FormInv
  <1>1. PICK a, rows : /\ Serve(c, a, rows)
                       /\ {"token", "effects"} \subseteq DOMAIN rows
                       /\ IF a.code = "created" THEN rows.effects = server.effects + 1
                          ELSE rows.effects = server.effects
                       /\ a.code = "created" => a # none
    <2>1. CASE Serve(c, [code |-> "created"],
                     [token |-> IF c.body.page \in ByToken THEN "used" ELSE "open",
                      effects |-> server.effects + 1])
      BY <2>1, NoneAssumption
    <2>2. ASSUME NEW code \in {"invalid", "password", "refused"}, Serve(c, [code |-> code], server)
          PROVE  \E a, rows : /\ Serve(c, a, rows)
                              /\ {"token", "effects"} \subseteq DOMAIN rows
                              /\ IF a.code = "created" THEN rows.effects = server.effects + 1
                                 ELSE rows.effects = server.effects
                              /\ a.code = "created" => a # none
      BY <2>2 DEF FormInv
    <2>3. QED
      BY <2>1, <2>2 DEF FormServed
  <1>2. /\ FrameInv' /\ UNCHANGED <<ui, doubtful>> /\ server' = rows /\ c.answer = none
        /\ \E r : /\ wire' = (wire \ {c}) \cup {r} /\ r.body = c.body /\ r.answer = a
    BY <1>1, ServeFrame
  <1>3. PICK r : wire' = {r} /\ r.body = c.body /\ r.answer = a
    BY <1>2, TheRequest DEF FormInv
  <1>4. ui.page # "companyProfile" /\ ~doubtful => server.effects = 0
    BY <1>0, <1>2 DEF FormInv, OneRequest, Answered
  <1>5. FormInv'
    BY <1>0, <1>1, <1>2, <1>3, <1>4 DEF FormInv, OneRequest, Answered, Step1Holds, WholeEntry
  <1>6. QED
    BY <1>2, <1>5

LEMMA FormIsAnswered ==
  ASSUME FrameInv, FormInv, NEW c \in wire, FormAnswered(c)
  PROVE  FrameInv' /\ FormInv'
  <1>1. /\ FrameInv' /\ UNCHANGED <<server, doubtful>> /\ c.answer # none /\ wire' = wire \ {c}
    BY TakeFrame DEF FormAnswered
  <1>2. wire' = {}
    BY <1>1, TheRequest DEF FormInv
  <1>3. /\ DOMAIN ui' = DOMAIN ui /\ ui'.page = ui.page /\ ui'.step = ui.step
        /\ ui'.refused = ui.refused /\ ui'.logo = ui.logo /\ ui'.shown = After(c.answer.code)
    BY DEF FormAnswered, FormInv
  <1>4. /\ ui.page # "companyProfile" /\ c.answer.code = "created" =>
             After(c.answer.code) \in {"success", "left"}
        /\ After(c.answer.code) = "success" => c.answer.code = "created"
    BY DEF After
  <1>5. ui.page # "companyProfile" /\ ~doubtful /\ server.effects > 0 =>
          server.effects = 1 /\ c.answer.code = "created"
    BY DEF FormInv, OneRequest, Answered
  <1>6. c.answer.code = "created" => server.effects > 0
    BY <1>1 DEF FormInv, Answered
  <1>7. FormInv'
    BY <1>1, <1>2, <1>3, <1>4, <1>5, <1>6
       DEF FormInv, OneRequest, Answered, Step1Holds, WholeEntry
  <1>8. QED
    BY <1>1, <1>7

(* An answer that is lost makes what is shown doubtful.                     *)
LEMMA FormBreaks ==
  ASSUME FrameInv, FormInv, NEW c \in wire, Break(c)
  PROVE  FrameInv' /\ FormInv'
  <1>1. /\ FrameInv' /\ UNCHANGED <<ui, server>> /\ doubtful' = (doubtful \/ c.answer # none)
        /\ \E r : /\ wire' = (wire \ {c}) \cup {r} /\ r.body = c.body /\ r.answer = Broken
    BY BreakFrame
  <1>2. PICK r : wire' = {r} /\ r.body = c.body /\ r.answer = Broken
    BY <1>1, TheRequest DEF FormInv
  <1>3. ui.page # "companyProfile" /\ ~doubtful' => ~(server.effects > 0)
    BY <1>1 DEF FormInv, OneRequest, Answered
  <1>4. FormInv'
    BY <1>1, <1>2, <1>3 DEF FormInv, OneRequest, Answered, Broken, Step1Holds, WholeEntry
  <1>5. QED
    BY <1>1, <1>4

LEMMA FormKept ==
  ASSUME FrameInv, FormInv, On("form"), FormStep
  PROVE  FrameInv' /\ FormInv'
  BY FormEdits, FormButtons, FormActivates, FormIsServed, FormIsAnswered DEF FormStep

-----------------------------------------------------------------------------
(* An application of a candidate.                                           *)

(* A step of the page alone that leaves the record it shows alone.          *)
LEMMA DetailLocal ==
  ASSUME FrameInv, DetailInv, NEW state, Local(state),
         DOMAIN ui \subseteq DOMAIN state, state.data = ui.data,
         state.shown = ui.shown \/ state.shown = "error",
         state.saving = ui.saving, state.withdrawing = ui.withdrawing,
         state.form = none \/ state.form \in DetailEdit,
         state.saving => state.form # none /\ ~state.confirm,
         state.withdrawing => state.confirm
  PROVE  FrameInv' /\ DetailInv'
  <1>1. /\ FrameInv' /\ ui' = state /\ UNCHANGED <<story, server, wire, sent, doubtful>>
    BY LocalFrame
  <1>2. DetailInv'
    BY <1>1 DEF DetailInv, OneRequest, Answered, DetailRequestOK, Supersedes, Alike
  <1>3. QED
    BY <1>1, <1>2

LEMMA DetailEdits ==
  ASSUME FrameInv, DetailInv,
         \/ StartEditing \/ EditForm \/ CancelEditing \/ OpenWithdraw \/ CloseWithdraw
         \/ DownloadResume \/ Downloaded
  PROVE  FrameInv' /\ DetailInv'
  <1>0. /\ {"shown", "data", "form", "saving", "confirm", "withdrawing", "downloading"}
             \subseteq DOMAIN ui
        /\ ui.shown = "detail" => ui.data \in ApplicationRow
        /\ ui.form = none \/ ui.form \in DetailEdit
        /\ ui.saving => ui.form # none /\ ~ui.confirm
        /\ ui.withdrawing => ui.confirm
    BY DEF DetailInv
  <1>1. CASE StartEditing
    <2> DEFINE form == [answer |-> ui.data.answer, staged |-> FALSE]
    <2>1. Local([ui EXCEPT !.form = form]) /\ ui.form = none /\ ~ui.confirm /\ ui.shown = "detail"
      BY <1>1 DEF StartEditing, Viewing, Reading
    <2>2. form \in DetailEdit
      BY <1>0, <2>1 DEF ApplicationRow, DetailEdit
    <2> HIDE DEF form
    <2>3. QED
      BY <1>0, <2>1, <2>2, DetailLocal
  <1>2. CASE EditForm
    <2>1. /\ ui.form \in DetailEdit /\ ~ui.confirm
          /\ \/ \E a \in {0, 1} : Local([ui EXCEPT !.form.answer = a])
             \/ \E f \in BOOLEAN : Local([ui EXCEPT !.form.staged = f])
      BY <1>0, <1>2 DEF EditForm, Editing, Reading
    <2>2. PICK form \in DetailEdit : Local([ui EXCEPT !.form = form])
      <3>1. ASSUME NEW a \in {0, 1}, Local([ui EXCEPT !.form.answer = a])
            PROVE  \E form \in DetailEdit : Local([ui EXCEPT !.form = form])
        <4> DEFINE form == [ui.form EXCEPT !.answer = a]
        <4>1. form \in DetailEdit
          BY <2>1 DEF DetailEdit
        <4>2. Local([ui EXCEPT !.form = form])
          BY <3>1
        <4> HIDE DEF form
        <4>3. QED
          BY <4>1, <4>2
      <3>2. ASSUME NEW f \in BOOLEAN, Local([ui EXCEPT !.form.staged = f])
            PROVE  \E form \in DetailEdit : Local([ui EXCEPT !.form = form])
        <4> DEFINE form == [ui.form EXCEPT !.staged = f]
        <4>1. form \in DetailEdit
          BY <2>1 DEF DetailEdit
        <4>2. Local([ui EXCEPT !.form = form])
          BY <3>2
        <4> HIDE DEF form
        <4>3. QED
          BY <4>1, <4>2
      <3>3. QED
        BY <2>1, <3>1, <3>2
    <2>3. form # none
      BY NoneAssumption
    <2>4. QED
      BY <1>0, <2>1, <2>2, <2>3, DetailLocal
  <1>3. CASE CancelEditing
    BY <1>0, <1>3, DetailLocal DEF CancelEditing
  <1>4. CASE OpenWithdraw
    <2>1. Local([ui EXCEPT !.confirm = TRUE]) /\ ui.form = none
      BY <1>4 DEF OpenWithdraw, Viewing
    <2>2. QED
      BY <1>0, <2>1, DetailLocal
  <1>5. CASE CloseWithdraw
    <2>1. Local([ui EXCEPT !.confirm = FALSE]) /\ ~ui.withdrawing
      BY <1>5 DEF CloseWithdraw, Confirming
    <2>2. QED
      BY <1>0, <2>1, DetailLocal
  <1>6. CASE DownloadResume
    BY <1>0, <1>6, DetailLocal DEF DownloadResume
  <1>7. CASE Downloaded
    <2>1. CASE Local([ui EXCEPT !.downloading = FALSE])
      BY <1>0, <2>1, DetailLocal
    <2>2. CASE Local([ui EXCEPT !.downloading = FALSE,
                        !.shown = IF @ = "detail" THEN "error" ELSE @])
      BY <1>0, <2>2, DetailLocal
    <2>3. QED
      BY <1>7, <2>1, <2>2 DEF Downloaded
  <1>8. QED
    BY <1>1, <1>2, <1>3, <1>4, <1>5, <1>6, <1>7

LEMMA DetailIsLoaded ==
  ASSUME FrameInv, DetailInv, DetailLoads
  PROVE  FrameInv' /\ DetailInv'
  <1>1. PICK state : /\ Local(state) /\ DOMAIN state = DOMAIN ui
                     /\ \/ state.shown = "detail" /\ state.data = server
                        \/ state.shown = "error"
                     /\ state.form = ui.form /\ state.saving = ui.saving
                     /\ state.confirm = ui.confirm /\ state.withdrawing = ui.withdrawing
    <2>1. CASE Local([ui EXCEPT !.shown = "detail", !.data = server])
      <3> DEFINE state == [ui EXCEPT !.shown = "detail", !.data = server]
      <3>1. /\ DOMAIN state = DOMAIN ui /\ state.shown = "detail" /\ state.data = server
            /\ state.form = ui.form /\ state.saving = ui.saving
            /\ state.confirm = ui.confirm /\ state.withdrawing = ui.withdrawing
        BY DEF DetailInv
      <3>2. Local(state)
        BY <2>1
      <3> HIDE DEF state
      <3>3. QED
        BY <3>1, <3>2
    <2>2. CASE Local([ui EXCEPT !.shown = "error"])
      <3> DEFINE state == [ui EXCEPT !.shown = "error"]
      <3>1. /\ DOMAIN state = DOMAIN ui /\ state.shown = "error"
            /\ state.form = ui.form /\ state.saving = ui.saving
            /\ state.confirm = ui.confirm /\ state.withdrawing = ui.withdrawing
        BY DEF DetailInv
      <3>2. Local(state)
        BY <2>2
      <3> HIDE DEF state
      <3>3. QED
        BY <3>1, <3>2
    <2>3. QED
      BY <2>1, <2>2 DEF DetailLoads
  <1>2. /\ FrameInv' /\ ui' = state /\ UNCHANGED <<story, server, wire, sent, doubtful>>
    BY <1>1, LocalFrame
  <1>3. ui.shown = "loading" /\ wire = {}
    BY DEF DetailLoads, DetailInv
  <1>4. DetailInv'
    BY <1>1, <1>2, <1>3 DEF DetailInv, OneRequest, Alike
  <1>5. QED
    BY <1>2, <1>4

(* A save begins while neither a save nor a withdrawal is under way.        *)
LEMMA DetailSaves ==
  ASSUME FrameInv, DetailInv, On("application"), HandleSave
  PROVE  FrameInv' /\ DetailInv'
  <1>0. /\ {"shown", "data", "form", "saving", "confirm", "withdrawing", "downloading"}
             \subseteq DOMAIN ui
        /\ ui.shown = "detail" /\ ~ui.confirm /\ ui.form # none /\ ui.form \in DetailEdit
        /\ ~ui.saving /\ ~ui.withdrawing
    BY DEF DetailInv, HandleSave, Editing, Reading
  <1> DEFINE changed == ui.form.answer # ui.data.answer
             body    == [answer |-> IF changed THEN ui.form.answer ELSE none,
                         resume |-> ui.form.staged]
  <1>1. CASE Local([ui EXCEPT !.form = none])
    BY <1>0, <1>1, DetailLocal
  <1>2. CASE /\ ui' = [ui EXCEPT !.saving = TRUE] /\ Send("patch", body) /\ UNCHANGED doubtful
    <2>1. "patch" \in Kinds(story.screen)
      BY DEF On, Kinds
    <2>2. body.answer \in {none, 0, 1} /\ body.resume \in BOOLEAN
      BY <1>0 DEF DetailEdit
    <2> HIDE DEF body
    <2>3. /\ FrameInv' /\ UNCHANGED server
          /\ \E r : /\ wire' = wire \cup {r} /\ r.kind = "patch" /\ r.body = body
                    /\ r.answer = none
      BY <1>2, <2>1, SendFrame
    <2>4. wire = {}
      <3>1. \A c \in wire : c.kind \in {"patch", "withdraw"}
        BY DEF On, FrameInv, Kinds
      <3>2. QED
        BY <1>0, <3>1 DEF DetailInv, DetailRequestOK
    <2>5. PICK r : /\ wire' = {r} /\ r.kind = "patch" /\ r.body = body /\ r.answer = none
      BY <2>3, <2>4
    <2>6. /\ DOMAIN ui' = DOMAIN ui /\ ui'.shown = "detail" /\ ui'.data = ui.data
          /\ ui'.form = ui.form /\ ui'.saving /\ ~ui'.confirm
          /\ ui'.withdrawing = ui.withdrawing
      BY <1>0, <1>2
    <2>7. ~doubtful => Alike(ui.data, server)
      BY <1>0, <2>4 DEF DetailInv
    <2>8. ~doubtful' => Alike(ui'.data, server')
      BY <1>2, <2>3, <2>6, <2>7 DEF Alike
    <2>9. DetailInv'
      BY <1>0, <2>2, <2>3, <2>5, <2>6, <2>8 DEF DetailInv, OneRequest, Answered, DetailRequestOK
    <2>10. QED
      BY <2>3, <2>9
  <1>3. QED
    BY <1>1, <1>2 DEF HandleSave

LEMMA DetailWithdraws ==
  ASSUME FrameInv, DetailInv, On("application"), HandleWithdraw
  PROVE  FrameInv' /\ DetailInv'
  <1>0. /\ {"shown", "data", "form", "saving", "confirm", "withdrawing", "downloading"}
             \subseteq DOMAIN ui
        /\ ui.shown = "detail" /\ ui.confirm /\ ~ui.saving /\ ~ui.withdrawing
    BY DEF DetailInv, HandleWithdraw, Confirming
  <1>1. /\ ui' = [ui EXCEPT !.withdrawing = TRUE] /\ Send("withdraw", none) /\ UNCHANGED doubtful
    BY DEF HandleWithdraw
  <1>2. "withdraw" \in Kinds(story.screen)
    BY DEF On, Kinds
  <1>3. /\ FrameInv' /\ UNCHANGED server
        /\ \E r : wire' = wire \cup {r} /\ r.kind = "withdraw" /\ r.answer = none
    BY <1>1, <1>2, SendFrame
  <1>4. wire = {}
    <2>1. \A c \in wire : c.kind \in {"patch", "withdraw"}
      BY DEF On, FrameInv, Kinds
    <2>2. QED
      BY <1>0, <2>1 DEF DetailInv, DetailRequestOK
  <1>5. PICK r : wire' = {r} /\ r.kind = "withdraw" /\ r.answer = none
    BY <1>3, <1>4
  <1>6. /\ DOMAIN ui' = DOMAIN ui /\ ui'.shown = "detail" /\ ui'.data = ui.data
        /\ ui'.form = ui.form /\ ui'.saving = ui.saving /\ ui'.confirm /\ ui'.withdrawing
    BY <1>0, <1>1
  <1>7. ~doubtful => Alike(ui.data, server)
    BY <1>0, <1>4 DEF DetailInv
  <1>8. ~doubtful' => Alike(ui'.data, server')
    BY <1>1, <1>3, <1>6, <1>7 DEF Alike
  <1>9. DetailInv'
    BY <1>0, <1>3, <1>5, <1>6, <1>8 DEF DetailInv, OneRequest, Answered, DetailRequestOK
  <1>10. QED
    BY <1>3, <1>9

LEMMA DetailDecided ==
  ASSUME FrameInv, DetailInv, ApplicationDecided
  PROVE  FrameInv' /\ DetailInv'
  <1>1. /\ server' = [server EXCEPT !.editable = FALSE]
        /\ UNCHANGED <<story, ui, wire, sent, doubtful>>
    BY DEF ApplicationDecided
  <1>2. FrameInv'
    BY <1>1 DEF FrameInv
  <1>3. server' \in ApplicationRow /\ Alike(server', server)
    BY <1>1 DEF DetailInv, ApplicationRow, Alike
  <1>4. DetailInv'
    BY <1>1, <1>3 DEF DetailInv, OneRequest, Answered, DetailRequestOK, Supersedes, Alike
  <1>5. QED
    BY <1>2, <1>4

(* What the server did is in its answer.                                    *)
LEMMA DetailIsServed ==
  ASSUME FrameInv, DetailInv, NEW c \in wire, DetailServed(c)
  PROVE  FrameInv' /\ DetailInv'
  <1> DEFINE Done(a, rows) ==
               \/ /\ c.kind = "patch" /\ a # none /\ a.code = "saved" /\ a.row = rows
                  /\ rows \in ApplicationRow
               \/ /\ c.kind = "withdraw" /\ a # none /\ a.code = "withdrawn"
                  /\ rows \in ApplicationRow
               \/ a.code \in {"notEditable", "refused"} /\ rows = server
  <1>0. server \in ApplicationRow /\ DetailRequestOK(c)
    BY DEF DetailInv
  <1>1. PICK a, rows : Serve(c, a, rows) /\ Done(a, rows)
    <2>1. CASE /\ c.kind = "patch" /\ server.editable
               /\ LET row == [server EXCEPT
                                !.answer = IF c.body.answer = none THEN @ ELSE c.body.answer,
                                !.resume = IF c.body.resume THEN 1 - @ ELSE @]
                  IN  Serve(c, [code |-> "saved", row |-> row], row)
      <3> DEFINE row == [server EXCEPT
                           !.answer = IF c.body.answer = none THEN @ ELSE c.body.answer,
                           !.resume = IF c.body.resume THEN 1 - @ ELSE @]
                 a   == [code |-> "saved", row |-> row]
      <3>1. row \in ApplicationRow
        <4> DEFINE answer == IF c.body.answer = none THEN server.answer ELSE c.body.answer
                   resume == IF c.body.resume THEN 1 - server.resume ELSE server.resume
        <4>1. answer \in {0, 1}
          BY <1>0, <2>1 DEF ApplicationRow, DetailRequestOK
        <4>2. resume \in {0, 1}
          BY <1>0 DEF ApplicationRow
        <4> HIDE DEF answer, resume
        <4>3. row = [server EXCEPT !.answer = answer, !.resume = resume]
          BY <1>0 DEF ApplicationRow, answer, resume
        <4>4. QED
          BY <1>0, <4>1, <4>2, <4>3 DEF ApplicationRow
      <3>2. Serve(c, a, row)
        BY <2>1
      <3> HIDE DEF row
      <3>3. a # none /\ a.code = "saved" /\ a.row = row
        BY <3>1, NoneAssumption
      <3> HIDE DEF a
      <3>4. QED
        BY <2>1, <3>1, <3>2, <3>3
    <2>2. CASE /\ c.kind = "withdraw" /\ server.editable
               /\ Serve(c, [code |-> "withdrawn"], [server EXCEPT !.exists = FALSE, !.editable = FALSE])
      <3> DEFINE row == [server EXCEPT !.exists = FALSE, !.editable = FALSE]
      <3>1. row \in ApplicationRow
        BY <1>0 DEF ApplicationRow
      <3>2. Serve(c, [code |-> "withdrawn"], row)
        BY <2>2
      <3> HIDE DEF row
      <3>3. QED
        BY <2>2, <3>1, <3>2, NoneAssumption
    <2>3. CASE Serve(c, [code |-> "notEditable"], server)
      BY <2>3
    <2>4. CASE Serve(c, [code |-> "refused"], server)
      BY <2>4
    <2>5. QED
      BY <2>1, <2>2, <2>3, <2>4 DEF DetailServed
  <1>2. /\ FrameInv' /\ UNCHANGED <<ui, doubtful>> /\ server' = rows /\ c.answer = none
        /\ \E r : /\ wire' = (wire \ {c}) \cup {r}
                  /\ r.kind = c.kind /\ r.body = c.body /\ r.answer = a
    BY <1>1, ServeFrame
  <1>3. PICK r : wire' = {r} /\ r.kind = c.kind /\ r.body = c.body /\ r.answer = a
    BY <1>2, TheRequest DEF DetailInv
  <1>4. rows \in ApplicationRow
    BY <1>0, <1>1
  <1>5. ui.shown = "detail" /\ ~doubtful => Alike(ui.data, server)
    BY <1>2 DEF DetailInv, OneRequest, Supersedes, Answered
  <1>6. DetailRequestOK(r)'
    BY <1>0, <1>1, <1>2, <1>3 DEF DetailRequestOK, Answered, Alike
  <1>7. Alike(ui.data, server)' \/ Supersedes(r)' \/ rows # server \/ ~Alike(ui.data, server)
    BY <1>2 DEF Alike
  <1>8. rows # server => Supersedes(r)'
    BY <1>1, <1>2, <1>3 DEF Supersedes, Answered, Alike
  <1>9. DetailInv'
    BY <1>2, <1>3, <1>4, <1>5, <1>6, <1>7, <1>8 DEF DetailInv, OneRequest
  <1>10. QED
    BY <1>2, <1>9

LEMMA DetailIsAnswered ==
  ASSUME FrameInv, DetailInv, NEW c \in wire, PatchAnswered(c) \/ WithdrawAnswered(c)
  PROVE  FrameInv' /\ DetailInv'
  <1>0. /\ {"shown", "data", "form", "saving", "confirm", "withdrawing", "downloading"}
             \subseteq DOMAIN ui
        /\ DetailRequestOK(c) /\ (ui.form = none \/ ui.form \in DetailEdit)
        /\ ui.saving => ui.form # none /\ ~ui.confirm
        /\ ui.withdrawing => ui.confirm
    BY DEF DetailInv
  <1>1. /\ FrameInv' /\ UNCHANGED <<server, doubtful>> /\ c.answer # none /\ wire' = wire \ {c}
    BY TakeFrame DEF PatchAnswered, WithdrawAnswered
  <1>2. wire' = {} /\ \A d \in wire : d = c
    BY <1>1, TheRequest DEF DetailInv, OneRequest
  <1>3. ui.shown # "loading"
    BY DEF DetailInv
  <1>4. /\ {"shown", "data", "form", "saving", "confirm", "withdrawing", "downloading"}
             \subseteq DOMAIN ui'
        /\ ui'.form = none \/ ui'.form \in DetailEdit
        /\ ui'.saving => ui'.form # none /\ ~ui'.confirm
        /\ ui'.withdrawing => ui'.confirm
        /\ ui'.shown = "detail" =>
             /\ ui.shown = "detail" /\ c.kind = "patch"
             /\ IF c.answer.code = "saved" THEN ui'.data = c.answer.row ELSE ui'.data = ui.data
    <2>1. CASE PatchAnswered(c)
      <3>1. CASE c.answer.code = "saved"
        BY <1>0, <2>1, <3>1 DEF PatchAnswered, DetailRequestOK
      <3>2. CASE c.answer.code = "notEditable"
        BY <2>1, <3>2 DEF PatchAnswered, Detail
      <3>3. CASE c.answer.code \notin {"saved", "notEditable"}
        BY <1>0, <2>1, <3>3 DEF PatchAnswered
      <3>4. QED
        BY <3>1, <3>2, <3>3
    <2>2. CASE WithdrawAnswered(c)
      <3>1. CASE c.answer.code = "withdrawn"
        BY <1>0, <2>2, <3>1 DEF WithdrawAnswered
      <3>2. CASE c.answer.code = "notEditable"
        BY <2>2, <3>2 DEF WithdrawAnswered, Detail
      <3>3. CASE c.answer.code \notin {"withdrawn", "notEditable"}
        BY <1>0, <2>2, <3>3 DEF WithdrawAnswered
      <3>4. QED
        BY <3>1, <3>2, <3>3
    <2>3. QED
      BY <2>1, <2>2
  <1>5. ui'.shown = "detail" => ui'.data \in ApplicationRow
    BY <1>0, <1>1, <1>4 DEF DetailInv, DetailRequestOK, Answered
  <1>6. ui'.shown = "detail" /\ ~doubtful => Alike(ui'.data, server)
    <2>1. SUFFICES ASSUME ui'.shown = "detail", ~doubtful PROVE Alike(ui'.data, server)
      OBVIOUS
    <2>2. Alike(ui.data, server) \/ Supersedes(c)
      BY <1>2, <1>4, <2>1 DEF DetailInv
    <2>3. CASE c.answer.code # "saved"
      BY <1>4, <2>1, <2>2, <2>3 DEF Supersedes, Answered
    <2>4. CASE c.answer.code = "saved"
      BY <1>0, <1>1, <1>4, <2>1, <2>4 DEF DetailRequestOK, Answered
    <2>5. QED
      BY <2>3, <2>4
  <1>7. (Alike(ui.data, server))' <=> Alike(ui'.data, server)
    BY <1>1 DEF Alike
  <1>8. DetailInv'
    BY <1>1, <1>2, <1>4, <1>5, <1>6, <1>7 DEF DetailInv, OneRequest
  <1>9. QED
    BY <1>1, <1>8

LEMMA DetailBreaks ==
  ASSUME FrameInv, DetailInv, NEW c \in wire, Break(c)
  PROVE  FrameInv' /\ DetailInv'
  <1>1. /\ FrameInv' /\ UNCHANGED <<ui, server>> /\ doubtful' = (doubtful \/ c.answer # none)
        /\ \E r : /\ wire' = (wire \ {c}) \cup {r}
                  /\ r.kind = c.kind /\ r.body = c.body /\ r.answer = Broken
    BY BreakFrame
  <1>2. PICK r : wire' = {r} /\ r.kind = c.kind /\ r.body = c.body /\ r.answer = Broken
    BY <1>1, TheRequest DEF DetailInv
  <1>3. DetailRequestOK(r)'
    BY <1>1, <1>2 DEF DetailInv, DetailRequestOK, Answered, Broken
  <1>4. ui.shown = "detail" /\ ~doubtful' => Alike(ui.data, server)
    BY <1>1 DEF DetailInv, OneRequest, Supersedes, Answered
  <1>5. DetailInv'
    BY <1>1, <1>2, <1>3, <1>4 DEF DetailInv, OneRequest, Alike
  <1>6. QED
    BY <1>1, <1>5

LEMMA DetailKept ==
  ASSUME FrameInv, DetailInv, DetailStep
  PROVE  FrameInv' /\ DetailInv'
  BY DetailEdits, DetailIsLoaded, DetailSaves, DetailWithdraws, DetailDecided, DetailIsServed,
     DetailIsAnswered
     DEF DetailStep

-----------------------------------------------------------------------------
(* The profile of a candidate.                                              *)

(* A step of the profile alone that leaves the record it shows alone.       *)
LEMMA ProfileLocal ==
  ASSUME FrameInv, ProfileInv, NEW state, Local(state),
         DOMAIN ui \subseteq DOMAIN state, state.me = ui.me, state.landed = ui.landed,
         state.shown = "profile" <=> ui.shown = "profile",
         state.name \in {0, 1}, state.phone \in {0, 1},
         state.expanded \in {none, "phone", "resume"}
  PROVE  FrameInv' /\ ProfileInv'
  <1>1. /\ FrameInv' /\ ui' = state /\ UNCHANGED <<story, server, wire, sent, doubtful>>
    BY LocalFrame
  <1>2. \A c : SaveOK(c)' <=> SaveOK(c)
    BY <1>1 DEF SaveOK, Answered
  <1>3. ProfileInv'
    BY <1>1, <1>2 DEF ProfileInv, Answered
  <1>4. QED
    BY <1>1, <1>3

LEMMA ProfileEdits ==
  ASSUME FrameInv, ProfileInv,
         \/ TypeField \/ StartRename \/ Toggle
         \/ Local([ui EXCEPT !.renaming = "no"])
  PROVE  FrameInv' /\ ProfileInv'
  <1>0. /\ {"page", "shown", "me", "name", "phone", "busy", "renaming", "expanded", "landed"}
             \subseteq DOMAIN ui
        /\ ui.name \in {0, 1} /\ ui.phone \in {0, 1} /\ ui.expanded \in {none, "phone", "resume"}
    BY DEF ProfileInv
  <1>1. CASE TypeField
    <2>1. CASE Local([ui EXCEPT !.name = 1 - @])
      BY <1>0, <2>1, ProfileLocal
    <2>2. CASE Local([ui EXCEPT !.phone = 1 - @])
      BY <1>0, <2>2, ProfileLocal
    <2>3. QED
      BY <1>1, <2>1, <2>2 DEF TypeField
  <1>2. CASE StartRename
    BY <1>0, <1>2, ProfileLocal DEF StartRename
  <1>3. CASE Toggle
    <2>1. PICK f \in {none, "phone", "resume"} : Local([ui EXCEPT !.expanded = f])
      BY <1>3 DEF Toggle
    <2>2. QED
      BY <1>0, <2>1, ProfileLocal
  <1>4. CASE Local([ui EXCEPT !.renaming = "no"])
    BY <1>0, <1>4, ProfileLocal
  <1>5. QED
    BY <1>1, <1>2, <1>3, <1>4

LEMMA ProfileIsLoaded ==
  ASSUME FrameInv, ProfileInv, MeLoads
  PROVE  FrameInv' /\ ProfileInv'
  <1>0. /\ {"page", "shown", "me", "name", "phone", "busy", "renaming", "expanded", "landed"}
             \subseteq DOMAIN ui
        /\ ui.name \in {0, 1} /\ ui.phone \in {0, 1} /\ ui.expanded \in {none, "phone", "resume"}
        /\ server \in ProfileRow /\ wire = {}
    BY DEF ProfileInv, MeLoads
  <1>1. CASE Local([ui EXCEPT !.shown = "profile", !.me = server, !.name = server.name,
                      !.phone = server.phone, !.landed = server.rev])
    <2> DEFINE state == [ui EXCEPT !.shown = "profile", !.me = server, !.name = server.name,
                           !.phone = server.phone, !.landed = server.rev]
    <2>1. /\ DOMAIN state = DOMAIN ui /\ state.shown = "profile" /\ state.me = server
          /\ state.name = server.name /\ state.phone = server.phone
          /\ state.landed = server.rev /\ state.expanded = ui.expanded
      BY <1>0
    <2>2. Local(state)
      BY <1>1
    <2> HIDE DEF state
    <2>3. /\ FrameInv' /\ ui' = state /\ UNCHANGED <<story, server, wire, sent, doubtful>>
      BY <2>2, LocalFrame
    <2>4. ProfileInv'
      BY <1>0, <2>1, <2>3 DEF ProfileInv, ProfileRow
    <2>5. QED
      BY <2>3, <2>4
  <1>2. CASE Local([ui EXCEPT !.shown = "error"])
    BY <1>0, <1>2, ProfileLocal DEF MeLoads
  <1>3. QED
    BY <1>1, <1>2 DEF MeLoads

(* A request leaves alone all but the flags of the sections and the editor.  *)
Unmoved(state) ==
  /\ DOMAIN state = DOMAIN ui
  /\ \A f \in DOMAIN ui : f \notin {"busy", "renaming"} => state[f] = ui[f]

LEMMA ProfileSends ==
  ASSUME FrameInv, ProfileInv, On("profile"), ui.shown = "profile",
         NEW section, NEW field \in {"name", "phone", "resume"},
         NEW value \in IF field = "resume" THEN 0..2 ELSE {0, 1},
         NEW state, Patch(state, section, field, value), Unmoved(state)
  PROVE  FrameInv' /\ ProfileInv'
  <1> DEFINE body == [section |-> section, field |-> field, value |-> value]
  <1>0. /\ {"page", "shown", "me", "name", "phone", "busy", "renaming", "expanded", "landed"}
             \subseteq DOMAIN ui
    BY DEF ProfileInv
  <1>1. ui' = state /\ Send("profile", body) /\ UNCHANGED doubtful
    BY DEF Patch
  <1>2. body.field = field /\ body.value = value
    OBVIOUS
  <1> HIDE DEF body
  <1>3. "profile" \in Kinds(story.screen)
    BY DEF On, Kinds
  <1>4. /\ FrameInv' /\ UNCHANGED server
        /\ \E r : wire' = wire \cup {r} /\ r.body = body /\ r.answer = none
    BY <1>1, <1>3, SendFrame
  <1>5. PICK r : wire' = wire \cup {r} /\ r.body = body /\ r.answer = none
    BY <1>4
  <1>6. /\ DOMAIN ui' = DOMAIN ui /\ ui'.shown = "profile" /\ ui'.me = ui.me
        /\ ui'.landed = ui.landed /\ ui'.name = ui.name /\ ui'.phone = ui.phone
        /\ ui'.expanded = ui.expanded
    BY <1>0, <1>1 DEF Unmoved
  <1>7. /\ \A c \in wire : SaveOK(c)'
        /\ SaveOK(r)'
    BY <1>2, <1>4, <1>5 DEF ProfileInv, SaveOK, Answered
  <1>8. ProfileInv'
    BY <1>1, <1>4, <1>5, <1>6, <1>7 DEF ProfileInv, Answered
  <1>9. QED
    BY <1>4, <1>8

LEMMA SendsUnmoved ==
  ASSUME ProfileInv
  PROVE  /\ Unmoved(ui)
         /\ \A s : Unmoved(Busy(s)) /\ Unmoved([Busy(s) EXCEPT !.renaming = "open"])
  BY DEF ProfileInv, Busy, Unmoved

LEMMA ProfileSaves ==
  ASSUME FrameInv, ProfileInv, On("profile"),
         \/ SaveIdentity \/ SaveAutofill \/ UploadResume \/ DeleteResume \/ CommitRename
         \/ SaveInline
  PROVE  FrameInv' /\ ProfileInv'
  <1>0. /\ ui.name \in {0, 1} /\ ui.phone \in {0, 1} /\ ui.expanded \in {none, "phone", "resume"}
        /\ ui.shown = "profile" => ui.me.resume \in 0..2
    BY DEF ProfileInv, ProfileRow
  <1>1. CASE SaveIdentity
    BY <1>0, <1>1, SendsUnmoved, ProfileSends DEF SaveIdentity, Elsewhere, Section
  <1>2. CASE SaveAutofill
    BY <1>0, <1>2, SendsUnmoved, ProfileSends DEF SaveAutofill, Elsewhere, Section
  <1>3. CASE UploadResume
    <2>1. ui.shown = "profile" /\ Patch(Busy("resume"), "resume", "resume", 1)
      BY <1>3 DEF UploadResume, Elsewhere, Section
    <2>2. Unmoved(Busy("resume"))
      BY SendsUnmoved
    <2>3. 1 \in 0..2
      OBVIOUS
    <2>4. QED
      BY <2>1, <2>2, <2>3, ProfileSends
  <1>4. CASE DeleteResume
    <2>1. ui.shown = "profile" /\ Patch(Busy("resume"), "resume", "resume", 0)
      BY <1>4 DEF DeleteResume, Elsewhere, Section
    <2>2. Unmoved(Busy("resume"))
      BY SendsUnmoved
    <2>3. 0 \in 0..2
      OBVIOUS
    <2>4. QED
      BY <2>1, <2>2, <2>3, ProfileSends
  <1>5. CASE CommitRename
    <2>1. ui.shown = "profile" /\ 3 - ui.me.resume \in 0..2
      BY <1>0, <1>5 DEF CommitRename, Section
    <2>2. CASE Patch([Busy("resume") EXCEPT !.renaming = "open"],
                     "rename", "resume", 3 - ui.me.resume)
      BY <2>1, <2>2, SendsUnmoved, ProfileSends
    <2>3. CASE Local([ui EXCEPT !.renaming = "no"])
      BY <2>3, ProfileEdits
    <2>4. QED
      BY <1>5, <2>2, <2>3 DEF CommitRename
  <1>6. CASE SaveInline
    BY <1>0, <1>6, SendsUnmoved, ProfileSends DEF SaveInline, Section
  <1>7. QED
    BY <1>1, <1>2, <1>3, <1>4, <1>5, <1>6

(* A write counts up rev, and its answer carries the new row.               *)
LEMMA ProfileIsServed ==
  ASSUME FrameInv, ProfileInv, NEW c \in wire, ProfileServed(c)
  PROVE  FrameInv' /\ ProfileInv'
  <1>0. server \in ProfileRow /\ SaveOK(c) /\ ui.shown = "profile" /\ ui.landed \in Nat
    BY DEF ProfileInv
  <1>1. CASE \E row \in {[server EXCEPT ![c.body.field] = c.body.value, !.rev = @ + 1]} :
               Serve(c, [code |-> "saved", row |-> row], row)
    <2> DEFINE row == [server EXCEPT ![c.body.field] = c.body.value, !.rev = @ + 1]
               a   == [code |-> "saved", row |-> row]
    <2>1. Serve(c, a, row)
      BY <1>1
    <2>2. row \in ProfileRow /\ row.rev = server.rev + 1
      <3>1. c.body.field \in {"name", "phone", "resume"}
        BY <1>0 DEF SaveOK
      <3>2. /\ server = [name |-> server.name, phone |-> server.phone,
                         resume |-> server.resume, rev |-> server.rev]
            /\ server.name \in {0, 1} /\ server.phone \in {0, 1} /\ server.resume \in 0..2
            /\ server.rev + 1 \in Nat
        BY <1>0 DEF ProfileRow
      <3>3. /\ c.body.field = "resume" => c.body.value \in 0..2
            /\ c.body.field # "resume" => c.body.value \in {0, 1}
        BY <1>0 DEF SaveOK
      <3>4. /\ DOMAIN row = DOMAIN server /\ row.rev = server.rev + 1
            /\ row.name = IF c.body.field = "name" THEN c.body.value ELSE server.name
            /\ row.phone = IF c.body.field = "phone" THEN c.body.value ELSE server.phone
            /\ row.resume = IF c.body.field = "resume" THEN c.body.value ELSE server.resume
            /\ row = [x \in DOMAIN row |-> row[x]]
        BY <3>1, <3>2
      <3> HIDE DEF row
      <3>5. row = [name |-> row.name, phone |-> row.phone, resume |-> row.resume,
                   rev |-> row.rev]
        BY <3>2, <3>4
      <3>6. QED
        BY <3>1, <3>2, <3>3, <3>4, <3>5 DEF ProfileRow
    <2> HIDE DEF row
    <2>3. a # none /\ a.code = "saved" /\ a.row = row
      BY <2>2, NoneAssumption
    <2> HIDE DEF a
    <2>4. /\ FrameInv' /\ UNCHANGED <<ui, doubtful>> /\ server' = row
          /\ \E r : wire' = (wire \ {c}) \cup {r} /\ r.body = c.body /\ r.answer = a
      BY <2>1, ServeFrame
    <2>5. PICK r : wire' = (wire \ {c}) \cup {r} /\ r.body = c.body /\ r.answer = a
      BY <2>4
    <2>6. server.rev \in Nat
      BY <1>0 DEF ProfileRow
    <2>7. SaveOK(r)'
      BY <1>0, <2>2, <2>3, <2>4, <2>5, <2>6 DEF SaveOK, Answered
    <2>8. ASSUME NEW d \in wire PROVE SaveOK(d)'
      <3>1. SaveOK(d)
        BY DEF ProfileInv
      <3>2. Answered(d, "saved") => d.answer.row.rev \in Nat
        BY <3>1 DEF SaveOK, ProfileRow
      <3>3. QED
        BY <2>2, <2>4, <2>6, <3>1, <3>2 DEF SaveOK, Answered
    <2>9. Answered(r, "saved") /\ r.answer.row = server'
      BY <2>3, <2>4, <2>5 DEF Answered
    <2>10. ~doubtful => ui.landed <= server.rev
      BY <1>0 DEF ProfileInv
    <2>11. ~doubtful => ui.landed <= server'.rev /\ ui.landed # server'.rev
      BY <1>0, <2>2, <2>4, <2>6, <2>10
    <2>12. ProfileInv'
      BY <1>0, <2>2, <2>4, <2>5, <2>7, <2>8, <2>9, <2>11 DEF ProfileInv, Answered
    <2>13. QED
      BY <2>4, <2>12
  <1>2. CASE Serve(c, [code |-> "refused"], server)
    <2>1. /\ FrameInv' /\ UNCHANGED <<ui, doubtful, server>> /\ c.answer = none
          /\ \E r : /\ wire' = (wire \ {c}) \cup {r} /\ r.body = c.body
                    /\ r.answer = [code |-> "refused"]
      BY <1>2, ServeFrame
    <2>2. PICK r : /\ wire' = (wire \ {c}) \cup {r} /\ r.body = c.body
                   /\ r.answer = [code |-> "refused"]
      BY <2>1
    <2>3. SaveOK(r)' /\ \A d \in wire : SaveOK(d)'
      BY <1>0, <2>1, <2>2 DEF ProfileInv, SaveOK, Answered
    <2>4. \A d \in wire : Answered(d, "saved") => d \in wire'
      BY <2>1, <2>2 DEF Answered
    <2>5. ProfileInv'
      BY <1>0, <2>1, <2>2, <2>3, <2>4 DEF ProfileInv, Answered
    <2>6. QED
      BY <2>1, <2>5
  <1>3. QED
    BY <1>1, <1>2 DEF ProfileServed

(* An answer older than the one on screen makes it doubtful; if it is not   *)
(* the last, the last is still on its way.                                  *)
LEMMA ProfileIsAnswered ==
  ASSUME FrameInv, ProfileInv, NEW c \in wire, ProfileAnswered(c)
  PROVE  FrameInv' /\ ProfileInv'
  <1>0. /\ {"page", "shown", "me", "name", "phone", "busy", "renaming", "expanded", "landed"}
             \subseteq DOMAIN ui
        /\ server \in ProfileRow /\ SaveOK(c) /\ ui.shown = "profile" /\ ui.landed \in Nat
    BY DEF ProfileInv
  <1>1. /\ FrameInv' /\ UNCHANGED server /\ c.answer # none /\ wire' = wire \ {c}
    BY TakeFrame DEF ProfileAnswered
  <1>2. \A d \in wire' : SaveOK(d)'
    BY <1>1 DEF ProfileInv, SaveOK, Answered
  <1>3. CASE /\ c.answer.code = "saved"
             /\ ui' = [ui EXCEPT !.me = c.answer.row, !.busy = Freed(c.body.section),
                         !.renaming = IF c.body.section = "rename" THEN "no"
                                      ELSE IF @ = "open" /\ ui.me.resume = 0 THEN "focused" ELSE @,
                         !.expanded = none, !.landed = c.answer.row.rev]
             /\ doubtful' = (doubtful \/ c.answer.row.rev < ui.landed)
    <2> DEFINE row == c.answer.row
    <2>1. row \in ProfileRow /\ row.rev <= server.rev /\ (row.rev = server.rev => row = server)
      BY <1>0, <1>1, <1>3 DEF SaveOK, Answered
    <2>2. /\ DOMAIN ui' = DOMAIN ui /\ ui'.shown = "profile" /\ ui'.me = row
          /\ ui'.landed = row.rev /\ ui'.name = ui.name /\ ui'.phone = ui.phone
          /\ ui'.expanded = none
      BY <1>0, <1>3
    <2> HIDE DEF row
    <2>3. row.rev \in Nat /\ server.rev \in Nat
      BY <1>0, <2>1 DEF ProfileRow
    <2>4. ASSUME ~doubtful', row.rev # server.rev
          PROVE  \E d \in wire' : Answered(d, "saved") /\ d.answer.row = server
      <3>1. ~doubtful /\ ui.landed # server.rev
        <4>1. ~doubtful /\ ~(row.rev < ui.landed)
          BY <1>3, <2>4 DEF row
        <4>2. QED
          BY <1>0, <2>1, <2>3, <2>4, <4>1
      <3>2. PICK d \in wire : Answered(d, "saved") /\ d.answer.row = server
        BY <1>0, <3>1 DEF ProfileInv
      <3>3. d # c
        BY <2>4, <3>2 DEF row
      <3>4. QED
        BY <1>1, <3>2, <3>3
    <2>5. ProfileInv'
      BY <1>0, <1>1, <1>2, <2>1, <2>2, <2>3, <2>4 DEF ProfileInv, Answered
    <2>6. QED
      BY <1>1, <2>5
  <1>4. CASE /\ c.answer.code # "saved" /\ ui' = [ui EXCEPT !.busy = Freed(c.body.section)]
             /\ UNCHANGED doubtful
    <2>1. /\ DOMAIN ui' = DOMAIN ui /\ ui'.shown = "profile" /\ ui'.me = ui.me
          /\ ui'.landed = ui.landed /\ ui'.name = ui.name /\ ui'.phone = ui.phone
          /\ ui'.expanded = ui.expanded
      BY <1>0, <1>4
    <2>2. \A d \in wire : Answered(d, "saved") => d \in wire'
      BY <1>1, <1>4 DEF Answered
    <2>3. ProfileInv'
      BY <1>0, <1>1, <1>2, <1>4, <2>1, <2>2 DEF ProfileInv, Answered
    <2>4. QED
      BY <1>1, <2>3
  <1>5. QED
    BY <1>3, <1>4 DEF ProfileAnswered

LEMMA ProfileBreaks ==
  ASSUME FrameInv, ProfileInv, NEW c \in wire, Break(c)
  PROVE  FrameInv' /\ ProfileInv'
  <1>1. /\ FrameInv' /\ UNCHANGED <<ui, server>> /\ doubtful' = (doubtful \/ c.answer # none)
        /\ \E r : /\ wire' = (wire \ {c}) \cup {r} /\ r.body = c.body /\ r.answer = Broken
    BY BreakFrame
  <1>2. PICK r : /\ wire' = (wire \ {c}) \cup {r} /\ r.body = c.body /\ r.answer = Broken
    BY <1>1
  <1>3. SaveOK(c) /\ ui.shown = "profile"
    BY DEF ProfileInv
  <1>4. SaveOK(r)' /\ \A d \in wire : SaveOK(d)'
    BY <1>1, <1>2, <1>3 DEF ProfileInv, SaveOK, Answered, Broken
  <1>5. ~doubtful' => ~doubtful /\ \A d \in wire : Answered(d, "saved") => d \in wire'
    BY <1>1, <1>2 DEF Answered
  <1>6. ProfileInv'
    BY <1>1, <1>2, <1>3, <1>4, <1>5 DEF ProfileInv, Answered
  <1>7. QED
    BY <1>1, <1>6

LEMMA ProfileKept ==
  ASSUME FrameInv, ProfileInv, ProfileStep
  PROVE  FrameInv' /\ ProfileInv'
  BY ProfileEdits, ProfileIsLoaded, ProfileSaves, ProfileIsServed, ProfileIsAnswered
     DEF ProfileStep

-----------------------------------------------------------------------------
(* The board of a company.                                                  *)

LEMMA ColumnFacts ==
  /\ Column = {"APPROVED_BY_ADMIN", "HIRED", "REJECTED"}
  /\ \A i \in 1..Len(Columns) : Columns[i] \in Column
  /\ Droppable \subseteq Column
  <1>1. Len(Columns) = 3 /\ 1..3 = {1, 2, 3}
    BY DEF Columns
  <1>2. Column = {Columns[1], Columns[2], Columns[3]}
    BY <1>1 DEF Column
  <1>3. QED
    BY <1>1, <1>2 DEF Column, Columns, Droppable

(* The moves under way stay what they are, on the board they are of or on a *)
(* later one.                                                               *)
LEMMA MoveOKKept ==
  ASSUME NEW c, MoveOK(c), Cards' = Cards, ui.mount \in Nat, ui'.mount \in Nat,
         ui'.mount >= ui.mount,
         ui'.shown = "loading" => ui'.mount > ui.mount \/ ui.shown = "loading"
  PROVE  MoveOK(c)'
  BY DEF MoveOK, Covers

(* A step that moves no card: a drag begins or ends, a drawer closes.       *)
LEMMA BoardLocal ==
  ASSUME FrameInv, BoardInv, NEW state, Local(state),
         DOMAIN ui \subseteq DOMAIN state, state.shown = ui.shown, state.mount = ui.mount,
         state.apps = ui.apps, state.order = ui.order,
         state.drag # none => /\ ui.shown = "board" /\ state.drag.card \in Cards
                              /\ state.drag.status \in Column /\ state.drag.start \in Column,
         state.drag # none /\ ~doubtful => /\ state.drag.status = ui.apps[state.drag.card]
                                           /\ state.drag.start = ui.apps[state.drag.card]
  PROVE  FrameInv' /\ BoardInv'
  <1>1. /\ FrameInv' /\ ui' = state /\ UNCHANGED <<story, server, wire, sent, doubtful>>
    BY LocalFrame
  <1>2. \A c \in wire : MoveOK(c)'
    BY <1>1, MoveOKKept DEF BoardInv, Cards
  <1>3. ~doubtful /\ ui.shown = "board" => BoardAgrees'
    BY <1>1 DEF BoardInv, BoardAgrees, MoveShown, Mine, Cards
  <1>4. BoardInv'
    BY <1>1, <1>2, <1>3 DEF BoardInv, Cards, Covers
  <1>5. QED
    BY <1>1, <1>4

(* The board is taken away, or a new one is mounted.                        *)
LEMMA BoardGoes ==
  ASSUME FrameInv, BoardInv, NEW state, Local(state),
         {"shown", "mount", "apps", "order", "drag", "drawer"} \subseteq DOMAIN state,
         state.shown # "board", state.drag = none, state.order \in [Column -> SUBSET Cards],
         \/ state.shown # "loading" /\ state.mount = ui.mount
         \/ state.mount = ui.mount + 1
  PROVE  FrameInv' /\ BoardInv'
  <1>1. /\ FrameInv' /\ ui' = state /\ UNCHANGED <<story, server, wire, sent, doubtful>>
    BY LocalFrame
  <1>2. \A c \in wire : MoveOK(c)'
    BY <1>1, MoveOKKept DEF BoardInv, Cards
  <1>3. BoardInv'
    BY <1>1, <1>2 DEF BoardInv, Cards
  <1>4. QED
    BY <1>1, <1>3

LEMMA BoardPages ==
  ASSUME FrameInv, BoardInv, BoardFails \/ SwitchTab
  PROVE  FrameInv' /\ BoardInv'
  <1>0. /\ {"shown", "mount", "apps", "order", "drag", "drawer"} \subseteq DOMAIN ui
        /\ ui.order \in [Column -> SUBSET Cards]
        /\ ui.drag # none => ui.shown = "board"
    BY DEF BoardInv
  <1>1. NoOrder \in [Column -> SUBSET Cards]
    BY DEF NoOrder
  <1>2. \A n : /\ {"shown", "mount", "apps", "order", "drag", "drawer"} = DOMAIN Board(n)
               /\ Board(n).shown = "loading" /\ Board(n).mount = n
               /\ Board(n).order = NoOrder /\ Board(n).drag = none
    BY DEF Board
  <1>3. CASE BoardFails
    <2>1. Local([ui EXCEPT !.shown = "error"]) /\ ui.shown = "loading"
      BY <1>3 DEF BoardFails
    <2> DEFINE state == [ui EXCEPT !.shown = "error"]
    <2>2. /\ {"shown", "mount", "apps", "order", "drag", "drawer"} \subseteq DOMAIN state
          /\ state.shown = "error" /\ state.mount = ui.mount /\ state.drag = none
          /\ state.order \in [Column -> SUBSET Cards]
      BY <1>0, <2>1
    <2>3. Local(state)
      BY <2>1
    <2> HIDE DEF state
    <2>4. QED
      BY <2>2, <2>3, BoardGoes
  <1>4. CASE Local([Board(ui.mount) EXCEPT !.shown = "away"])
    <2> DEFINE state == [Board(ui.mount) EXCEPT !.shown = "away"]
    <2>1. /\ {"shown", "mount", "apps", "order", "drag", "drawer"} \subseteq DOMAIN state
          /\ state.shown = "away" /\ state.mount = ui.mount /\ state.drag = none
          /\ state.order = NoOrder
      BY <1>2
    <2>2. Local(state)
      BY <1>4
    <2> HIDE DEF state
    <2>3. QED
      BY <1>1, <2>1, <2>2, BoardGoes
  <1>5. CASE Local(Board(ui.mount + 1))
    <2> DEFINE state == Board(ui.mount + 1)
    <2>1. /\ {"shown", "mount", "apps", "order", "drag", "drawer"} \subseteq DOMAIN state
          /\ state.shown = "loading" /\ state.mount = ui.mount + 1 /\ state.drag = none
          /\ state.order = NoOrder
      BY <1>2
    <2>2. Local(state)
      BY <1>5
    <2> HIDE DEF state
    <2>3. QED
      BY <1>1, <2>1, <2>2, BoardGoes
  <1>6. QED
    BY <1>3, <1>4, <1>5 DEF SwitchTab

(* Each card is in the column of its status, as it was loaded.              *)
LEMMA BuildOrderFacts ==
  ASSUME NEW apps \in [Cards -> Column]
  PROVE  /\ BuildOrder(apps) \in [Column -> SUBSET Cards] /\ Covers(BuildOrder(apps))
         /\ \A col \in Column, card \in Cards :
              card \in BuildOrder(apps)[col] <=> apps[card] = col
  BY DEF BuildOrder, Covers

LEMMA BoardIsLoaded ==
  ASSUME FrameInv, BoardInv, BoardLoads
  PROVE  FrameInv' /\ BoardInv'
  <1>0. /\ {"shown", "mount", "apps", "order", "drag", "drawer"} \subseteq DOMAIN ui
        /\ server \in [Cards -> Column] /\ ui.shown = "loading" /\ ui.drag = none
        /\ ui.mount \in Nat
    BY DEF BoardInv, BoardLoads
  <1>1. /\ ui' = [ui EXCEPT !.shown = "board", !.apps = server, !.order = BuildOrder(server)]
        /\ doubtful' = (doubtful \/ \E c \in wire : c.answer = none)
        /\ UNCHANGED <<story, server, wire, sent>>
    BY DEF BoardLoads
  <1>2. /\ DOMAIN ui' = DOMAIN ui /\ ui'.shown = "board" /\ ui'.mount = ui.mount
        /\ ui'.apps = server /\ ui'.order = BuildOrder(server) /\ ui'.drag = none
    BY <1>0, <1>1
  <1>3. FrameInv'
    BY <1>1 DEF FrameInv
  <1>4. \A c \in wire : MoveOK(c)'
    BY <1>0, <1>1, <1>2, MoveOKKept DEF BoardInv, Cards
  <1>5. \A c \in wire : ~Mine(c)'
    BY <1>0, <1>2 DEF BoardInv, MoveOK, Mine
  <1>6. BuildOrder(server) \in [Column -> SUBSET Cards] /\ Covers(BuildOrder(server))
    BY <1>0, BuildOrderFacts
  <1>7. (BuildOrder(ui.apps))' = BuildOrder(server)
    BY <1>1, <1>2 DEF BuildOrder
  <1>8. ~doubtful' => BoardAgrees'
    BY <1>1, <1>2, <1>5, <1>7 DEF BoardAgrees
  <1>9. ~doubtful' => ~doubtful
    BY <1>1
  <1>10. BoardInv'
    BY <1>0, <1>1, <1>2, <1>4, <1>6, <1>8, <1>9 DEF BoardInv, Cards, Covers
  <1>11. QED
    BY <1>3, <1>10

LEMMA BoardDrags ==
  ASSUME FrameInv, BoardInv,
         \/ \E card \in DOMAIN ui.apps : PointerDown(card)
         \/ Click \/ CloseDrawer
  PROVE  FrameInv' /\ BoardInv'
  <1>0. /\ {"shown", "mount", "apps", "order", "drag", "drawer"} \subseteq DOMAIN ui
        /\ ui.shown = "board" => ui.apps \in [Cards -> Column]
        /\ ui.drag # none => /\ ui.shown = "board" /\ ui.drag.card \in Cards
                             /\ ui.drag.status \in Column /\ ui.drag.start \in Column
        /\ ui.drag # none /\ ~doubtful => /\ ui.drag.status = ui.apps[ui.drag.card]
                                          /\ ui.drag.start = ui.apps[ui.drag.card]
    BY DEF BoardInv, BoardAgrees
  <1>1. ASSUME NEW card \in DOMAIN ui.apps, PointerDown(card)
        PROVE  FrameInv' /\ BoardInv'
    <2>1. PICK i \in 1..Len(Columns) :
            /\ card \in ui.order[Columns[i]]
            /\ Local([ui EXCEPT !.drag = [card |-> card, status |-> ui.apps[card],
                                          start |-> Columns[i]]])
      BY <1>1 DEF PointerDown
    <2> DEFINE drag  == [card |-> card, status |-> ui.apps[card], start |-> Columns[i]]
               state == [ui EXCEPT !.drag = drag]
    <2>2. ui.shown = "board" /\ card \in Cards /\ Columns[i] \in Column /\ ui.apps[card] \in Column
      BY <1>0, <1>1, ColumnFacts DEF PointerDown
    <2>3. ~doubtful => Columns[i] = ui.apps[card]
      <3>1. ASSUME ~doubtful PROVE ui.order = BuildOrder(ui.apps)
        BY <2>2, <3>1 DEF BoardInv, BoardAgrees
      <3>2. QED
        BY <1>0, <2>1, <2>2, <3>1, BuildOrderFacts
    <2>4. drag.card = card /\ drag.status = ui.apps[card] /\ drag.start = Columns[i]
      OBVIOUS
    <2> HIDE DEF drag
    <2>5. /\ DOMAIN state = DOMAIN ui /\ state.shown = ui.shown /\ state.mount = ui.mount
          /\ state.apps = ui.apps /\ state.order = ui.order /\ state.drag = drag
      BY <1>0
    <2>6. Local(state)
      BY <2>1 DEF drag
    <2> HIDE DEF state
    <2>7. QED
      BY <2>2, <2>3, <2>4, <2>5, <2>6, BoardLocal
  <1>2. CASE Click
    <2>1. CASE Local([ui EXCEPT !.drag = none, !.drawer = ui.drag.card])
      BY <1>0, <2>1, BoardLocal
    <2>2. CASE Local([ui EXCEPT !.drag = none])
      BY <1>0, <2>2, BoardLocal
    <2>3. QED
      BY <1>2, <2>1, <2>2 DEF Click
  <1>3. CASE CloseDrawer
    <2>1. Local([ui EXCEPT !.drawer = none])
      BY <1>3 DEF CloseDrawer
    <2>2. QED
      BY <1>0, <2>1, BoardLocal
  <1>4. QED
    BY <1>1, <1>2, <1>3

(* A card dropped where it came from: on a board that agrees with what it   *)
(* shows, it is there.                                                      *)
LEMMA BoardReorders ==
  ASSUME FrameInv, BoardInv, Reorder
  PROVE  FrameInv' /\ BoardInv'
  <1> DEFINE order == Place(ui.order, ui.drag.start, ui.drag.card)
             state == [ui EXCEPT !.drag = none, !.order = order]
  <1>0. /\ {"shown", "mount", "apps", "order", "drag", "drawer"} \subseteq DOMAIN ui
        /\ ui.shown = "board" /\ ui.apps \in [Cards -> Column] /\ Covers(ui.order)
        /\ ui.drag.card \in Cards /\ ui.drag.start \in Column
        /\ ui.order \in [Column -> SUBSET Cards]
    BY DEF BoardInv, Reorder
  <1>1. order \in [Column -> SUBSET Cards] /\ Covers(order)
    BY <1>0 DEF Place, Covers
  <1>2. ~doubtful => order = ui.order
    <2>1. SUFFICES ASSUME ~doubtful PROVE order = ui.order
      OBVIOUS
    <2>2. ui.order = BuildOrder(ui.apps) /\ ui.drag.start = ui.apps[ui.drag.card]
      BY <1>0, <2>1 DEF BoardInv, BoardAgrees, Reorder
    <2>3. ui.drag.card \in ui.order[ui.drag.start]
      BY <1>0, <2>2, BuildOrderFacts
    <2>4. QED
      BY <1>0, <2>3 DEF Place
  <1> HIDE DEF order
  <1>3. /\ DOMAIN state = DOMAIN ui /\ state.shown = ui.shown /\ state.mount = ui.mount
        /\ state.apps = ui.apps /\ state.order = order /\ state.drag = none
    BY <1>0
  <1>4. Local(state)
    BY DEF Reorder, order
  <1> HIDE DEF state
  <1>5. /\ FrameInv' /\ ui' = state /\ UNCHANGED <<story, server, wire, sent, doubtful>>
    BY <1>4, LocalFrame
  <1>6. \A c \in wire : MoveOK(c)'
    BY <1>3, <1>5, MoveOKKept DEF BoardInv, Cards
  <1>7. ASSUME ~doubtful PROVE BoardAgrees'
    <2>1. /\ ui'.shown = ui.shown /\ ui'.mount = ui.mount /\ ui'.apps = ui.apps
          /\ ui'.order = ui.order /\ ui'.drag = none
      BY <1>2, <1>3, <1>5, <1>7
    <2>2. BoardAgrees
      BY <1>0, <1>7 DEF BoardInv
    <2>3. \A c \in wire : (Mine(c)' <=> Mine(c)) /\ (MoveShown(c)' <=> MoveShown(c))
      BY <1>5, <2>1 DEF Mine, MoveShown
    <2>4. QED
      BY <1>5, <2>1, <2>2, <2>3 DEF BoardAgrees, Cards
  <1>8. BoardInv'
    BY <1>0, <1>1, <1>3, <1>5, <1>6, <1>7 DEF BoardInv, Cards, Covers
  <1>9. QED
    BY <1>5, <1>8

(* A move is shown before it is asked for.                                  *)
LEMMA BoardMoves ==
  ASSUME FrameInv, BoardInv, On("board"), NEW col \in Droppable, MoveTo(col)
  PROVE  FrameInv' /\ BoardInv'
  <1> DEFINE d     == ui.drag
             bare  == [ui.order EXCEPT ![d.start] = Without(@, d.card)]
             order == Place(bare, col, d.card)
             body  == [card |-> d.card, from |-> d.status, to |-> col, snapshot |-> ui.order,
                       mount |-> ui.mount]
             apps  == [ui.apps EXCEPT ![d.card] = col]
  <1>0. /\ {"shown", "mount", "apps", "order", "drag", "drawer"} \subseteq DOMAIN ui
        /\ server \in [Cards -> Column] /\ ui.mount \in Nat
        /\ ui.shown = "board" /\ ui.apps \in [Cards -> Column] /\ Covers(ui.order)
        /\ d.card \in Cards /\ d.start \in Column /\ d.status \in Column
        /\ ui.order \in [Column -> SUBSET Cards]
        /\ col \in Column /\ col # d.start
        /\ ~doubtful => BoardAgrees
    BY ColumnFacts DEF BoardInv, MoveTo
  <1>1. /\ ui' = [ui EXCEPT !.drag = none, !.order = order, !.apps = apps]
        /\ Send("move", body)
        /\ doubtful' = (doubtful \/ \E c \in wire : c.body.card = d.card)
    BY DEF MoveTo
  <1>2. order \in [Column -> SUBSET Cards] /\ Covers(order) /\ apps \in [Cards -> Column]
    <2>1. bare \in [Column -> SUBSET Cards]
      BY <1>0 DEF Without
    <2>2. \A card \in Cards : card # d.card => \E k \in Column : card \in bare[k]
      BY <1>0 DEF Covers, Without
    <2> HIDE DEF bare
    <2>3. order \in [Column -> SUBSET Cards]
      BY <1>0, <2>1 DEF Place
    <2>4. /\ \A k \in Column : bare[k] \subseteq order[k]
          /\ d.card \in order[col]
      BY <1>0, <2>1 DEF Place
    <2>5. Covers(order)
      BY <1>0, <2>2, <2>4 DEF Covers
    <2>6. QED
      BY <1>0, <2>3, <2>5
  <1>3. ~doubtful => order = BuildOrder(apps)
    <2>1. SUFFICES ASSUME ~doubtful PROVE order = BuildOrder(apps)
      OBVIOUS
    <2>2. ui.order = BuildOrder(ui.apps) /\ d.start = ui.apps[d.card]
      BY <1>0, <2>1 DEF BoardAgrees, MoveTo
    <2>3. ASSUME NEW k \in Column, NEW card \in Cards
          PROVE  card \in order[k] <=> apps[card] = k
      <3>1. card \in ui.order[k] <=> ui.apps[card] = k
        BY <1>0, <2>2, BuildOrderFacts
      <3>2. card \in order[k] <=> \/ card \in ui.order[k] /\ ~(k = d.start /\ card = d.card)
                                  \/ k = col /\ card = d.card
        BY <1>0 DEF Place, Without
      <3>3. apps[card] = IF card = d.card THEN col ELSE ui.apps[card]
        BY <1>0
      <3> HIDE DEF order, apps
      <3>4. QED
        BY <1>0, <2>2, <3>1, <3>2, <3>3
    <2>4. BuildOrder(apps) \in [Column -> SUBSET Cards]
      BY <1>2, BuildOrderFacts
    <2>5. \A k \in Column, card \in Cards : card \in BuildOrder(apps)[k] <=> apps[card] = k
      BY <1>2, BuildOrderFacts
    <2> HIDE DEF order, apps
    <2>6. QED
      BY <1>2, <2>3, <2>4, <2>5
  <1>4. /\ body.card = d.card /\ body.from = d.status /\ body.to = col
        /\ body.snapshot = ui.order /\ body.mount = ui.mount
    OBVIOUS
  <1>5. ~doubtful => /\ d.status = ui.apps[d.card]
                     /\ [apps EXCEPT ![d.card] = d.status] = ui.apps
                     /\ ui.order = BuildOrder(ui.apps)
    <2>1. ~doubtful => d.status = ui.apps[d.card] /\ ui.order = BuildOrder(ui.apps)
      BY <1>0 DEF BoardAgrees, MoveTo
    <2>2. QED
      BY <1>0, <2>1
  <1>6. apps[d.card] = col /\ \A card \in Cards : card # d.card => apps[card] = ui.apps[card]
    BY <1>0
  <1> HIDE DEF order, body, apps, bare
  <1>7. "move" \in Kinds(story.screen)
    BY DEF On, Kinds
  <1>8. /\ FrameInv' /\ UNCHANGED server /\ sent' = sent + 1
        /\ \E r : wire' = wire \cup {r} /\ r.n = sent /\ r.body = body /\ r.answer = none
    BY <1>1, <1>7, SendFrame
  <1>9. PICK r : wire' = wire \cup {r} /\ r.n = sent /\ r.body = body /\ r.answer = none
    BY <1>8
  <1>10. /\ DOMAIN ui' = DOMAIN ui /\ ui'.shown = "board" /\ ui'.mount = ui.mount
         /\ ui'.apps = apps /\ ui'.order = order /\ ui'.drag = none
    BY <1>0, <1>1
  <1>11. \A c \in wire : MoveOK(c)'
    BY <1>0, <1>8, <1>10, MoveOKKept DEF BoardInv, Cards
  <1>12. MoveOK(r)'
    BY <1>0, <1>4, <1>8, <1>9, <1>10 DEF MoveOK, Covers, Cards
  <1>13. ASSUME ~doubtful'
         PROVE  /\ \A c, e \in wire' : c.body.card = e.body.card => c = e
                /\ BoardAgrees'
    <2>1. ~doubtful /\ \A c \in wire : c.body.card # d.card
      BY <1>1, <1>13
    <2>2. \A c, e \in wire : c.body.card = e.body.card => c = e
      BY <2>1 DEF BoardInv
    <2>3. \A c, e \in wire' : c.body.card = e.body.card => c = e
      BY <1>4, <1>9, <2>1, <2>2
    <2>4. (ui.order = BuildOrder(ui.apps))'
      BY <1>3, <1>10, <2>1 DEF BuildOrder
    <2>5. \A c \in wire : Mine(c)' <=> Mine(c)
      BY <1>0, <1>10 DEF Mine
    <2>6. ASSUME NEW c \in wire, Mine(c)
          PROVE  MoveShown(c)'
      <3>1. /\ MoveShown(c) /\ c.body.card \in Cards /\ c.body.card # d.card
            /\ c.n \in Nat /\ c.n < sent
        BY <1>0, <2>1, <2>6 DEF BoardAgrees, BoardInv, MoveOK, FrameInv
      <3>2. sent' = sent + 1 /\ sent \in Nat
        BY <1>8 DEF FrameInv
      <3>3. c.n + 1 # sent'
        BY <3>1, <3>2
      <3>4. QED
        BY <1>6, <1>8, <1>10, <3>1, <3>3 DEF MoveShown
    <2>7. Mine(r)'
      BY <1>4, <1>9, <1>10 DEF Mine
    <2>8. server[d.card] = ui.apps[d.card]
      BY <1>0, <2>1 DEF BoardAgrees
    <2>9. MoveShown(r)'
      <3>1. none # Moved
        BY NoneAssumption DEF Moved
      <3>2. (ui.apps[r.body.card] = r.body.to)'
        BY <1>4, <1>6, <1>9, <1>10
      <3>3. (server[r.body.card] = r.body.from)' /\ r.answer # Moved
        BY <1>4, <1>5, <1>8, <1>9, <2>1, <2>8, <3>1
      <3>4. r.body.snapshot = BuildOrder([apps EXCEPT ![r.body.card] = r.body.from])
        BY <1>4, <1>5, <1>9, <2>1
      <3>5. QED
        BY <1>10, <3>2, <3>3, <3>4 DEF MoveShown, BuildOrder
    <2>10. \A c \in wire : ~Mine(c) => c.answer # none
      BY <1>0, <2>1 DEF BoardAgrees
    <2>11. ASSUME NEW card \in Cards, \A c \in wire' : Mine(c)' => c.body.card # card
           PROVE  ui'.apps[card] = server'[card]
      <3>1. card # d.card
        BY <1>4, <1>9, <2>7, <2>11
      <3>2. ui.apps[card] = server[card]
        BY <1>0, <1>9, <2>1, <2>5, <2>11 DEF BoardAgrees
      <3>3. QED
        BY <1>6, <1>8, <1>10, <3>1, <3>2
    <2>12. BoardAgrees'
      BY <1>8, <1>9, <1>10, <2>4, <2>5, <2>6, <2>7, <2>9, <2>10, <2>11 DEF BoardAgrees, Cards
    <2>13. QED
      BY <2>3, <2>12
  <1>14. BoardInv'
    BY <1>0, <1>2, <1>8, <1>9, <1>10, <1>11, <1>12, <1>13 DEF BoardInv, Cards, Covers
  <1>15. QED
    BY <1>8, <1>14

(* A move is carried out, refused, or broken before it was carried out; if  *)
(* its answer is lost, what is shown is doubtful.                           *)
LEMMA BoardAnswer ==
  ASSUME FrameInv, BoardInv, NEW c \in wire, NEW r, NEW a, a # none,
         UNCHANGED <<story, ui, sent>>,
         wire' = (wire \ {c}) \cup {r}, r.n = c.n, r.body = c.body, r.answer = a,
         server' = IF a = Moved THEN [server EXCEPT ![c.body.card] = c.body.to] ELSE server,
         ~doubtful' => ~doubtful /\ c.answer = none
  PROVE  BoardInv'
  <1>0. /\ server \in [Cards -> Column] /\ MoveOK(c)
        /\ c.body.card \in Cards /\ c.body.to \in Column
    BY DEF BoardInv, MoveOK
  <1>1. server' \in [Cards -> Column]
    BY <1>0
  <1>2. Cards' = Cards
    BY <1>0, <1>1 DEF Cards
  <1>3. \A d \in wire : MoveOK(d)'
    BY <1>2, MoveOKKept DEF BoardInv
  <1>4. MoveOK(r)'
    BY <1>3 DEF MoveOK
  <1>5. ASSUME ~doubtful'
        PROVE  \A d, e \in wire' : d.body.card = e.body.card => d = e
    BY <1>5 DEF BoardInv
  <1>6. ASSUME ~doubtful', ui.shown = "board"
        PROVE  BoardAgrees'
    <2>1. BoardAgrees /\ \A d \in wire \ {c} : d.body.card # c.body.card
      BY <1>6 DEF BoardInv
    <2>2. Mine(c) /\ MoveShown(c) /\ c.answer = none
      BY <1>6, <2>1 DEF BoardAgrees
    <2>3. none # Moved
      BY NoneAssumption DEF Moved
    <2>4. \A d : Mine(d)' <=> Mine(d)
      BY DEF Mine
    <2>5. Mine(r)'
      BY <2>2 DEF Mine
    <2>6. server'[c.body.card] = IF a = Moved THEN c.body.to ELSE c.body.from
      BY <1>0, <2>2, <2>3 DEF MoveShown
    <2>7. \A card \in Cards : card # c.body.card => server'[card] = server[card]
      BY <1>0
    <2>8. MoveShown(r)'
      BY <2>2, <2>6 DEF MoveShown, BuildOrder
    <2>9. ASSUME NEW d \in wire \ {c}, Mine(d)
          PROVE  MoveShown(d)'
      <3>1. MoveShown(d) /\ d.body.card \in Cards /\ d.body.card # c.body.card
        BY <2>1, <2>9 DEF BoardAgrees, BoardInv, MoveOK
      <3>2. QED
        BY <2>7, <3>1 DEF MoveShown, BuildOrder
    <2>10. \A d \in wire : ~Mine(d) => d.answer # none
      BY <2>1 DEF BoardAgrees
    <2>11. ASSUME NEW card \in Cards, \A d \in wire' : Mine(d) => d.body.card # card
           PROVE  ui.apps[card] = server'[card]
      <3>1. card # c.body.card
        BY <2>4, <2>5, <2>11
      <3>2. ui.apps[card] = server[card]
        BY <2>1, <2>11, <3>1 DEF BoardAgrees
      <3>3. QED
        BY <2>7, <3>1, <3>2
    <2>12. (ui.order = BuildOrder(ui.apps))'
      BY <2>1 DEF BoardAgrees, BuildOrder
    <2>13. (ui.drag # none => /\ ui.drag.status = ui.apps[ui.drag.card]
                              /\ ui.drag.start = ui.apps[ui.drag.card])'
      BY <2>1 DEF BoardAgrees
    <2>14. \A d \in wire' : IF Mine(d)' THEN MoveShown(d)' ELSE d.answer # none
      BY <2>4, <2>5, <2>8, <2>9, <2>10
    <2>15. \A card \in Cards' :
             (\A d \in wire' : Mine(d)' => d.body.card # card) => ui'.apps[card] = server'[card]
      BY <1>2, <2>4, <2>11
    <2>16. QED
      BY <2>12, <2>13, <2>14, <2>15 DEF BoardAgrees
  <1>7. BoardInv'
    BY <1>1, <1>2, <1>3, <1>4, <1>5, <1>6 DEF BoardInv, Covers
  <1>8. QED
    BY <1>7

LEMMA BoardIsServed ==
  ASSUME FrameInv, BoardInv, NEW c \in wire, MoveServed(c)
  PROVE  FrameInv' /\ BoardInv'
  <1>1. PICK a : /\ a \in {Moved, [code |-> "refused"]}
                 /\ Serve(c, a, IF a = Moved THEN [server EXCEPT ![c.body.card] = c.body.to]
                                ELSE server)
    BY DEF MoveServed, Moved
  <1>2. a # none
    BY <1>1, NoneAssumption DEF Moved
  <1>3. /\ FrameInv' /\ UNCHANGED <<story, ui, sent, doubtful>> /\ c.answer = none
        /\ server' = IF a = Moved THEN [server EXCEPT ![c.body.card] = c.body.to] ELSE server
        /\ \E r : /\ wire' = (wire \ {c}) \cup {r}
                  /\ r.n = c.n /\ r.kind = c.kind /\ r.body = c.body /\ r.answer = a
    BY <1>1, ServeFrame
  <1>4. PICK r : /\ wire' = (wire \ {c}) \cup {r}
                 /\ r.n = c.n /\ r.body = c.body /\ r.answer = a
    BY <1>3
  <1>5. BoardInv'
    BY <1>2, <1>3, <1>4, BoardAnswer
  <1>6. QED
    BY <1>3, <1>5

LEMMA BoardBreaks ==
  ASSUME FrameInv, BoardInv, NEW c \in wire, Break(c)
  PROVE  FrameInv' /\ BoardInv'
  <1>1. /\ FrameInv' /\ UNCHANGED <<story, ui, server, sent>>
        /\ doubtful' = (doubtful \/ c.answer # none)
        /\ \E r : /\ wire' = (wire \ {c}) \cup {r}
                  /\ r.n = c.n /\ r.kind = c.kind /\ r.body = c.body /\ r.answer = Broken
    BY BreakFrame
  <1>2. PICK r : /\ wire' = (wire \ {c}) \cup {r}
                 /\ r.n = c.n /\ r.body = c.body /\ r.answer = Broken
    BY <1>1
  <1>3. Broken # none /\ Broken # Moved
    <2>1. Broken.code = "broken" /\ Moved.code = "moved"
      BY DEF Broken, Moved
    <2>2. QED
      BY <2>1, NoneAssumption DEF Broken
  <1>4. BoardInv'
    BY <1>1, <1>2, <1>3, BoardAnswer
  <1>5. QED
    BY <1>1, <1>4

(* A move that succeeded is already shown.                                  *)
LEMMA BoardMoveSaved ==
  ASSUME FrameInv, BoardInv, NEW c \in wire, MoveSaved(c)
  PROVE  FrameInv' /\ BoardInv'
  <1>0. /\ {"shown", "mount", "apps", "order", "drag", "drawer"} \subseteq DOMAIN ui
        /\ ui.mount \in Nat /\ c.answer = Moved
        /\ ui.shown = "board" => ui.apps \in [Cards -> Column]
        /\ c.body.card \in Cards /\ c.body.to \in Column
    BY DEF BoardInv, MoveOK, MoveSaved, Moved
  <1>1. /\ FrameInv' /\ UNCHANGED <<server, sent, doubtful>> /\ wire' = wire \ {c}
        /\ ui' = IF Mine(c) THEN [ui EXCEPT !.apps[c.body.card] = c.body.to] ELSE ui
    BY TakeFrame DEF MoveSaved
  <1>2. /\ DOMAIN ui' = DOMAIN ui /\ ui'.shown = ui.shown /\ ui'.mount = ui.mount
        /\ ui'.order = ui.order /\ ui'.drag = ui.drag
        /\ ui'.apps = IF Mine(c) THEN [ui.apps EXCEPT ![c.body.card] = c.body.to] ELSE ui.apps
    BY <1>0, <1>1
  <1>3. ui.shown = "board" => ui'.apps \in [Cards -> Column]
    BY <1>0, <1>2
  <1>4. \A d \in wire' : MoveOK(d)'
    BY <1>0, <1>1, <1>2, MoveOKKept DEF BoardInv, Cards
  <1>5. \A d : Mine(d)' <=> Mine(d)
    BY <1>2 DEF Mine
  <1>6. ASSUME ~doubtful, ui.shown = "board"
        PROVE  BoardAgrees'
    <2>1. BoardAgrees
      BY <1>6 DEF BoardInv
    <2>2. ui'.apps = ui.apps
      <3>1. Mine(c) => ui.apps[c.body.card] = c.body.to
        BY <2>1 DEF BoardAgrees, MoveShown
      <3>2. QED
        BY <1>0, <1>2, <1>6, <3>1
    <2>3. \A d \in wire : MoveShown(d) => MoveShown(d)'
      BY <1>1, <2>2 DEF MoveShown
    <2>4. Mine(c) => ui.apps[c.body.card] = server[c.body.card]
      BY <1>0, <2>1 DEF BoardAgrees, MoveShown
    <2>5. ASSUME NEW card \in Cards, \A d \in wire' : Mine(d) => d.body.card # card
          PROVE  ui.apps[card] = server[card]
      <3>1. CASE Mine(c) /\ c.body.card = card
        BY <2>4, <3>1
      <3>2. CASE ~(Mine(c) /\ c.body.card = card)
        BY <1>1, <2>1, <2>5, <3>2 DEF BoardAgrees
      <3>3. QED
        BY <3>1, <3>2
    <2>6. (ui.order = BuildOrder(ui.apps))'
      BY <1>2, <2>1, <2>2 DEF BoardAgrees, BuildOrder
    <2>7. QED
      BY <1>1, <1>2, <1>5, <2>1, <2>2, <2>3, <2>5, <2>6 DEF BoardAgrees, Cards
  <1>7. BoardInv'
    BY <1>0, <1>1, <1>2, <1>3, <1>4, <1>6 DEF BoardInv, Cards, Covers
  <1>8. QED
    BY <1>1, <1>7

(* A move that failed is taken back.  It leaves the board as it was before  *)
(* the move unless another was made since, which makes it doubtful.         *)
LEMMA BoardMoveFails ==
  ASSUME FrameInv, BoardInv, NEW c \in wire, MoveFails(c)
  PROVE  FrameInv' /\ BoardInv'
  <1>0. /\ {"shown", "mount", "apps", "order", "drag", "drawer"} \subseteq DOMAIN ui
        /\ ui.mount \in Nat
        /\ ui.shown = "board" => ui.apps \in [Cards -> Column]
        /\ c.body.card \in Cards /\ c.body.from \in Column
        /\ c.body.snapshot \in [Column -> SUBSET Cards] /\ Covers(c.body.snapshot)
        /\ c.answer # Moved
    BY DEF BoardInv, MoveOK, MoveFails, Moved
  <1>1. /\ FrameInv' /\ UNCHANGED <<server, sent>> /\ c.answer # none /\ wire' = wire \ {c}
    BY TakeFrame DEF MoveFails
  <1>2. CASE ~Mine(c)
    <2>1. UNCHANGED <<ui, doubtful>>
      BY <1>2 DEF MoveFails
    <2>2. \A d \in wire' : MoveOK(d)'
      BY <1>0, <1>1, <2>1, MoveOKKept DEF BoardInv, Cards
    <2>3. \A d : Mine(d)' <=> Mine(d)
      BY <2>1 DEF Mine
    <2>4. \A d \in wire : MoveShown(d) => MoveShown(d)'
      BY <1>1, <2>1 DEF MoveShown, BuildOrder
    <2>5. (ui.order = BuildOrder(ui.apps)) <=> (ui.order = BuildOrder(ui.apps))'
      BY <2>1 DEF BuildOrder
    <2>6. ~doubtful /\ ui.shown = "board" => BoardAgrees'
      BY <1>1, <1>2, <2>1, <2>3, <2>4, <2>5 DEF BoardInv, BoardAgrees, Cards
    <2>7. BoardInv'
      BY <1>1, <2>1, <2>2, <2>6 DEF BoardInv, Cards, Covers
    <2>8. QED
      BY <1>1, <2>7
  <1>3. CASE Mine(c)
    <2> DEFINE apps == [ui.apps EXCEPT ![c.body.card] = c.body.from]
    <2>1. /\ ui' = [ui EXCEPT !.apps[c.body.card] = c.body.from, !.order = c.body.snapshot]
          /\ doubtful' = (doubtful \/ sent > c.n + 1 \/ ui.drag # none)
      BY <1>3 DEF MoveFails
    <2>2. /\ DOMAIN ui' = DOMAIN ui /\ ui'.shown = "board" /\ ui'.mount = ui.mount
          /\ ui'.order = c.body.snapshot /\ ui'.drag = ui.drag /\ ui'.apps = apps
      BY <1>0, <1>3, <2>1 DEF Mine
    <2>3. /\ apps \in [Cards -> Column] /\ apps[c.body.card] = c.body.from
          /\ \A card \in Cards : card # c.body.card => apps[card] = ui.apps[card]
      BY <1>0, <1>3 DEF Mine
    <2> HIDE DEF apps
    <2>4. \A d \in wire' : MoveOK(d)'
      BY <1>0, <1>1, <2>2, MoveOKKept DEF BoardInv, Cards
    <2>5. \A d : Mine(d)' <=> Mine(d)
      BY <1>3, <2>2 DEF Mine
    <2>6. ASSUME ~doubtful'
          PROVE  BoardAgrees'
      <3>1. ~doubtful /\ ui.drag = none /\ ~(sent > c.n + 1)
        BY <2>1, <2>6
      <3>2. BoardAgrees
        BY <1>3, <3>1 DEF BoardInv, Mine
      <3>3. \A d \in wire \ {c} : d.body.card # c.body.card
        BY <3>1 DEF BoardInv
      <3>4. c.n + 1 = sent
        BY <3>1 DEF FrameInv
      <3>5. MoveShown(c)
        BY <1>3, <3>2 DEF BoardAgrees
      <3>6. c.body.snapshot = BuildOrder(apps)
        BY <3>4, <3>5 DEF MoveShown, apps
      <3>7. (ui.order = BuildOrder(ui.apps))'
        BY <2>2, <3>6 DEF BuildOrder
      <3>8. ASSUME NEW d \in wire', Mine(d)
            PROVE  MoveShown(d)'
        <4>1. /\ MoveShown(d) /\ d.body.card \in Cards /\ d.body.card # c.body.card
              /\ d.n \in Nat /\ d.n # c.n /\ c.n \in Nat
          BY <1>1, <3>2, <3>3, <3>8 DEF BoardAgrees, BoardInv, MoveOK, FrameInv
        <4>2. d.n + 1 # sent
          BY <3>4, <4>1
        <4>3. QED
          BY <1>1, <2>2, <2>3, <4>1, <4>2 DEF MoveShown
      <3>9. \A d \in wire' : ~Mine(d) => d.answer # none
        BY <1>1, <3>2 DEF BoardAgrees
      <3>10. server[c.body.card] = c.body.from
        BY <1>0, <3>5 DEF MoveShown
      <3>11. ASSUME NEW card \in Cards, \A d \in wire' : Mine(d) => d.body.card # card
             PROVE  apps[card] = server[card]
        <4>1. CASE card = c.body.card
          BY <2>3, <3>10, <4>1
        <4>2. CASE card # c.body.card
          BY <1>1, <2>3, <3>2, <3>11, <4>2 DEF BoardAgrees
        <4>3. QED
          BY <4>1, <4>2
      <3>12. QED
        BY <1>1, <2>2, <2>5, <3>1, <3>7, <3>8, <3>9, <3>11 DEF BoardAgrees, Cards
    <2>7. ~doubtful' => ~doubtful
      BY <2>1
    <2>8. BoardInv'
      BY <1>0, <1>1, <1>3, <2>2, <2>3, <2>4, <2>6, <2>7 DEF BoardInv, Cards, Covers, Mine
    <2>9. QED
      BY <1>1, <2>8
  <1>4. QED
    BY <1>2, <1>3

LEMMA BoardKept ==
  ASSUME FrameInv, BoardInv, BoardStep
  PROVE  FrameInv' /\ BoardInv'
  BY BoardIsLoaded, BoardPages, BoardDrags, BoardReorders, BoardMoves, BoardIsServed,
     BoardMoveSaved, BoardMoveFails
     DEF BoardStep

-----------------------------------------------------------------------------
(* The screens together.                                                    *)

LEMMA InitScreenInv == Init => ScreenInv
  <1> SUFFICES ASSUME Init PROVE ScreenInv
    OBVIOUS
  <1>1. /\ story \in Stories /\ ui = story.ui /\ server = story.server
        /\ wire = {} /\ sent = 0 /\ doubtful = FALSE
    BY DEF Init
  <1>2. Beginning(story)
    BY <1>1, StoryAssumption
  <1>3. FrameInv
    BY <1>1 DEF FrameInv
  <1>4. ASSUME On("wizard") PROVE WizardInv
    <2>1. PICK member \in BOOLEAN : story.ui = Wizard(member)
      BY <1>2, <1>4 DEF Beginning, On
    <2>2. "application" \in DOMAIN story.server
      BY <1>2, <1>4 DEF Beginning, On
    <2>3. QED
      BY <1>1, <2>1, <2>2 DEF WizardInv, Wizard, OneRequest
  <1>5. ASSUME On("form") PROVE FormInv
    <2>1. /\ \E page \in FormPages : story.ui = Blank(page)
          /\ story.server = [token |-> "open", effects |-> 0]
      BY <1>2, <1>5 DEF Beginning, On
    <2>2. PICK page \in FormPages : story.ui = Blank(page)
      BY <2>1
    <2>3. Blank(page).shown \in {"checking", "opened", "form"}
      BY DEF Blank
    <2>4. QED
      BY <1>1, <2>1, <2>2, <2>3 DEF FormInv, Blank, OneRequest
  <1>6. ASSUME On("board") PROVE BoardInv
    <2>1. story.ui = Board(1) /\ story.server \in [DOMAIN story.server -> Column]
      BY <1>2, <1>6 DEF Beginning, On
    <2>2. QED
      BY <1>1, <2>1 DEF BoardInv, Board, NoOrder, Cards
  <1>7. ASSUME On("application") PROVE DetailInv
    <2>1. story.ui = Detail /\ story.server \in ApplicationRow
      BY <1>2, <1>7 DEF Beginning, On
    <2>2. QED
      BY <1>1, <2>1 DEF DetailInv, Detail, OneRequest
  <1>8. ASSUME On("profile") PROVE ProfileInv
    <2>1. /\ story.ui \in {Desk("page"), Desk("dashboard")} /\ story.server \in ProfileRow
      BY <1>2, <1>8 DEF Beginning, On
    <2>2. QED
      BY <1>1, <2>1 DEF ProfileInv, Desk
  <1>9. QED
    BY <1>3, <1>4, <1>5, <1>6, <1>7, <1>8 DEF ScreenInv

(* A handler runs on its own screen only.                                   *)
LEMMA StepsOfTheScreen ==
  ASSUME FrameInv
  PROVE  /\ WizardStep => On("wizard") /\ UNCHANGED story
         /\ FormStep => On("form") /\ UNCHANGED story
         /\ BoardStep => On("board") /\ UNCHANGED story
         /\ DetailStep => On("application") /\ UNCHANGED story
         /\ ProfileStep => On("profile") /\ UNCHANGED story
  <1>1. Beginning(story)
    BY StoryAssumption DEF FrameInv
  <1>2. story.screen \in {"wizard", "form", "board", "application", "profile"}
    BY <1>1 DEF Beginning
  <1>3. \A c \in wire : /\ c.kind = "apply" => On("wizard")
                        /\ c.kind = "submit" => On("form")
    BY <1>2 DEF FrameInv, Kinds, On
  <1>4. WizardStep => On("wizard") /\ UNCHANGED story
    BY <1>3 DEF WizardStep, Local, Send, Serve, Take, Filling, Wizarding, JobFetched,
       SessionResolves, MeFetched, MeFails, TypeIdentity, IngestResume, ReplaceResume, Consent,
       CloseLegalModal, ClaimAccount, HandleNext, HandleBack, JumpTo, HandleFormSubmit,
       SubmitOffered, ApplicationServed, ApplicationAnswered
  <1>5. FormStep => On("form") /\ UNCHANGED story
    BY <1>3 DEF FormStep, Local, Send, Serve, Take, Open, Filling1, Prefetch, FillIn, ChooseLogo,
       Sign, Agree, ConsentsOffered, CloseText, RegisterNext, RegisterBack, RegisterSubmit,
       CandidateSubmit, ForgotSubmit, ResetSubmit, JobSubmit, ProfileSubmit, SubmitIf, Activate,
       FormServed, FormAnswered
  <1>6. BoardStep => On("board") /\ UNCHANGED story
    BY DEF BoardStep, Local, Send, Serve, Take, BoardLoads, BoardFails, SwitchTab, PointerDown,
       Click, CloseDrawer, Reorder, MoveTo, MoveServed, MoveSaved, MoveFails
  <1>7. DetailStep => On("application") /\ UNCHANGED story
    BY DEF DetailStep, Local, Send, Serve, Take, DetailLoads, StartEditing, EditForm,
       CancelEditing, HandleSave, OpenWithdraw, CloseWithdraw, HandleWithdraw, DownloadResume,
       Downloaded, ApplicationDecided, DetailServed, PatchAnswered, WithdrawAnswered
  <1>8. ProfileStep => On("profile") /\ UNCHANGED story
    BY DEF ProfileStep, Local, Send, Serve, Take, Patch, MeLoads, TypeField, SaveIdentity,
       SaveAutofill, UploadResume, DeleteResume, StartRename, CommitRename, Toggle, SaveInline,
       ProfileServed, ProfileAnswered
  <1>9. QED
    BY <1>4, <1>5, <1>6, <1>7, <1>8

(* ScreenInv is inductive.                                                  *)
LEMMA StepScreenInv == ScreenInv /\ [Next]_vars => ScreenInv'
  <1> SUFFICES ASSUME ScreenInv, [Next]_vars PROVE ScreenInv'
    OBVIOUS
  <1>0. /\ FrameInv
        /\ On("wizard") => WizardInv
        /\ On("form") => FormInv
        /\ On("board") => BoardInv
        /\ On("application") => DetailInv
        /\ On("profile") => ProfileInv
    BY DEF ScreenInv
  <1>1. CASE WizardStep
    <2>1. On("wizard") /\ UNCHANGED story
      BY <1>0, <1>1, StepsOfTheScreen
    <2>2. FrameInv' /\ WizardInv'
      BY <1>0, <1>1, <2>1, WizardKept
    <2>3. QED
      BY <2>1, <2>2 DEF ScreenInv, On
  <1>2. CASE FormStep
    <2>1. On("form") /\ UNCHANGED story
      BY <1>0, <1>2, StepsOfTheScreen
    <2>2. FrameInv' /\ FormInv'
      BY <1>0, <1>2, <2>1, FormKept
    <2>3. QED
      BY <2>1, <2>2 DEF ScreenInv, On
  <1>3. CASE BoardStep
    <2>1. On("board") /\ UNCHANGED story
      BY <1>0, <1>3, StepsOfTheScreen
    <2>2. FrameInv' /\ BoardInv'
      BY <1>0, <1>3, <2>1, BoardKept
    <2>3. QED
      BY <2>1, <2>2 DEF ScreenInv, On
  <1>4. CASE DetailStep
    <2>1. On("application") /\ UNCHANGED story
      BY <1>0, <1>4, StepsOfTheScreen
    <2>2. FrameInv' /\ DetailInv'
      BY <1>0, <1>4, <2>1, DetailKept
    <2>3. QED
      BY <2>1, <2>2 DEF ScreenInv, On
  <1>5. CASE ProfileStep
    <2>1. On("profile") /\ UNCHANGED story
      BY <1>0, <1>5, StepsOfTheScreen
    <2>2. FrameInv' /\ ProfileInv'
      BY <1>0, <1>5, <2>1, ProfileKept
    <2>3. QED
      BY <2>1, <2>2 DEF ScreenInv, On
  <1>6. ASSUME NEW c \in wire, Break(c)
        PROVE  ScreenInv'
    <2>1. FrameInv' /\ UNCHANGED story
      BY <1>0, <1>6, BreakFrame
    <2>2. \A screen : On(screen)' <=> On(screen)
      BY <2>1 DEF On
    <2>3. /\ On("wizard") => WizardInv'
          /\ On("form") => FormInv'
          /\ On("board") => BoardInv'
          /\ On("application") => DetailInv'
          /\ On("profile") => ProfileInv'
      BY <1>0, <1>6, WizardBreaks, FormBreaks, BoardBreaks, DetailBreaks, ProfileBreaks
    <2>4. QED
      BY <2>1, <2>2, <2>3 DEF ScreenInv
  <1>7. CASE UNCHANGED vars
    <2>1. UNCHANGED <<story, ui, server, wire, sent, doubtful>>
      BY <1>7 DEF vars
    <2>2. FrameInv' /\ \A screen : On(screen)' <=> On(screen)
      BY <1>0, <2>1 DEF FrameInv, On
    <2>3. On("wizard") => WizardInv'
      BY <1>0, <2>1 DEF WizardInv, OneRequest, Answered
    <2>4. On("form") => FormInv'
      BY <1>0, <2>1 DEF FormInv, OneRequest, Answered, Step1Holds, WholeEntry
    <2>5. On("board") => BoardInv'
      <3>1. BoardAgrees => BoardAgrees'
        BY <2>1 DEF BoardAgrees, MoveShown, Mine, BuildOrder, Cards
      <3>2. \A c : MoveOK(c) => MoveOK(c)'
        BY <2>1 DEF MoveOK, Covers, Cards
      <3>3. QED
        BY <1>0, <2>1, <3>1, <3>2 DEF BoardInv, Covers, Cards
    <2>6. On("application") => DetailInv'
      BY <1>0, <2>1 DEF DetailInv, OneRequest, Answered, DetailRequestOK, Supersedes, Alike
    <2>7. On("profile") => ProfileInv'
      BY <1>0, <2>1 DEF ProfileInv, Answered, SaveOK
    <2>8. QED
      BY <2>2, <2>3, <2>4, <2>5, <2>6, <2>7 DEF ScreenInv
  <1>8. QED
    BY <1>1, <1>2, <1>3, <1>4, <1>5, <1>6, <1>7 DEF Next

LEMMA ScreenInvHolds == Spec => []ScreenInv
  BY InitScreenInv, StepScreenInv, PTL DEF Spec

-----------------------------------------------------------------------------
(* The theorems.                                                            *)

(* Whatever was typed, prefilled or changed while a session or a profile    *)
(* arrived, applications and forms are sent whole (handleFormSubmit,        *)
(* handleSubmit), one request at a time, and take effect once unless an     *)
(* answer was lost.                                                         *)
THEOREM FormsSubmitWholeAndOnceHolds == Spec => []FormsSubmitWholeAndOnce
  <1>1. ScreenInv => FormsSubmitWholeAndOnce
    <2> SUFFICES ASSUME ScreenInv PROVE FormsSubmitWholeAndOnce
      OBVIOUS
    <2>0. story.screen \in {"wizard", "form", "board", "application", "profile"}
      BY StoryAssumption DEF ScreenInv, FrameInv, Beginning
    <2>1. ASSUME NEW c \in wire
          PROVE  /\ c.kind = "apply" => On("wizard")
                 /\ c.kind = "submit" => On("form")
      BY <2>0 DEF ScreenInv, FrameInv, Kinds, On
    <2>2. \A c \in wire : /\ c.kind = "apply"  => WholeApplication(c.body)
                          /\ c.kind = "submit" => WholeEntry(c.body)
      BY <2>1 DEF ScreenInv, WizardInv, FormInv
    <2> DEFINE calls == {c \in wire : c.kind \in {"apply", "submit"}}
    <2>3. \A c, d \in calls : c = d
      BY <2>1 DEF ScreenInv, WizardInv, FormInv, OneRequest
    <2>4. calls = {} \/ \E c : calls = {c}
      BY <2>3
    <2> HIDE DEF calls
    <2>5. Cardinality(calls) <= 1
      <3>1. CASE calls = {}
        BY <3>1, FS_EmptySet
      <3>2. ASSUME NEW c, calls = {c} PROVE Cardinality(calls) <= 1
        BY <3>2, FS_Singleton
      <3>3. QED
        BY <2>4, <3>1, <3>2
    <2>6. On("form") /\ ui.page # "companyProfile" => server.effects <= 1 \/ doubtful
      BY DEF ScreenInv, FormInv
    <2>7. QED
      BY <2>2, <2>5, <2>6 DEF FormsSubmitWholeAndOnce, calls
  <1>2. QED
    BY <1>1, ScreenInvHolds, PTL

(* Whatever moves of the board fail (onPointerUp), and whenever, every card *)
(* is in some column.                                                       *)
THEOREM NoCardIsLostHolds == Spec => []NoCardIsLost
  <1>1. ScreenInv => NoCardIsLost
    BY DEF ScreenInv, BoardInv, Covers, NoCardIsLost, Holding
  <1>2. QED
    BY <1>1, ScreenInvHolds, PTL

(* Once no move is under way, and unless the code cannot know, every card   *)
(* is in the column of its status on the server and in no other.            *)
THEOREM ColumnsAgreeWithServerHolds == Spec => []ColumnsAgreeWithServer
  <1>1. ScreenInv => ColumnsAgreeWithServer
    <2> SUFFICES ASSUME ScreenInv, On("board"), ui.shown = "board", wire = {}, ~doubtful,
                        NEW card \in Cards
                 PROVE  Holding(ui.order, card) = {server[card]} /\ ui.apps[card] = server[card]
      BY DEF ColumnsAgreeWithServer
    <2>1. /\ ui.apps \in [Cards -> Column] /\ ui.order = BuildOrder(ui.apps)
          /\ ui.apps[card] = server[card] /\ server[card] \in Column
      BY DEF ScreenInv, BoardInv, BoardAgrees
    <2>2. \A col \in Column : card \in ui.order[col] <=> ui.apps[card] = col
      BY <2>1, BuildOrderFacts
    <2>3. QED
      BY <2>1, <2>2 DEF Holding
  <1>2. QED
    BY <1>1, ScreenInvHolds, PTL

(* A success screen follows an effect, and an application and a profile on  *)
(* screen (handleSave, updateMe) are those of the server once nothing is    *)
(* under way, unless an answer was lost or overtook another.                *)
THEOREM ShownRecordIsSavedHolds == Spec => []ShownRecordIsSaved
  <1>1. ScreenInv => ShownRecordIsSaved
    <2> SUFFICES ASSUME ScreenInv PROVE ShownRecordIsSaved
      OBVIOUS
    <2>1. On("wizard") /\ ui.shown = "success" => server.application # none
      BY DEF ScreenInv, WizardInv
    <2>2. On("form") /\ ui.shown = "success" => server.effects > 0
      BY DEF ScreenInv, FormInv
    <2>3. On("application") /\ ui.shown = "detail" /\ wire = {} /\ ~doubtful =>
            Alike(ui.data, server)
      BY DEF ScreenInv, DetailInv
    <2>4. On("profile") /\ ui.shown = "profile" /\ wire = {} /\ ~doubtful => ui.me = server
      BY DEF ScreenInv, ProfileInv
    <2>5. QED
      BY <2>1, <2>2, <2>3, <2>4 DEF ShownRecordIsSaved, Alike
  <1>2. QED
    BY <1>1, ScreenInvHolds, PTL

=============================================================================
