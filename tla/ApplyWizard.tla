----------------------------- MODULE ApplyWizard -----------------------------
(***************************************************************************)
(* The three steps of an application (pages/public/ApplicationPage.tsx):   *)
(* identity, resume, questions with consents and the offer to claim an     *)
(* account.  The session of a candidate and the profile it prefills from   *)
(* may arrive at any moment, over what was typed.                          *)
(*                                                                         *)
(* What the wizard validates is kept as the set of the fields it would     *)
(* refuse: "email", and "phone", which stands for the other fields of the  *)
(* first step.  The questions are limited by their maxLength.              *)
(***************************************************************************)
EXTENDS ScreenFrame

TOTAL_STEPS == 3
Consents    == {"privacy", "terms"}

\* A mounted wizard: member says whether the session was known by then.
Wizard(member) ==
  [shown |-> "loading", member |-> member, me |-> IF member THEN "fetching" ELSE "none",
   step |-> 1, maxStep |-> 1,
   refused |-> IF member THEN {"phone"} ELSE {"phone", "email"},
   file |-> FALSE, saved |-> FALSE, resumeError |-> FALSE,
   consents |-> {}, reading |-> none, claim |-> "off", submitting |-> FALSE]

Filling(step) == On("wizard") /\ ui.shown = "form" /\ ui.step = step /\ ui.reading = none
Wizarding     == On("wizard") /\ ui.shown = "form" /\ ui.reading = none

\* The job arrives, or is not open for applications.
JobFetched ==
  /\ On("wizard") /\ ui.shown = "loading"
  /\ \E page \in {"form", "unavailable"} : Local([ui EXCEPT !.shown = page])

\* The refresh probe ends after the page was mounted: the email is mirrored from the session.
SessionResolves ==
  /\ On("wizard") /\ ui.shown \in {"loading", "form"} /\ ~ui.member
  /\ Local([ui EXCEPT !.member = TRUE, !.me = "fetching", !.refused = @ \ {"email"}])

\* The profile overrides what was typed wherever it holds something.
MeFetched ==
  /\ On("wizard") /\ ui.shown \in {"loading", "form"} /\ ui.me = "fetching"
  /\ Local([ui EXCEPT !.me = "fetched", !.saved = @ \/ server.resume,
              !.refused = CASE server.phone = "refused"  -> @ \cup {"phone"}
                            [] server.phone = "accepted" -> @ \ {"phone"}
                            [] server.phone = none       -> @])

MeFails ==
  /\ On("wizard") /\ ui.shown \in {"loading", "form"} /\ ui.me = "fetching"
  /\ Local([ui EXCEPT !.me = "none"])

\* The email of a member is read-only.
TypeIdentity ==
  /\ Filling(1)
  /\ \E field \in {"phone"} \cup (IF ui.member THEN {} ELSE {"email"}) :
       \/ Local([ui EXCEPT !.refused = @ \cup {field}])
       \/ Local([ui EXCEPT !.refused = @ \ {field}])

\* A file picked or dropped: ingested, or refused for its extension or size.
IngestResume ==
  /\ Filling(2)
  /\ \/ Local([ui EXCEPT !.file = TRUE, !.resumeError = FALSE])
     \/ Local([ui EXCEPT !.resumeError = TRUE])

\* "Replace" forgets the file, or the saved resume, and opens the picker.
ReplaceResume ==
  /\ Filling(2)
  /\ \/ ui.file /\ Local([ui EXCEPT !.file = FALSE, !.resumeError = FALSE])
     \/ ~ui.file /\ ui.saved /\ Local([ui EXCEPT !.saved = FALSE])

\* Members gave their consents when they were activated, and have an account.
Consent ==
  /\ Filling(3) /\ ~ui.member
  /\ \E k \in Consents :
       \/ Local([ui EXCEPT !.consents = IF k \in @ THEN @ \ {k} ELSE @ \cup {k}])
       \/ Local([ui EXCEPT !.reading = k])

\* Closing the text of a consent, in any way, accepts it.
CloseLegalModal ==
  /\ On("wizard") /\ ui.shown = "form" /\ ui.reading # none
  /\ Local([ui EXCEPT !.consents = @ \cup {ui.reading}, !.reading = none])

ClaimAccount ==
  /\ Filling(3) /\ ~ui.member
  /\ \E c \in {"off", "weak", "strong"} : Local([ui EXCEPT !.claim = c])

-----------------------------------------------------------------------------
(* Moving between the steps, and submitting.                                *)

HasResume(w) == w.file \/ w.saved

\* validateStep: whether a step holds, and what looking at it leaves on screen.
StepHolds(w, step) ==
  CASE step = 1 -> "phone" \notin w.refused /\ (w.member \/ "email" \notin w.refused)
    [] step = 2 -> HasResume(w) /\ ~w.resumeError
    [] step = 3 -> w.member \/ w.consents = Consents

Looked(w, step) ==
  IF step = 2 /\ ~HasResume(w) THEN [w EXCEPT !.resumeError = TRUE] ELSE w

MaxStep(w) == IF w.step > w.maxStep THEN w.step ELSE w.maxStep

HandleNext ==
  /\ Wizarding /\ ui.step < TOTAL_STEPS
  /\ LET w    == Looked(ui, ui.step)
         next == [w EXCEPT !.step = @ + 1]
     IN  Local(IF StepHolds(ui, ui.step) THEN [next EXCEPT !.maxStep = MaxStep(next)] ELSE w)

HandleBack == Wizarding /\ ui.step > 1 /\ Local([ui EXCEPT !.step = @ - 1])

\* Backward jumps are free; a forward jump stops at the first step that does not hold.
JumpTo(target) ==
  /\ Wizarding /\ target # ui.step /\ target <= ui.maxStep
  /\ LET failing == {s \in ui.step .. target - 1 : ~StepHolds(ui, s)}
         stop    == CHOOSE s \in failing : \A t \in failing : s <= t
     IN  Local(IF target < ui.step \/ failing = {} THEN [ui EXCEPT !.step = target]
               ELSE Looked([ui EXCEPT !.step = stop], stop))

\* Mutant: the first step is not looked at again.
FailingBeyondFirst(w) == {s \in 2..TOTAL_STEPS : ~StepHolds(w, s)}

\* doFinalSubmit sends nothing unless every step holds, and returns to one that does not.
Failing(w) == {s \in 1..TOTAL_STEPS : ~StepHolds(w, s)}
FirstFailing(w) == CHOOSE s \in Failing(w) : \A t \in Failing(w) : s <= t

\* The button, and Enter with it, is dead while submitting or before both consents.
SubmitOffered == Filling(TOTAL_STEPS) /\ ~ui.submitting /\ (ui.member \/ ui.consents = Consents)

Application(w) ==
  [refused |-> w.refused, resume |-> w.file \/ w.saved, member |-> w.member,
   consents |-> w.consents, password |-> IF w.member \/ w.claim = "off" THEN none ELSE w.claim]

\* A password that is too weak, or typed differently twice, only shows an error.
HandleFormSubmit ==
  /\ SubmitOffered
  /\ \/ /\ Failing(ui) # {}
        /\ LET stop == FirstFailing(ui) IN Local(Looked([ui EXCEPT !.step = stop], stop))
     \/ /\ Failing(ui) = {} /\ (ui.member \/ ui.claim # "weak")
        /\ ui' = [ui EXCEPT !.submitting = TRUE]
        /\ Send("apply", Application(ui)) /\ UNCHANGED doubtful

\* One application of a candidate for a job; it stays editable until it is looked at.
ApplicationServed(c) ==
  /\ c.kind = "apply"
  /\ \/ /\ server.application = none
        /\ Serve(c, [code |-> "created"], [server EXCEPT !.application = "editable"])
     \/ /\ server.application # none
        /\ Serve(c, [code |-> server.application], server)
     \/ Serve(c, [code |-> "refused"], server)

\* An application that can still be edited is opened instead.
ApplicationAnswered(c) ==
  /\ c.kind = "apply" /\ Take(c) /\ UNCHANGED doubtful
  /\ ui' = [ui EXCEPT !.submitting = FALSE,
              !.shown = CASE c.answer.code = "created"  -> "success"
                          [] c.answer.code = "editable" -> "left"
                          [] OTHER -> @]

WizardStep ==
  \/ JobFetched \/ SessionResolves \/ MeFetched \/ MeFails
  \/ TypeIdentity \/ IngestResume \/ ReplaceResume \/ Consent \/ CloseLegalModal \/ ClaimAccount
  \/ HandleNext \/ HandleBack \/ \E s \in 1..TOTAL_STEPS : JumpTo(s)
  \/ HandleFormSubmit
  \/ \E c \in wire : ApplicationServed(c) \/ ApplicationAnswered(c)

=============================================================================
