-------------------------------- MODULE Forms --------------------------------
(***************************************************************************)
(* Forms that are filled in and submitted once: registration of a company  *)
(* by an invite (RegisterPage, in two steps) and of a candidate            *)
(* (RegisterCandidatePage), the two password pages, activation, the form   *)
(* of a job (JobForm) and the profile of a company (CompanyProfilePage).   *)
(*                                                                         *)
(* The text fields of a page are one: refused says whether its validators  *)
(* would refuse some of them.                                              *)
(***************************************************************************)
EXTENDS ScreenFrame

FormPages  == {"company", "candidate", "forgot", "reset", "activate", "job", "companyProfile"}
ByToken    == {"company", "reset", "activate"}       \* pages opened by a link of one use
Prefetched == {"company", "reset", "companyProfile"} \* pages that load something first
Agreeing   == {"company", "candidate"}               \* pages with terms and privacy
Texts      == {"privacy", "terms"}

Blank(page) ==
  [page |-> page, step |-> 1,
   shown |-> CASE page \in Prefetched -> "checking" [] page = "activate" -> "opened"
               [] OTHER -> "form",
   refused |-> page # "companyProfile", logo |-> FALSE, signed |-> FALSE,
   consents |-> {}, reading |-> none, submitting |-> FALSE, hint |-> none]

Open(page) == On("form") /\ ui.page = page /\ ui.shown = "form" /\ ui.reading = none
Filling1   == On("form") /\ ui.shown = "form" /\ ui.reading = none /\ ui.step = 1

\* The invite, the reset token or the profile was fetched; or it was not.
Prefetch ==
  /\ On("form") /\ ui.shown = "checking" /\ ui.page \in Prefetched
  /\ \/ server.token = "open" /\ Local([ui EXCEPT !.shown = "form"])
     \/ Local([ui EXCEPT !.shown = "invalid"])

\* Typing takes down the error of a field.
FillIn ==
  /\ Filling1
  /\ \E refused \in BOOLEAN :
       Local([ui EXCEPT !.refused = refused, !.hint = IF @ = "form" THEN @ ELSE none])

ChooseLogo == Open("company") /\ ui.step = 1 /\ Local([ui EXCEPT !.logo = ~@])

Sign == Open("company") /\ ui.step = 2 /\ Local([ui EXCEPT !.signed = ~@])

\* Consents are on the second step of a company and on the only one of a candidate.
ConsentsOffered == \/ Open("company") /\ ui.step = 2
                   \/ Open("candidate")

Agree ==
  /\ ConsentsOffered
  /\ \E k \in Texts :
       \/ Local([ui EXCEPT !.consents = IF k \in @ THEN @ \ {k} ELSE @ \cup {k}])
       \/ Local([ui EXCEPT !.reading = k])

\* Here a text may be closed without being accepted.
CloseText ==
  /\ On("form") /\ ui.shown = "form" /\ ui.reading # none
  /\ \E agreed \in {{}, {ui.reading}} :
       Local([ui EXCEPT !.consents = @ \cup agreed, !.reading = none])

-----------------------------------------------------------------------------
(* RegisterPage: the first step is validated when it is left, the second    *)
(* when the form is submitted; the signature goes with the second step.     *)

Step1Holds(f) == ~f.refused /\ f.logo
Step2Holds(f) == f.signed /\ f.consents = Texts

RegisterNext ==
  /\ Open("company") /\ ui.step = 1
  /\ Local(IF Step1Holds(ui) THEN [ui EXCEPT !.step = 2, !.hint = none]
           ELSE [ui EXCEPT !.hint = "fields"])

RegisterBack ==
  /\ Open("company") /\ ui.step = 2
  /\ Local([ui EXCEPT !.step = 1, !.signed = FALSE, !.hint = none])

Entry(f) == [page |-> f.page, refused |-> f.refused, logo |-> f.logo, signed |-> f.signed,
             consents |-> f.consents]

SubmitIf(holds) ==
  \/ ~holds /\ Local([ui EXCEPT !.hint = "fields"])
  \/ /\ holds /\ ui' = [ui EXCEPT !.submitting = TRUE, !.hint = none]
     /\ Send("submit", Entry(ui)) /\ UNCHANGED doubtful

\* Every submit button is dead while its request is under way.
RegisterSubmit ==
  Open("company") /\ ui.step = 2 /\ ~ui.submitting /\ SubmitIf(Step2Holds(ui))

CandidateSubmit ==
  Open("candidate") /\ ~ui.submitting /\ SubmitIf(~ui.refused /\ ui.consents = Texts)

ForgotSubmit  == Open("forgot") /\ ~ui.submitting /\ SubmitIf(~ui.refused)
ResetSubmit   == Open("reset") /\ ~ui.submitting /\ SubmitIf(~ui.refused)
JobSubmit     == Open("job") /\ ~ui.submitting /\ SubmitIf(~ui.refused)
ProfileSubmit == Open("companyProfile") /\ ~ui.submitting /\ SubmitIf(~ui.refused)

\* The activation page asks by itself, once.
Activate ==
  /\ On("form") /\ ui.page = "activate" /\ ui.shown = "opened"
  /\ ui' = [ui EXCEPT !.shown = "checking"]
  /\ Send("submit", Entry(ui)) /\ UNCHANGED doubtful

\* A link is good for one request that succeeds.
FormServed(c) ==
  /\ c.kind = "submit"
  /\ \/ /\ c.body.page \in ByToken => server.token = "open"
        /\ Serve(c, [code |-> "created"],
                 [token |-> IF c.body.page \in ByToken THEN "used" ELSE "open",
                  effects |-> server.effects + 1])
     \/ /\ c.body.page \in ByToken /\ server.token = "used"
        /\ Serve(c, [code |-> "invalid"], server)
     \/ /\ c.body.page \in {"company", "reset"}
        /\ Serve(c, [code |-> "password"], server)
     \/ Serve(c, [code |-> "refused"], server)

After(code) ==
  CASE code = "created" -> IF ui.page = "job" THEN "left"
                           ELSE IF ui.page = "companyProfile" THEN "form" ELSE "success"
    [] code # "created" /\ (ui.page = "activate" \/ (ui.page = "reset" /\ code = "invalid")) ->
         "invalid"
    [] OTHER -> "form"

\* Back is not dead while submitting: the answer may find the first step on screen.
FormAnswered(c) ==
  /\ c.kind = "submit" /\ Take(c) /\ UNCHANGED doubtful
  /\ ui' = [ui EXCEPT !.submitting = FALSE, !.shown = After(c.answer.code),
              !.hint = CASE c.answer.code = "created"  -> none
                         [] c.answer.code = "password" -> "password"
                         [] OTHER -> "form"]

FormStep ==
  \/ Prefetch \/ FillIn \/ ChooseLogo \/ Sign \/ Agree \/ CloseText
  \/ RegisterNext \/ RegisterBack \/ RegisterSubmit \/ CandidateSubmit
  \/ ForgotSubmit \/ ResetSubmit \/ JobSubmit \/ ProfileSubmit \/ Activate
  \/ \E c \in wire : FormServed(c) \/ FormAnswered(c)

=============================================================================
