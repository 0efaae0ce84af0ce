------------------------------- MODULE Screens -------------------------------
(***************************************************************************)
(* The screens of visitors, candidates and companies: a behaviour is about *)
(* one of them, its requests, the server and the connection.               *)
(***************************************************************************)
EXTENDS ApplyWizard, Forms, CompanyBoard, CandidateDesk

\* A story begins with a screen that was just mounted and the rows the server has by then; the
\* rev of a profile counts the writes from there.
Beginning(s) ==
  \/ /\ s.screen = "wizard" /\ s.ui \in {Wizard(member) : member \in BOOLEAN}
     /\ s.server \in [application : {none, "editable", "locked"},
                      phone : {none, "refused", "accepted"}, resume : BOOLEAN]
  \/ /\ s.screen = "form" /\ s.ui \in {Blank(page) : page \in FormPages}
     /\ s.server = [token |-> "open", effects |-> 0]
  \/ /\ s.screen = "board" /\ s.ui = Board(1)
     /\ s.server \in [DOMAIN s.server -> Column]
  \/ /\ s.screen = "application" /\ s.ui = Detail
     /\ s.server \in ApplicationRow /\ s.server.exists
  \/ /\ s.screen = "profile" /\ s.ui \in {Desk("page"), Desk("dashboard")}
     /\ s.server \in ProfileRow /\ s.server.rev = 0

ASSUME StoryAssumption == \A s \in Stories : Beginning(s)

\* What is compared with null is not null.
ASSUME NoneAssumption ==
  /\ none # "editable" /\ none \notin DetailEdit
  /\ none \notin [code : {"created", "moved", "invalid", "password", "refused", "withdrawn",
                         "notEditable", "broken"}]
  /\ none \notin [code : {"saved"}, row : ApplicationRow]
  /\ none \notin [code : {"saved"}, row : ProfileRow]

Init ==
  /\ story \in Stories
  /\ ui = story.ui /\ server = story.server
  /\ wire = {} /\ sent = 0 /\ doubtful = FALSE

Next ==
  \/ WizardStep \/ FormStep \/ BoardStep \/ DetailStep \/ ProfileStep
  \/ \E c \in wire : Break(c)

Spec == Init /\ [][Next]_vars

-----------------------------------------------------------------------------
(* Properties.                                                              *)

\* What the wizard of an application may send (doFinalSubmit), wherever its steps were when the
\* session, the profile or the candidate's own edits changed them.
WholeApplication(a) ==
  /\ "phone" \notin a.refused /\ (a.member \/ "email" \notin a.refused)
  /\ a.resume /\ (a.member \/ a.consents = Consents)
  /\ a.password \in {none, "strong"}

\* What a form may send: the second step of RegisterPage does not look at the first again.
WholeEntry(e) ==
  e.page # "activate" => /\ ~e.refused
                         /\ e.page = "company" => e.logo /\ e.signed
                         /\ e.page \in Agreeing => e.consents = Texts

\* Applications and forms are sent whole, one request at a time, and take effect once unless an
\* answer was lost (handleSubmit and its isSubmitting, handleFormSubmit).
FormsSubmitWholeAndOnce ==
  /\ \A c \in wire : /\ c.kind = "apply"  => WholeApplication(c.body)
                     /\ c.kind = "submit" => WholeEntry(c.body)
  /\ Cardinality({c \in wire : c.kind \in {"apply", "submit"}}) <= 1
  /\ On("form") /\ ui.page # "companyProfile" => server.effects <= 1 \/ doubtful

\* Whatever moves fail, and whenever, every card of the board is in some column.
NoCardIsLost ==
  On("board") /\ ui.shown = "board" => \A card \in Cards : Holding(ui.order, card) # {}

\* Once no move is under way, every card is in the column of its status on the server and in no
\* other: a move that failed was taken back.  Unless the code has no way to know: an answer was
\* lost, two moves of a card crossed, or a failure came after another move was made or during a
\* drag.
ColumnsAgreeWithServer ==
  On("board") /\ ui.shown = "board" /\ wire = {} /\ ~doubtful =>
    \A card \in Cards : /\ Holding(ui.order, card) = {server[card]}
                        /\ ui.apps[card] = server[card]

\* What a candidate sees as saved is: a success screen follows an effect, an application and a
\* profile on screen are those of the server once nothing is under way, unless an answer was
\* lost or answers came in another order than they were given.
ShownRecordIsSaved ==
  /\ On("wizard") /\ ui.shown = "success" => server.application # none
  /\ On("form") /\ ui.shown = "success" => server.effects > 0
  /\ On("application") /\ ui.shown = "detail" /\ wire = {} /\ ~doubtful =>
       <<ui.data.answer, ui.data.resume, ui.data.exists>>
         = <<server.answer, server.resume, server.exists>>
  /\ On("profile") /\ ui.shown = "profile" /\ wire = {} /\ ~doubtful => ui.me = server

=============================================================================
