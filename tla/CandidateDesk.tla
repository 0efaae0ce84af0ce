---------------------------- MODULE CandidateDesk ----------------------------
(***************************************************************************)
(* What a candidate edits: one application                                 *)
(* (pages/candidate/CandidateApplicationDetailPage.tsx), and the profile,  *)
(* from its page (CandidateProfilePage with its sections) or from the      *)
(* dashboard (DashboardProfileCompletion and its inline editor).           *)
(*                                                                         *)
(* Every save of the profile answers with the whole record and replaces    *)
(* the one on screen; rev counts the writes, to tell the answers apart.    *)
(***************************************************************************)
EXTENDS ScreenFrame

-----------------------------------------------------------------------------
(* An application: the answers, the resume, and whether it may be changed.  *)

ApplicationRow == [answer : {0, 1}, resume : {0, 1}, editable : BOOLEAN, exists : BOOLEAN]
DetailEdit     == [answer : {0, 1}, staged : BOOLEAN]

Detail == [shown |-> "loading", data |-> none, form |-> none, saving |-> FALSE,
           confirm |-> FALSE, withdrawing |-> FALSE, downloading |-> FALSE]

Reading == On("application") /\ ui.shown = "detail" /\ ~ui.confirm
Viewing == Reading /\ ui.form = none
Editing == Reading /\ ui.form # none

DetailLoads ==
  /\ On("application") /\ ui.shown = "loading"
  /\ \/ server.exists /\ Local([ui EXCEPT !.shown = "detail", !.data = server])
     \/ Local([ui EXCEPT !.shown = "error"])

StartEditing ==
  /\ Viewing /\ ui.data.editable
  /\ Local([ui EXCEPT !.form = [answer |-> ui.data.answer, staged |-> FALSE]])

EditForm ==
  /\ Editing
  /\ \/ \E a \in {0, 1} : Local([ui EXCEPT !.form.answer = a])
     \/ \E f \in BOOLEAN : Local([ui EXCEPT !.form.staged = f])

CancelEditing == Editing /\ ~ui.saving /\ Local([ui EXCEPT !.form = none])

\* Only what differs from the record on screen is sent.
HandleSave ==
  /\ Editing /\ ~ui.saving
  /\ LET changed == ui.form.answer # ui.data.answer
     IN  \/ /\ ~changed /\ ~ui.form.staged
            /\ Local([ui EXCEPT !.form = none])
         \/ /\ changed \/ ui.form.staged
            /\ ui' = [ui EXCEPT !.saving = TRUE]
            /\ Send("patch", [answer |-> IF changed THEN ui.form.answer ELSE none,
                              resume |-> ui.form.staged])
            /\ UNCHANGED doubtful

OpenWithdraw == Viewing /\ ui.data.editable /\ Local([ui EXCEPT !.confirm = TRUE])

Confirming == On("application") /\ ui.shown = "detail" /\ ui.confirm /\ ~ui.withdrawing
CloseWithdraw == Confirming /\ Local([ui EXCEPT !.confirm = FALSE])

HandleWithdraw ==
  /\ Confirming
  /\ ui' = [ui EXCEPT !.withdrawing = TRUE]
  /\ Send("withdraw", none) /\ UNCHANGED doubtful

DownloadResume ==
  Viewing /\ ~ui.downloading /\ Local([ui EXCEPT !.downloading = TRUE])

\* A download that fails takes the place of the page, and of the edit begun meanwhile.
Downloaded ==
  /\ On("application") /\ ui.downloading
  /\ \/ Local([ui EXCEPT !.downloading = FALSE])
     \/ Local([ui EXCEPT !.downloading = FALSE,
                 !.shown = IF @ = "detail" THEN "error" ELSE @])

\* The administrator looks at the application: it can no longer be changed.
ApplicationDecided ==
  /\ On("application") /\ server.editable
  /\ server' = [server EXCEPT !.editable = FALSE]
  /\ UNCHANGED <<story, ui, wire, sent, doubtful>>

DetailServed(c) ==
  \/ /\ c.kind = "patch" /\ server.editable
     /\ LET row == [server EXCEPT !.answer = IF c.body.answer = none THEN @ ELSE c.body.answer,
                                  !.resume = IF c.body.resume THEN 1 - @ ELSE @]
        IN  Serve(c, [code |-> "saved", row |-> row], row)
  \/ /\ c.kind = "withdraw" /\ server.editable
     /\ Serve(c, [code |-> "withdrawn"], [server EXCEPT !.exists = FALSE, !.editable = FALSE])
  \/ /\ c.kind \in {"patch", "withdraw"} /\ ~server.editable
     /\ Serve(c, [code |-> "notEditable"], server)
  \/ c.kind \in {"patch", "withdraw"} /\ Serve(c, [code |-> "refused"], server)

\* Mutant: the page shows what was typed instead of the record in the answer.
PatchTrusted(c) ==
  /\ c.kind = "patch" /\ Take(c) /\ UNCHANGED doubtful
  /\ ui' = CASE c.answer.code = "saved" ->
                  [ui EXCEPT !.data.answer = ui.form.answer, !.form = none, !.saving = FALSE]
             [] c.answer.code = "notEditable" -> Detail
             [] OTHER -> [ui EXCEPT !.saving = FALSE]

\* An application that can no longer be edited reloads the whole page.
PatchAnswered(c) ==
  /\ c.kind = "patch" /\ Take(c) /\ UNCHANGED doubtful
  /\ ui' = CASE c.answer.code = "saved" ->
                  [ui EXCEPT !.data = c.answer.row, !.form = none, !.saving = FALSE]
             [] c.answer.code = "notEditable" -> Detail
             [] OTHER -> [ui EXCEPT !.saving = FALSE]

WithdrawAnswered(c) ==
  /\ c.kind = "withdraw" /\ Take(c) /\ UNCHANGED doubtful
  /\ ui' = CASE c.answer.code = "withdrawn"   -> [ui EXCEPT !.shown = "left", !.withdrawing = FALSE]
             [] c.answer.code = "notEditable" -> Detail
             [] OTHER -> [ui EXCEPT !.shown = "error", !.confirm = FALSE, !.withdrawing = FALSE]

DetailStep ==
  /\ On("application")
  /\ \/ DetailLoads \/ StartEditing \/ EditForm \/ CancelEditing \/ HandleSave
     \/ OpenWithdraw \/ CloseWithdraw \/ HandleWithdraw \/ DownloadResume \/ Downloaded
     \/ ApplicationDecided
     \/ \E c \in wire : DetailServed(c) \/ PatchAnswered(c) \/ WithdrawAnswered(c)

-----------------------------------------------------------------------------
(* The profile: a name, a phone and a resume; 0 is an empty field.          *)

ProfileRow == [name : {0, 1}, phone : {0, 1}, resume : 0..2, rev : Nat]

\* busy: the sections of the page whose save is not answered.  renaming: whether the editor of
\* the resume's name is shown, and whether it has the focus.
Desk(page) ==
  [page |-> page, shown |-> "loading", me |-> none, name |-> 0, phone |-> 0, busy |-> {},
   renaming |-> "no", expanded |-> none, landed |-> 0]

Section(page) == On("profile") /\ ui.page = page /\ ui.shown = "profile"

\* Whatever else is pressed on the page first takes the focus off the name being changed.
Elsewhere == Section("page") /\ (ui.renaming = "focused" => ui.me.resume = 0)

MeLoads ==
  /\ On("profile") /\ ui.shown = "loading"
  /\ \/ Local([ui EXCEPT !.shown = "profile", !.me = server, !.name = server.name,
                 !.phone = server.phone, !.landed = server.rev])
     \/ Local([ui EXCEPT !.shown = "error"])

TypeField ==
  /\ Elsewhere
  /\ \/ Local([ui EXCEPT !.name = 1 - @])
     \/ Local([ui EXCEPT !.phone = 1 - @])

Busy(section) == [ui EXCEPT !.busy = @ \cup {section}]

Patch(state, section, field, value) ==
  /\ ui' = state
  /\ Send("profile", [section |-> section, field |-> field, value |-> value])
  /\ UNCHANGED doubtful

SaveIdentity ==
  Elsewhere /\ "identity" \notin ui.busy /\ Patch(Busy("identity"), "identity", "name", ui.name)
SaveAutofill ==
  Elsewhere /\ "autofill" \notin ui.busy /\ Patch(Busy("autofill"), "autofill", "phone", ui.phone)

\* Replacing and removing are dead while busy, but not under an editor a failed rename left open.
UploadResume ==
  /\ Elsewhere /\ "resume" \notin ui.busy
  /\ Patch(Busy("resume"), "resume", "resume", 1)
DeleteResume ==
  /\ Elsewhere /\ "resume" \notin ui.busy /\ ui.me.resume # 0
  /\ Patch(Busy("resume"), "resume", "resume", 0)

StartRename ==
  /\ Section("page") /\ ui.me.resume # 0 /\ ui.renaming # "focused"
  /\ Local([ui EXCEPT !.renaming = "focused"])

\* Every blur commits, Enter's as well, busy or not; an unchanged name and Escape close the editor.
CommitRename ==
  /\ Section("page") /\ ui.me.resume # 0 /\ ui.renaming = "focused"
  /\ \/ Patch([Busy("resume") EXCEPT !.renaming = "open"], "rename", "resume", 3 - ui.me.resume)
     \/ Local([ui EXCEPT !.renaming = "no"])

\* The dashboard offers one editor at a time, for what is missing.
Toggle ==
  /\ Section("dashboard")
  /\ \/ \E f \in {"phone", "resume"} : ui.me[f] = 0 /\ Local([ui EXCEPT !.expanded = f])
     \/ ui.expanded # none /\ Local([ui EXCEPT !.expanded = none])

\* A save under way disables the button, but neither Enter nor the file input behind it.
SaveInline ==
  /\ Section("dashboard") /\ ui.expanded # none
  /\ Patch(ui, "inline", ui.expanded, 1)

\* A removed resume has no name to change.
ProfileServed(c) ==
  /\ c.kind = "profile"
  /\ \/ /\ c.body.section = "rename" => server.resume # 0
        /\ LET row == [server EXCEPT ![c.body.field] = c.body.value, !.rev = @ + 1]
           IN  Serve(c, [code |-> "saved", row |-> row], row)
     \/ Serve(c, [code |-> "refused"], server)

Freed(section) == ui.busy \ {IF section = "rename" THEN "resume" ELSE section}

\* The record in the answer takes the place of the one on screen, whichever is newer; on the
\* dashboard whatever editor is open is closed.  The editor of a name that was out of sight,
\* the resume being gone, takes the focus when it comes back.
ProfileAnswered(c) ==
  /\ c.kind = "profile" /\ Take(c)
  /\ \/ /\ c.answer.code = "saved"
        /\ ui' = [ui EXCEPT !.me = c.answer.row, !.busy = Freed(c.body.section),
                    !.renaming = IF c.body.section = "rename" THEN "no"
                                 ELSE IF @ = "open" /\ ui.me.resume = 0 THEN "focused" ELSE @,
                    !.expanded = none, !.landed = c.answer.row.rev]
        /\ doubtful' = (doubtful \/ c.answer.row.rev < ui.landed)
     \/ /\ c.answer.code # "saved"
        /\ ui' = [ui EXCEPT !.busy = Freed(c.body.section)]
        /\ UNCHANGED doubtful

ProfileStep ==
  /\ On("profile")
  /\ \/ MeLoads \/ TypeField \/ SaveIdentity \/ SaveAutofill \/ UploadResume \/ DeleteResume
     \/ StartRename \/ CommitRename \/ Toggle \/ SaveInline
     \/ \E c \in wire : ProfileServed(c) \/ ProfileAnswered(c)

=============================================================================
