----------------------------- MODULE AdminPages -----------------------------
(***************************************************************************)
(* The administrator's list pages: jobs, applications, candidates, active  *)
(* companies, companies waiting for approval and invites.  For each, what  *)
(* it offers on a row and in its record pane, and its handlers, one action *)
(* up to the await and one for the rest.                                   *)
(*                                                                         *)
(* A status is "PENDING" (PENDING_APPROVAL, NEW, PENDING), "OPEN"          *)
(* (PUBLISHED, APPROVED_BY_ADMIN) or "CLOSED" (CLOSED, REJECTED, REVOKED); *)
(* edit stands for every other field of a row and is 1 once it was edited. *)
(***************************************************************************)
EXTENDS AdminConsole

ShownRows == {Shown(list)[i] : i \in DOMAIN Shown(list)}
PaneRows  == IF selected # none /\ PaneValue # none THEN {PaneValue} ELSE {}
At(p) == Here /\ home = p
Blank == [id |-> none, status |-> "NONE", edit |-> 0]

\* A new fetcher: another filter, sort or debounced query that the server applies.
NewFetcher(q) ==
  /\ query' = q
  /\ SetList(Reload(list, q))
  /\ UNCHANGED <<place, narrow, modals, server>>

\* Typing or clearing what is matched in the browser.
ToggleNarrow ==
  /\ scene.narrow # {}
  /\ narrow' = ~narrow
  /\ UNCHANGED <<place, list, query, selected, pane, modals, server>>

Browse(p, queries) ==
  /\ At(p) /\ NoModal
  /\ (\E q \in queries \ {query} : NewFetcher(q)) \/ ToggleNarrow

-----------------------------------------------------------------------------
(* Jobs.                                                                    *)

JobsBrowse == Browse("jobs", {"all", "PENDING"})

JobMenu(r)  == {"edit", "delete"} \cup (IF r.status = "PENDING" THEN {"approve", "reject"} ELSE {})
JobInList   == {x \in ShownRows \X {"edit", "delete", "approve", "reject"} : x[2] \in JobMenu(x[1])}
JobInPane   == {x \in PaneRows \X {"edit", "delete", "approve", "reject"} : x[2] \in JobMenu(x[1])}

JobsOpen == \E x \in JobInList \cup JobInPane :
              At("jobs") /\ x[2] # "approve" /\ OpenFor(x[2], x[1])

JobsOpenCreate == At("jobs") /\ OpenFor("create", Blank)

\* The dialog's own reject and delete hand the job over to their confirmation and close it.
JobDialogHandsOver(k) ==
  /\ At("jobs") /\ dlg["edit"] # none /\ k \in {"reject", "delete"} \cap JobMenu(dlg["edit"])
  /\ dlg' = [dlg EXCEPT !["edit"] = none, ![k] = dlg["edit"]]
  /\ UNCHANGED <<place, view, busy, acting, banner, server>>

\* handleApprove has no flag: nothing keeps it from being sent twice.
JobsApprove ==
  /\ At("jobs")
  /\ \/ \E x \in JobInList \cup JobInPane :
          /\ NoModal /\ x[2] = "approve"
          /\ Send("jobApprove", "moderate", x[1], "OPEN")
          /\ UNCHANGED dlg
     \/ /\ dlg["edit"] # none /\ "approve" \in JobMenu(dlg["edit"])
        /\ Send("jobApprove", "moderate", dlg["edit"], "OPEN")
        /\ dlg' = [dlg EXCEPT !["edit"] = none]
  /\ UNCHANGED <<place, view, busy, acting, banner>>

JobsApproved(c) ==
  /\ Answered(c, "jobApprove") /\ Done(c)
  /\ SetList(IF Succeeded(c) THEN UpdateItem(list, c.row, LAMBDA r : c.result) ELSE list)
  /\ UNCHANGED modals

JobsReject == home = "jobs" /\ Confirm("reject", "confirm", "jobReject", "moderate", "CLOSED")

\* The row is rewritten from the copy the dialog was opened with.
JobsRejected(c) ==
  /\ Answered(c, "jobReject") /\ Done(c)
  /\ SetList(IF Succeeded(c)
             THEN UpdateItem(list, c.row, LAMBDA r : [c.saw.from EXCEPT !.status = "CLOSED"])
             ELSE list)
  /\ dlg' = IF Succeeded(c) THEN [dlg EXCEPT !["reject"] = none] ELSE dlg
  /\ Lower("confirm")
  /\ UNCHANGED <<acting, banner>>

JobsDelete == home = "jobs" /\ Confirm("delete", "confirm", "listDelete", "delete", none)

\* Mutant: the row taken away is the one selected when the answer comes.
DeletedSelected(c) ==
  LET leaves == Succeeded(c) /\ c.saw.sel = c.row
  IN  /\ Look(IF Succeeded(c) THEN RemoveItem(list, selected) ELSE list,
              IF leaves THEN none ELSE selected)
      /\ calls' = IF leaves THEN PaneGone(calls \ {c}) ELSE calls \ {c}
      /\ busy' = [f \in Flags |-> IF f = "confirm" \/ (leaves /\ f # "save") THEN FALSE ELSE busy[f]]
      /\ dlg' = IF Succeeded(c) THEN [dlg EXCEPT !["delete"] = none] ELSE dlg
      /\ UNCHANGED <<acting, banner>>

\* After a delete, the record that was selected when it was asked for is left.
DeletedFromList(c) ==
  LET leaves == Succeeded(c) /\ c.saw.sel = c.row
  IN  /\ Look(IF Succeeded(c) THEN RemoveItem(list, c.row) ELSE list,
              IF leaves THEN none ELSE selected)
      /\ calls' = IF leaves THEN PaneGone(calls \ {c}) ELSE calls \ {c}
      /\ busy' = [f \in Flags |-> IF f = "confirm" \/ (leaves /\ f # "save") THEN FALSE ELSE busy[f]]
      /\ dlg' = IF Succeeded(c) THEN [dlg EXCEPT !["delete"] = none] ELSE dlg
      /\ UNCHANGED <<acting, banner>>

JobsDeleted(c) == home = "jobs" /\ Answered(c, "listDelete") /\ DeletedFromList(c)

\* JobDialog's save: the button waits for isSaving, the shortcut does not.
JobDialogSave ==
  /\ At("jobs") /\ dlg["edit"] # none
  /\ busy' = [busy EXCEPT !["save"] = TRUE]
  /\ Send("jobSave", "edit", dlg["edit"], none)
  /\ UNCHANGED <<place, view, dlg, acting, banner>>

\* onSaved: the row is replaced and the dialog shows the saved job, even one already closed.
JobDialogSaved(c) ==
  /\ Answered(c, "jobSave") /\ Done(c)
  /\ SetList(IF Succeeded(c) THEN UpdateItem(list, c.row, LAMBDA r : c.result) ELSE list)
  /\ dlg' = IF Succeeded(c) THEN [dlg EXCEPT !["edit"] = c.result] ELSE dlg
  /\ Lower("save")
  /\ UNCHANGED <<acting, banner>>

JobCreateSave ==
  /\ At("jobs") /\ dlg["create"] # none
  /\ busy' = [busy EXCEPT !["save"] = TRUE]
  /\ Send("jobCreate", "create", dlg["create"], "OPEN")
  /\ UNCHANGED <<place, view, dlg, acting, banner>>

JobCreated(c) ==
  /\ Answered(c, "jobCreate") /\ Done(c)
  /\ SetList(IF Succeeded(c) THEN PrependItem(list, c.result) ELSE list)
  /\ dlg' = IF Succeeded(c) THEN [dlg EXCEPT !["create"] = none] ELSE dlg
  /\ Lower("save")
  /\ UNCHANGED <<acting, banner>>

JobsPage ==
  \/ JobsBrowse \/ JobsOpen \/ JobsOpenCreate \/ JobsApprove \/ JobsReject \/ JobsDelete
  \/ \E k \in {"reject", "delete"} : JobDialogHandsOver(k)
  \/ JobDialogSave \/ JobCreateSave
  \/ \E c \in calls : \/ JobsApproved(c) \/ JobsRejected(c) \/ JobsDeleted(c)
                      \/ JobDialogSaved(c) \/ JobCreated(c)

-----------------------------------------------------------------------------
(* Applications.                                                            *)

\* The status filter and the debounced search go to the server, the job and company filters do not.
ApplicationsBrowse == Browse("applications", {"all", "PENDING"})

\* Active rows and the section of closed ones offer the same menu.
ApplicationMenu(r) == {"notes", "delete"}

ApplicationsOpen == \E r \in ShownRows, k \in {"notes", "delete"} :
                      At("applications") /\ k \in ApplicationMenu(r) /\ OpenFor(k, r)

ApplicationsDelete ==
  home = "applications" /\ Confirm("delete", "confirm", "listDelete", "delete", none)
ApplicationsDeleted(c) == home = "applications" /\ Answered(c, "listDelete") /\ DeletedFromList(c)

\* The notes dialog patches the row from the answer and closes.
NotesDialogSave ==
  home = "applications" /\ Confirm("notes", "save", "dialogNotes", "edit", none)
NotesDialogSaved(c) ==
  /\ Answered(c, "dialogNotes") /\ Done(c)
  /\ SetList(IF Succeeded(c)
             THEN UpdateItem(list, c.row, LAMBDA r : [r EXCEPT !.edit = c.result.edit])
             ELSE list)
  /\ dlg' = IF Succeeded(c) THEN [dlg EXCEPT !["notes"] = none] ELSE dlg
  /\ Lower("save")
  /\ UNCHANGED <<acting, banner>>

\* The header of the record: a status other than the saved one, or changed notes.
HeaderSaveStatus(to) ==
  /\ At("applications") \/ At("applicationsQueue")
  /\ NoModal /\ \E r \in PaneRows : r.status # to /\ Send("applicationStatus", "status", r, to)
  /\ Raise("status")
  /\ UNCHANGED <<place, view, dlg, acting, banner>>

HeaderSaveNotes ==
  /\ At("applications") \/ At("applicationsQueue")
  /\ NoModal /\ \E r \in PaneRows : Send("applicationNotes", "edit", r, none)
  /\ Raise("notes")
  /\ UNCHANGED <<place, view, dlg, acting, banner>>

LowerIfLive(c, flag) == IF c.live THEN Lower(flag) ELSE UNCHANGED busy

\* onUpdated of the page: the row with that id takes the fields of the answer.
HeaderStatusSaved(c) ==
  /\ home = "applications" /\ Answered(c, "applicationStatus") /\ Done(c)
  /\ SetList(IF Succeeded(c)
             THEN UpdateItem(list, c.row, LAMBDA r : [r EXCEPT !.status = c.result.status])
             ELSE list)
  /\ LowerIfLive(c, "status")
  /\ UNCHANGED <<dlg, acting, banner>>

HeaderNotesSaved(c) ==
  /\ Answered(c, "applicationNotes") /\ Done(c)
  /\ SetList(IF Succeeded(c) /\ home = "applications"
             THEN UpdateItem(list, c.row, LAMBDA r : [r EXCEPT !.edit = c.result.edit])
             ELSE list)
  /\ LowerIfLive(c, "notes")
  /\ UNCHANGED <<dlg, acting, banner>>

ApplicationsPage ==
  \/ ApplicationsBrowse \/ ApplicationsOpen \/ ApplicationsDelete \/ NotesDialogSave
  \/ HeaderSaveNotes \/ \E to \in {"PENDING", "OPEN"} : HeaderSaveStatus(to)
  \/ \E c \in calls : \/ ApplicationsDeleted(c) \/ NotesDialogSaved(c)
                      \/ HeaderStatusSaved(c) \/ HeaderNotesSaved(c)

-----------------------------------------------------------------------------
(* Candidates.                                                              *)

\* Search, column sort and, for one job, the order by score, all by the server.
CandidatesBrowse == At("candidates") /\ NoModal /\ \E q \in {"all", "PENDING"} \ {query} : NewFetcher(q)

CandidatesOpen ==
  \/ \E r \in ShownRows : At("candidates") /\ OpenFor("delete", r)
  \/ \E r \in PaneRows : At("candidates") /\ OpenFor("paneDelete", r)

CandidatesDelete ==
  home = "candidates" /\ Confirm("delete", "confirm", "listDelete", "delete", none)
CandidatesDeleted(c) == home = "candidates" /\ Answered(c, "listDelete") /\ DeletedFromList(c)

\* The pane has a dialog and a flag of its own.
CandidatePaneDelete ==
  home = "candidates" /\ Confirm("paneDelete", "pane", "candidatePaneDelete", "delete", none)

\* It removes the row and goes to the list, wherever the administrator is by then.
CandidatePaneDeleted(c) ==
  /\ Answered(c, "candidatePaneDelete")
  /\ IF Succeeded(c)
     THEN /\ Look(RemoveItem(list, c.row), none)
          /\ calls' = PaneGone(calls \ {c})
          /\ busy' = [busy EXCEPT !["pane"] = FALSE]
     ELSE SetList(list) /\ Done(c) /\ LowerIfLive(c, "pane")
  /\ dlg' = IF Succeeded(c) THEN [dlg EXCEPT !["paneDelete"] = none] ELSE dlg
  /\ UNCHANGED <<acting, banner>>

CandidatesPage ==
  \/ CandidatesBrowse \/ CandidatesOpen \/ CandidatesDelete \/ CandidatePaneDelete
  \/ \E c \in calls : CandidatesDeleted(c) \/ CandidatePaneDeleted(c)

-----------------------------------------------------------------------------
(* Active companies: the list alone, or the rail beside a company's record. *)

AtCompanies == At("companies") \/ At("companyRecord")

CompaniesBrowse == AtCompanies /\ NoModal
                   /\ (ToggleNarrow \/ \E q \in {"all", "PENDING"} \ {query} : NewFetcher(q))

CompaniesOpen ==
  \/ \E r \in ShownRows, k \in {"edit", "delete"} : AtCompanies /\ OpenFor(k, r)
  \/ \E r \in PaneRows, k \in {"paneEdit", "paneDelete"} : AtCompanies /\ OpenFor(k, r)

TabDelete ==
  home \in {"companies", "companyRecord"} /\ Confirm("delete", "confirm", "listDelete", "delete", none)

\* Deleting the selected company from the rail goes to the list of companies.
TabDeleted(c) ==
  /\ home \in {"companies", "companyRecord"} /\ Answered(c, "listDelete")
  /\ SetList(IF Succeeded(c) THEN RemoveItem(list, c.row) ELSE list) /\ Done(c)
  /\ dlg' = IF Succeeded(c) THEN [dlg EXCEPT !["delete"] = none] ELSE dlg
  /\ Lower("confirm")
  /\ UNCHANGED <<acting, banner>>

EditCompanySave(k) ==
  /\ home \in {"companies", "companyRecord"}
  /\ k \in {"edit", "paneEdit"}
  /\ Confirm(k, IF k = "edit" THEN "save" ELSE "pane",
             IF k = "edit" THEN "companySave" ELSE "companyPaneSave", "edit", none)

TabEditSaved(c) ==
  /\ Answered(c, "companySave") /\ Done(c)
  /\ SetList(IF Succeeded(c) THEN UpdateItem(list, c.row, LAMBDA r : c.result) ELSE list)
  /\ dlg' = IF Succeeded(c) THEN [dlg EXCEPT !["edit"] = none] ELSE dlg
  /\ Lower("save")
  /\ UNCHANGED <<acting, banner>>

\* From the pane, saving only makes the rail load again (listReloadKey).
PaneEditSaved(c) ==
  /\ Answered(c, "companyPaneSave") /\ Done(c)
  /\ SetList(IF Succeeded(c) THEN Reload(list, query) ELSE list)
  /\ dlg' = IF Succeeded(c) THEN [dlg EXCEPT !["paneEdit"] = none] ELSE dlg
  /\ Lower("pane")
  /\ UNCHANGED <<acting, banner>>

PaneDelete ==
  home = "companyRecord" /\ Confirm("paneDelete", "confirmPane", "companyPaneDelete", "delete", none)

\* handleDeleteFromPane: the rail loads again and the record is left.
PaneDeleted(c) ==
  /\ Here /\ c.kind = "companyPaneDelete" /\ c.visit = visit /\ c.at \in {"done", "failed"}
  /\ Done(c)
  /\ IF Succeeded(c) THEN away' = TRUE /\ FreshPage /\ UNCHANGED <<scene, visit>>
     ELSE /\ Lower("confirmPane")
          /\ UNCHANGED <<place, view, dlg, acting, banner>>
  /\ UNCHANGED <<sent, rows>>

\* CreateCompanyDialog asks once more, then goes to the record of the new company.
CreateCompany == At("companies") /\ OpenFor("create", Blank)
CreateCompanySave == home = "companies" /\ Confirm("create", "save", "companyCreate", "create", "OPEN")
CompanyCreated(c) ==
  /\ Here /\ c.kind = "companyCreate" /\ c.visit = visit /\ c.at \in {"done", "failed"}
  /\ Done(c)
  /\ IF Succeeded(c) THEN away' = TRUE /\ FreshPage /\ UNCHANGED <<scene, visit>>
     ELSE Lower("save") /\ UNCHANGED <<place, view, dlg, acting, banner>>
  /\ UNCHANGED <<sent, rows>>

CompaniesPage ==
  \/ CompaniesBrowse \/ CompaniesOpen \/ TabDelete \/ PaneDelete
  \/ \E k \in {"edit", "paneEdit"} : EditCompanySave(k)
  \/ CreateCompany \/ CreateCompanySave
  \/ \E c \in calls : \/ TabDeleted(c) \/ TabEditSaved(c) \/ PaneEditSaved(c)
                      \/ PaneDeleted(c) \/ CompanyCreated(c)

-----------------------------------------------------------------------------
(* Companies waiting for approval.                                          *)

PendingBrowse == At("pending") /\ NoModal /\ ToggleNarrow

\* While an approval is under way the buttons of every row are disabled.
PendingOffers == IF acting = none THEN {"approve", "reject"} ELSE {}

\* handleApprove, guarded by approvingRef as well; the row stays, marked as invited.
PendingApprove ==
  /\ At("pending") /\ NoModal /\ "approve" \in PendingOffers
  /\ \E r \in ShownRows : acting' = r.id /\ Send("pendingApprove", "edit", r, none)
  /\ UNCHANGED <<place, view, dlg, busy, banner>>

PendingApproved(c) ==
  /\ Answered(c, "pendingApprove") /\ Done(c)
  /\ SetList(IF Succeeded(c) THEN UpdateItem(list, c.row, LAMBDA r : [r EXCEPT !.edit = 1]) ELSE list)
  /\ acting' = none
  /\ UNCHANGED <<dlg, busy, banner>>

\* The row's menu offers the rejection all the time.
PendingOpenReject == \E r \in ShownRows : At("pending") /\ OpenFor("reject", r)
PendingReject == home = "pending" /\ Confirm("reject", "confirm", "pendingReject", "delete", none)
PendingRejected(c) ==
  /\ Answered(c, "pendingReject") /\ Done(c)
  /\ SetList(IF Succeeded(c) THEN RemoveItem(list, c.row) ELSE list)
  /\ dlg' = IF Succeeded(c) THEN [dlg EXCEPT !["reject"] = none] ELSE dlg
  /\ Lower("confirm")
  /\ UNCHANGED <<acting, banner>>

PendingPage ==
  \/ PendingBrowse \/ PendingApprove \/ PendingOpenReject \/ PendingReject
  \/ \E c \in calls : PendingApproved(c) \/ PendingRejected(c)

-----------------------------------------------------------------------------
(* Invites.                                                                 *)

InvitesBrowse == At("invites") /\ NoModal /\ ToggleNarrow

\* "OPEN" is an invite that was used: it cannot be sent again.
InviteMenu(r) == {"delete"} \cup (IF r.status = "PENDING" THEN {"revoke"} ELSE {})
                 \cup (IF r.status # "OPEN" /\ acting = none THEN {"resend"} ELSE {})

InvitesOpen == \E r \in ShownRows, k \in {"delete", "revoke"} :
                 At("invites") /\ k \in InviteMenu(r) /\ OpenFor(k, r)

InviteRevoke == home = "invites" /\ Confirm("revoke", "confirm", "inviteRevoke", "moderate", "CLOSED")

InviteRevoked(c) ==
  /\ Answered(c, "inviteRevoke") /\ Done(c)
  /\ SetList(IF Succeeded(c)
             THEN UpdateItem(list, c.row, LAMBDA r : [c.saw.from EXCEPT !.status = "CLOSED"])
             ELSE list)
  /\ dlg' = IF Succeeded(c) THEN [dlg EXCEPT !["revoke"] = none] ELSE dlg
  /\ Lower("confirm")
  /\ UNCHANGED <<acting, banner>>

InviteDelete == home = "invites" /\ Confirm("delete", "confirm", "inviteDelete", "delete", none)

InviteDeleted(c) ==
  /\ Answered(c, "inviteDelete") /\ Done(c)
  /\ SetList(IF Succeeded(c) THEN RemoveItem(list, c.row) ELSE list)
  /\ dlg' = IF Succeeded(c) THEN [dlg EXCEPT !["delete"] = none] ELSE dlg
  /\ Lower("confirm")
  /\ UNCHANGED <<acting, banner>>

\* handleResend makes the invite pending again and loads the list anew, if none is loading.
InviteResend ==
  /\ At("invites") /\ NoModal
  /\ \E r \in ShownRows : /\ "resend" \in InviteMenu(r) /\ acting' = r.id
                          /\ Send("inviteResend", "status", r, "PENDING")
  /\ UNCHANGED <<place, view, dlg, busy, banner>>

InviteResent(c) ==
  /\ Answered(c, "inviteResend") /\ Done(c)
  /\ SetList(IF Succeeded(c) THEN Reload(list, query) ELSE list)
  /\ acting' = none
  /\ UNCHANGED <<dlg, busy, banner>>

\* InviteFormDialog, which its own ref keeps from being submitted twice.
InviteOpenForm == At("invites") /\ OpenFor("create", Blank)
InviteCreate == home = "invites" /\ Confirm("create", "save", "inviteCreate", "create", "PENDING")
InviteCreated(c) ==
  /\ Answered(c, "inviteCreate") /\ Done(c)
  /\ SetList(IF Succeeded(c) THEN PrependItem(list, c.result) ELSE list)
  /\ dlg' = IF Succeeded(c) THEN [dlg EXCEPT !["create"] = none] ELSE dlg
  /\ Lower("save")
  /\ UNCHANGED <<acting, banner>>

InvitesPage ==
  \/ InvitesBrowse \/ InvitesOpen \/ InviteRevoke \/ InviteDelete \/ InviteResend
  \/ InviteOpenForm \/ InviteCreate
  \/ \E c \in calls : \/ InviteRevoked(c) \/ InviteDeleted(c) \/ InviteResent(c) \/ InviteCreated(c)

=============================================================================
