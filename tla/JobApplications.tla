--------------------------- MODULE JobApplications ---------------------------
(***************************************************************************)
(* The life cycle of jobs and of the applications made to them, as the     *)
(* service layer drives it over PostgreSQL at READ COMMITTED.              *)
(*                                                                         *)
(* A request is an HTTP handler in flight.  Its Begin action is the SELECT *)
(* whose result it validates, its Commit action the transaction's COMMIT:  *)
(* what another transaction commits in between is what the request never   *)
(* sees.  An UPDATE names its row by primary key, so it overwrites         *)
(* whatever the row holds by then.  The e-mails a request defers until     *)
(* after its commit change none of these rows and are left out.            *)
(***************************************************************************)
EXTENDS FiniteSets

CONSTANTS
    Jobs,           \* ids of job rows
    Candidates,     \* ids of candidate profiles
    Apps,           \* ids of application rows: a bound on the rows ever inserted
    Requests,       \* handlers that can be in flight together
    AdminStatuses,  \* the statuses an admin chooses among in this instance
    None            \* the null value

JobStatuses == {"PENDING_APPROVAL", "PUBLISHED", "CLOSED"}

ApplicationStatuses ==
    {"NEW", "APPROVED_BY_ADMIN", "REJECTED", "HIRED", "WITHDRAWN", "JOB_CLOSED"}

(* What a company may make of an application to one of its jobs.           *)
CompanyStatuses == {"HIRED", "REJECTED"}

Ops == {"apply", "withdraw", "set_status", "company_review", "push", "dismiss",
        "approve_job", "reject_job", "update_job", "company_delete_job"}

ASSUME ConstantsAssumption ==
    /\ AdminStatuses \subseteq ApplicationStatuses
    /\ None \notin Jobs \cup Candidates \cup Apps
    /\ None \notin ApplicationStatuses \cup JobStatuses \cup Ops

VARIABLES
    jobs,         \* status of each job row, "ABSENT" before INSERT, "DELETED" after
    apps,         \* the application rows
    suggestions,  \* the admin's decision on a (job, candidate) pair, "NONE" if no row
    trail,        \* what the newest audit row of an application records
    req           \* the requests in flight

vars == <<jobs, apps, suggestions, trail, req>>

-----------------------------------------------------------------------------
(* Rows and requests.                                                      *)

Gone == {"ABSENT", "DELETED"}
(* Mutant: approved applications are left out of the cascade.              *)
OnlyNew == {"NEW"}

ActiveStatuses == {"NEW", "APPROVED_BY_ADMIN"}

AppRow ==
    [job : Jobs \cup {None}, cand : Candidates \cup {None},
     status : ApplicationStatuses \cup Gone, pushed : BOOLEAN]

(* The status recorded, and, as a history, whether a company has set the   *)
(* status since: a company's decision is not audited.                      *)
AuditRow == [status : ApplicationStatuses, overruled : BOOLEAN]

Recorded(s) == [status |-> s, overruled |-> FALSE]

Request ==
    [op : Ops \cup {None},
     step : {"idle", "read", "checked", "flushed", "selected"},
     job : Jobs \cup {None}, cand : Candidates \cup {None}, app : Apps \cup {None},
     seen : ApplicationStatuses \cup JobStatuses \cup {"NONE", "PUSHED", "DISMISSED", None},
     to : ApplicationStatuses \cup JobStatuses \cup {None},
     batch : SUBSET Apps]

Idle == [op |-> None, step |-> "idle", job |-> None, cand |-> None, app |-> None,
         seen |-> None, to |-> None, batch |-> {}]

Exists(a) == apps[a].status \notin Gone
JobExists(j) == jobs[j] \notin Gone

(* A row the partial unique index covers: status != 'WITHDRAWN'.           *)
Live(row) == row.status \notin Gone \cup {"WITHDRAWN"}

LiveApps(j, c) == {a \in Apps : Live(apps[a]) /\ apps[a].job = j /\ apps[a].cand = c}

(* Mutant: the index was never created.                                    *)
NoIndex(a, j, c) == TRUE

(* uq_application_job_candidate_active: the index admits row `a` as a live *)
(* row of its pair when no other live row has that pair.                   *)
IndexAdmits(a, j, c) == LiveApps(j, c) \subseteq {a}

(* Mutant: the cascade selects before the UPDATE of the job is flushed.    *)
NotLocked(j) == FALSE

(* The UPDATE flushed by an admin's job edit holds the job's row lock      *)
(* until that transaction ends; other writers of the row wait.             *)
Locked(j) == \E r \in Requests : /\ req[r].step \in {"flushed", "selected"}
                                 /\ req[r].job = j

TypeOK ==
    /\ jobs \in [Jobs -> JobStatuses \cup Gone]
    /\ apps \in [Apps -> AppRow]
    /\ suggestions \in [Jobs \X Candidates -> {"NONE", "PUSHED", "DISMISSED"}]
    /\ trail \in [Apps -> AuditRow]
    /\ req \in [Requests -> Request]

Init ==
    /\ jobs = [j \in Jobs |-> "ABSENT"]
    /\ apps = [a \in Apps |-> [job |-> None, cand |-> None, status |-> "ABSENT",
                               pushed |-> FALSE]]
    /\ suggestions = [p \in Jobs \X Candidates |-> "NONE"]
    /\ trail = [a \in Apps |-> Recorded("NEW")]
    /\ req = [r \in Requests |-> Idle]

-----------------------------------------------------------------------------
(* Steps of a request.                                                     *)

Start(r, request) ==
    /\ req[r] = Idle
    /\ req' = [req EXCEPT ![r] = request]

At(r, op, step) == req[r].op = op /\ req[r].step = step

(* Mutant: a withdrawal is not audited.                                    *)
AuditReviewsOnly(a, s) ==
    trail' = IF s = "WITHDRAWN" THEN trail ELSE [trail EXCEPT ![a] = Recorded(s)]

(* record_audit_event(action="application.status_change").                 *)
Audit(a, s) == trail' = [trail EXCEPT ![a] = Recorded(s)]

(* Mutant: the upsert only updates a row that is already there.            *)
UpdateDecision(r, d) ==
    suggestions' = IF req[r].seen = "NONE" THEN suggestions
                   ELSE [suggestions EXCEPT ![<<req[r].job, req[r].cand>>] = d]

(* The upsert of a pair's decision row: INSERT when no row was read, which *)
(* uq_match_suggestion admits once per pair, else UPDATE, which leaves the *)
(* status column out when the row read already had that decision.          *)
RecordDecision(r, d) ==
    LET pair == <<req[r].job, req[r].cand>> IN
    /\ (req[r].seen = "NONE") <=> (suggestions[pair] = "NONE")
    /\ suggestions' = IF req[r].seen = d THEN suggestions
                      ELSE [suggestions EXCEPT ![pair] = d]

(* COMMIT or ROLLBACK: the request is over.                                *)
Finish(r) == req' = [req EXCEPT ![r] = Idle]

(* Insert application row `a` in status NEW.                               *)
InsertApp(a, j, c, isPushed) ==
    /\ apps[a].status = "ABSENT"
    /\ JobExists(j)
    /\ IndexAdmits(a, j, c)
    /\ apps' = [apps EXCEPT ![a] = [job |-> j, cand |-> c, status |-> "NEW",
                                    pushed |-> isPushed]]

-----------------------------------------------------------------------------
(* Applying to a job (public and logged-in flow).                          *)

ApplyReadJob(r, j, c) ==
    /\ jobs[j] = "PUBLISHED"
    /\ Start(r, [Idle EXCEPT !.op = "apply", !.step = "read", !.job = j, !.cand = c])
    /\ UNCHANGED <<jobs, apps, suggestions, trail>>

(* check_no_blocking_application: a live application of the pair answers   *)
(* 409 and ends the request.                                               *)
ApplyCheck(r) ==
    /\ At(r, "apply", "read")
    /\ req' = [req EXCEPT ![r] =
                 IF LiveApps(req[r].job, req[r].cand) = {}
                 THEN [req[r] EXCEPT !.step = "checked"] ELSE Idle]
    /\ UNCHANGED <<jobs, apps, suggestions, trail>>

ApplyCommit(r, a) ==
    /\ At(r, "apply", "checked")
    /\ InsertApp(a, req[r].job, req[r].cand, FALSE)
    /\ Finish(r)
    /\ UNCHANGED <<jobs, suggestions, trail>>

(* The candidate withdraws an application that was NEW when read.          *)
WithdrawRead(r, a) ==
    /\ apps[a].status = "NEW"
    /\ Start(r, [Idle EXCEPT !.op = "withdraw", !.step = "read", !.app = a])
    /\ UNCHANGED <<jobs, apps, suggestions, trail>>

WithdrawCommit(r) ==
    LET a == req[r].app IN
    /\ At(r, "withdraw", "read")
    /\ Exists(a)
    /\ apps' = [apps EXCEPT ![a].status = "WITHDRAWN"]
    /\ Audit(a, "WITHDRAWN")
    /\ Finish(r)
    /\ UNCHANGED <<jobs, suggestions>>

-----------------------------------------------------------------------------
(* The admin's decisions on an application.                                *)

(* Mutant: the withdrawn check is missing.                                 *)
ReviewableAlways(a) == Exists(a)

(* update_application_status refuses a row that was WITHDRAWN when read;   *)
(* any other status may become any status.                                 *)
Reviewable(a) == Exists(a) /\ apps[a].status # "WITHDRAWN"

SetStatusRead(r, a, s) ==
    /\ Reviewable(a)
    /\ Start(r, [Idle EXCEPT !.op = "set_status", !.step = "read", !.app = a,
                             !.seen = apps[a].status, !.to = s])
    /\ UNCHANGED <<jobs, apps, suggestions, trail>>

(* The status column is written only when it differs from the status read. *)
Changes(r) == req[r].seen # req[r].to

WriteStatus(r) ==
    LET a == req[r].app IN
    /\ Exists(a)
    /\ Changes(r) /\ req[r].to # "WITHDRAWN" => IndexAdmits(a, apps[a].job, apps[a].cand)
    /\ apps' = IF Changes(r) THEN [apps EXCEPT ![a].status = req[r].to] ELSE apps

SetStatusCommit(r) ==
    /\ At(r, "set_status", "read")
    /\ WriteStatus(r)
    /\ IF Changes(r) THEN Audit(req[r].app, req[r].to) ELSE UNCHANGED trail
    /\ Finish(r)
    /\ UNCHANGED <<jobs, suggestions>>

DeleteApplication(a) ==
    /\ Exists(a)
    /\ apps' = [apps EXCEPT ![a].status = "DELETED"]
    /\ UNCHANGED <<jobs, suggestions, trail, req>>

-----------------------------------------------------------------------------
(* The company's decision on an application to its job: whatever the       *)
(* status was, withdrawn and closed included, and without an audit row.    *)

CompanyReviewRead(r, a, s) ==
    /\ Exists(a)
    /\ Start(r, [Idle EXCEPT !.op = "company_review", !.step = "read", !.app = a,
                             !.seen = apps[a].status, !.to = s])
    /\ UNCHANGED <<jobs, apps, suggestions, trail>>

CompanyReviewCommit(r) ==
    /\ At(r, "company_review", "read")
    /\ WriteStatus(r)
    /\ trail' = IF Changes(r) THEN [trail EXCEPT ![req[r].app].overruled = TRUE] ELSE trail
    /\ Finish(r)
    /\ UNCHANGED <<jobs, suggestions>>

-----------------------------------------------------------------------------
(* The admin's decisions on a match suggestion.                            *)

PushRead(r, j, c) ==
    /\ LiveApps(j, c) = {}
    /\ Start(r, [Idle EXCEPT !.op = "push", !.step = "read", !.job = j, !.cand = c,
                             !.seen = suggestions[<<j, c>>]])
    /\ UNCHANGED <<jobs, apps, suggestions, trail>>

PushCommit(r, a) ==
    /\ At(r, "push", "read")
    /\ RecordDecision(r, "PUSHED")
    /\ InsertApp(a, req[r].job, req[r].cand, TRUE)
    /\ Finish(r)
    /\ UNCHANGED <<jobs, trail>>

DismissRead(r, j, c) ==
    /\ suggestions[<<j, c>>] # "DISMISSED"
    /\ Start(r, [Idle EXCEPT !.op = "dismiss", !.step = "read", !.job = j, !.cand = c,
                             !.seen = suggestions[<<j, c>>]])
    /\ UNCHANGED <<jobs, apps, suggestions, trail>>

DismissCommit(r) ==
    /\ At(r, "dismiss", "read")
    /\ JobExists(req[r].job)
    /\ RecordDecision(r, "DISMISSED")
    /\ Finish(r)
    /\ UNCHANGED <<jobs, apps, trail>>

-----------------------------------------------------------------------------
(* Jobs.                                                                   *)

CreateJob(j) ==
    /\ jobs[j] = "ABSENT"
    /\ jobs' = [jobs EXCEPT ![j] = "PENDING_APPROVAL"]
    /\ UNCHANGED <<apps, suggestions, trail, req>>

AdminCreateJob(j, s) ==
    /\ jobs[j] = "ABSENT"
    /\ jobs' = [jobs EXCEPT ![j] = s]
    /\ UNCHANGED <<apps, suggestions, trail, req>>

ReadPendingJob(r, op, j) ==
    /\ jobs[j] = "PENDING_APPROVAL"
    /\ Start(r, [Idle EXCEPT !.op = op, !.step = "read", !.job = j])
    /\ UNCHANGED <<jobs, apps, suggestions, trail>>

ApproveJobRead(r, j) == ReadPendingJob(r, "approve_job", j)
RejectJobRead(r, j) == ReadPendingJob(r, "reject_job", j)
CompanyDeleteRead(r, j) == ReadPendingJob(r, "company_delete_job", j)

Decide(r, op, s) ==
    LET j == req[r].job IN
    /\ At(r, op, "read")
    /\ JobExists(j)
    /\ ~Locked(j)
    /\ jobs' = [jobs EXCEPT ![j] = s]
    /\ Finish(r)
    /\ UNCHANGED <<apps, suggestions, trail>>

(* Mutant: the job takes an application's status.                          *)
ApproveAsApplication(r) == Decide(r, "approve_job", "APPROVED_BY_ADMIN")

ApproveJobCommit(r) == Decide(r, "approve_job", "PUBLISHED")
RejectJobCommit(r) == Decide(r, "reject_job", "CLOSED")

(* Deleting a job row takes its applications and suggestions with it.      *)
RemoveJob(j) ==
    /\ ~Locked(j)
    /\ jobs' = [jobs EXCEPT ![j] = "DELETED"]
    /\ apps' = [a \in Apps |-> IF Exists(a) /\ apps[a].job = j
                              THEN [apps[a] EXCEPT !.status = "DELETED"] ELSE apps[a]]
    /\ suggestions' = [p \in Jobs \X Candidates |->
                          IF p[1] = j THEN "NONE" ELSE suggestions[p]]

CompanyDeleteCommit(r) ==
    /\ At(r, "company_delete_job", "read")
    /\ RemoveJob(req[r].job)
    /\ Finish(r)
    /\ UNCHANGED <<trail>>

AdminDeleteJob(j) ==
    /\ JobExists(j)
    /\ RemoveJob(j)
    /\ UNCHANGED <<trail, req>>

(* The admin's edit that moves a job to status s.                          *)
UpdateJobRead(r, j, s) ==
    /\ JobExists(j)
    /\ jobs[j] # s
    /\ Start(r, [Idle EXCEPT !.op = "update_job", !.step = "read", !.job = j,
                             !.seen = jobs[j], !.to = s])
    /\ UNCHANGED <<jobs, apps, suggestions, trail>>

IsClosing(r) == req[r].seen = "PUBLISHED" /\ req[r].to = "CLOSED"

UpdateJobFlush(r) ==
    /\ At(r, "update_job", "read")
    /\ JobExists(req[r].job)
    /\ ~Locked(req[r].job)
    /\ req' = [req EXCEPT ![r].step = IF IsClosing(r) THEN "flushed" ELSE "selected"]
    /\ UNCHANGED <<jobs, apps, suggestions, trail>>

(* close_active_applications selects the rows it is about to close.        *)
SelectActiveApplications(r) ==
    /\ At(r, "update_job", "flushed")
    /\ req' = [req EXCEPT ![r].step = "selected",
                          ![r].batch = {a \in Apps : /\ apps[a].job = req[r].job
                                                     /\ apps[a].status \in ActiveStatuses}]
    /\ UNCHANGED <<jobs, apps, suggestions, trail>>

(* Rows of the batch deleted since the SELECT are passed over, unless the  *)
(* batch is that one row: then the UPDATE fails for having matched none.   *)
UpdateJobCommit(r) ==
    LET j == req[r].job
        closed == {a \in req[r].batch : Exists(a)}
    IN
    /\ At(r, "update_job", "selected")
    /\ Cardinality(req[r].batch) = 1 => closed # {}
    /\ \A a \in closed : IndexAdmits(a, apps[a].job, apps[a].cand)
    /\ jobs' = [jobs EXCEPT ![j] = req[r].to]
    /\ apps' = [a \in Apps |-> IF a \in closed
                              THEN [apps[a] EXCEPT !.status = "JOB_CLOSED"] ELSE apps[a]]
    /\ trail' = [a \in Apps |-> IF a \in req[r].batch THEN Recorded("JOB_CLOSED")
                                ELSE trail[a]]
    /\ Finish(r)
    /\ UNCHANGED <<suggestions>>

-----------------------------------------------------------------------------
(* The end of every transaction.                                           *)

(* Any database error, a disconnect or a crash before COMMIT rolls the     *)
(* transaction back.                                                       *)
Rollback(r) ==
    /\ req[r].step # "idle"
    /\ Finish(r)
    /\ UNCHANGED <<jobs, apps, suggestions, trail>>

Next ==
    \/ \E j \in Jobs : CreateJob(j) \/ AdminDeleteJob(j)
    \/ \E j \in Jobs, s \in JobStatuses : AdminCreateJob(j, s)
    \/ \E a \in Apps : DeleteApplication(a)
    \/ \E r \in Requests :
          \/ \E j \in Jobs, c \in Candidates :
                ApplyReadJob(r, j, c) \/ PushRead(r, j, c) \/ DismissRead(r, j, c)
          \/ \E j \in Jobs :
                ApproveJobRead(r, j) \/ RejectJobRead(r, j) \/ CompanyDeleteRead(r, j)
          \/ \E j \in Jobs, s \in JobStatuses : UpdateJobRead(r, j, s)
          \/ \E a \in Apps : \/ ApplyCommit(r, a) \/ PushCommit(r, a)
                             \/ WithdrawRead(r, a)
          \/ \E a \in Apps, s \in AdminStatuses : SetStatusRead(r, a, s)
          \/ \E a \in Apps, s \in CompanyStatuses : CompanyReviewRead(r, a, s)
          \/ ApplyCheck(r) \/ WithdrawCommit(r) \/ SetStatusCommit(r)
          \/ CompanyReviewCommit(r)
          \/ DismissCommit(r) \/ ApproveJobCommit(r) \/ RejectJobCommit(r)
          \/ CompanyDeleteCommit(r) \/ UpdateJobFlush(r)
          \/ SelectActiveApplications(r) \/ UpdateJobCommit(r)
          \/ Rollback(r)

Spec == Init /\ [][Next]_vars

-----------------------------------------------------------------------------
(* What holds whatever the interleaving.                                   *)

(* A candidate never has two applications to one job that are not          *)
(* withdrawn, although every writer checks before it writes and an admin   *)
(* may overwrite a withdrawal the candidate has already replaced.          *)
OneLiveApplication ==
    \A a, b \in Apps :
        Live(apps[a]) /\ Live(apps[b]) /\ apps[a].job = apps[b].job
            /\ apps[a].cand = apps[b].cand => a = b

(* The activity timeline lacks the decisions of companies and nothing      *)
(* else: however status changes, withdrawals, closing cascades and company *)
(* decisions overwrite one another, a row whose newest audit row does not  *)
(* name its status has a status a company set after that audit row.        *)
TimelineLacksOnlyCompanies ==
    \A a \in Apps : Exists(a) =>
        IF trail[a].overruled THEN apps[a].status \in CompanyStatuses
                              ELSE apps[a].status = trail[a].status

(* A pair an admin pushed never returns to the match feed: while a pushed  *)
(* application exists, even withdrawn, its pair has a decision row.        *)
PushedPairStaysDecided ==
    \A a \in Apps : Exists(a) /\ apps[a].pushed
                      => suggestions[<<apps[a].job, apps[a].cand>>] # "NONE"

(* Two closings of one job never close an application twice: a cascade     *)
(* meets no application that is already JOB_CLOSED, so no candidate is     *)
(* told twice.  (For instances in which no admin sets JOB_CLOSED by hand.) *)
CascadeTellsOnce ==
    [][\A r \in Requests : UpdateJobCommit(r) =>
          \A a \in req[r].batch : apps[a].status # "JOB_CLOSED"]_vars

-----------------------------------------------------------------------------
(* What holds while requests do not overlap, and races break.              *)

(* With one request at a time the handlers implement the life cycle of     *)
(* ApplicationLifecycle, each as a single atomic step: who may move what   *)
(* from which status to which.                                             *)
Lifecycle == INSTANCE ApplicationLifecycle
PromisedLifecycle == Lifecycle!Spec

(* A withdrawn application keeps that status until it is deleted.  The     *)
(* admin's handler says so and checks it, on a row that may change before  *)
(* it writes; the company's does not check.                                *)
WithdrawalIsFinal ==
    [][\A a \in Apps :
          apps[a].status = "WITHDRAWN" => apps'[a].status \in {"WITHDRAWN", "DELETED"}]_vars

=============================================================================
