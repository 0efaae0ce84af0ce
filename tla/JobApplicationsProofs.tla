------------------------ MODULE JobApplicationsProofs ------------------------
(***************************************************************************)
(* Proofs that the invariants of JobApplications hold for every set of     *)
(* jobs, candidates, application rows and concurrent requests, and that    *)
(* requests that do not overlap implement ApplicationLifecycle.            *)
(***************************************************************************)
EXTENDS JobApplications, TLAPS

-----------------------------------------------------------------------------
(* What a request in flight carries, by operation.                         *)

OnPair(r) == req[r].op \in {"apply", "push", "dismiss"}
OnApp(r) == req[r].op \in {"withdraw", "set_status", "company_review"}
Reviews(r) == SetStatusCommit(r) \/ CompanyReviewCommit(r)
OnJob(r) == req[r].op \in {"approve_job", "reject_job", "company_delete_job", "update_job"}

RequestOK(r) ==
    /\ OnPair(r) => req[r].job \in Jobs /\ req[r].cand \in Candidates
    /\ OnPair(r) \/ OnApp(r) => req[r].step \in {"read", "checked"}
    /\ OnApp(r) => req[r].app \in Apps
    /\ req[r].op \in {"set_status", "company_review"} =>
          req[r].to \in ApplicationStatuses /\ req[r].seen \in ApplicationStatuses
    /\ req[r].op = "company_review" => req[r].to \in CompanyStatuses
    /\ OnJob(r) => req[r].job \in Jobs
    /\ req[r].op = "update_job" => req[r].to \in JobStatuses
    /\ \A a \in req[r].batch : apps[a].status # "ABSENT"

(* A row that was inserted has a pair, and a row that was not, no audit.   *)
RowOK(a) ==
    /\ apps[a].status # "ABSENT" => apps[a].job \in Jobs /\ apps[a].cand \in Candidates
    /\ apps[a].status = "ABSENT" => trail[a] = Recorded("NEW")

TypeInv ==
    /\ TypeOK
    /\ \A r \in Requests : RequestOK(r)
    /\ \A a \in Apps : RowOK(a)

-----------------------------------------------------------------------------
(* The actions that only read, or write nothing but the status of a job.   *)
Quiet == UNCHANGED <<apps, suggestions, trail>>

(* The actions that write application or suggestion rows.                  *)
Writes ==
    \/ \E a \in Apps : DeleteApplication(a)
    \/ \E j \in Jobs : AdminDeleteJob(j)
    \/ \E r \in Requests :
          \/ \E a \in Apps : ApplyCommit(r, a) \/ PushCommit(r, a)
          \/ WithdrawCommit(r) \/ Reviews(r) \/ DismissCommit(r)
          \/ CompanyDeleteCommit(r) \/ UpdateJobCommit(r)

(* Every step is quiet or one of the writes.                               *)
LEMMA QuietOrWrites == [Next]_vars => Quiet \/ Writes
  <1> SUFFICES ASSUME [Next]_vars, ~Writes PROVE Quiet
    OBVIOUS
  <1>1. CASE UNCHANGED vars
    BY <1>1 DEF vars, Quiet
  <1>2. ASSUME NEW j \in Jobs, CreateJob(j) \/ \E s \in JobStatuses : AdminCreateJob(j, s)
        PROVE  Quiet
    BY <1>2 DEF CreateJob, AdminCreateJob, Quiet
  <1>3. ASSUME NEW r \in Requests, NEW j \in Jobs,
               \/ \E c \in Candidates :
                     ApplyReadJob(r, j, c) \/ PushRead(r, j, c) \/ DismissRead(r, j, c)
               \/ ApproveJobRead(r, j) \/ RejectJobRead(r, j) \/ CompanyDeleteRead(r, j)
               \/ \E s \in JobStatuses : UpdateJobRead(r, j, s)
        PROVE  Quiet
    BY <1>3
    DEF ApplyReadJob, PushRead, DismissRead, ApproveJobRead, RejectJobRead,
        CompanyDeleteRead, ReadPendingJob, UpdateJobRead, Quiet
  <1>4. ASSUME NEW r \in Requests, NEW a \in Apps,
               \/ WithdrawRead(r, a)
               \/ \E s \in AdminStatuses : SetStatusRead(r, a, s)
               \/ \E s \in CompanyStatuses : CompanyReviewRead(r, a, s)
        PROVE  Quiet
    BY <1>4 DEF WithdrawRead, SetStatusRead, CompanyReviewRead, Quiet
  <1>5. ASSUME NEW r \in Requests,
               \/ ApplyCheck(r) \/ ApproveJobCommit(r) \/ RejectJobCommit(r)
               \/ UpdateJobFlush(r) \/ SelectActiveApplications(r) \/ Rollback(r)
        PROVE  Quiet
    BY <1>5
    DEF ApplyCheck, ApproveJobCommit, RejectJobCommit, Decide, UpdateJobFlush,
        SelectActiveApplications, Rollback, Quiet
  <1>6. QED
    BY <1>1, <1>2, <1>3, <1>4, <1>5 DEF Next, Writes, Reviews

(* The admin's and the company's decision on an application write the same *)
(* columns, and differ in what the audit trail gets.                       *)
LEMMA ReviewWrites ==
  ASSUME NEW r \in Requests, Reviews(r)
  PROVE  /\ At(r, "set_status", "read") \/ At(r, "company_review", "read")
         /\ WriteStatus(r)
         /\ apps' = apps \/ apps' = [apps EXCEPT ![req[r].app].status = req[r].to]
         /\ Finish(r)
         /\ UNCHANGED <<jobs, suggestions>>
  BY DEF Reviews, SetStatusCommit, CompanyReviewCommit, WriteStatus

LEMMA ReviewAudits ==
  ASSUME NEW r \in Requests, Reviews(r), trail \in [Apps -> AuditRow],
         req[r].app \in Apps, req[r].to \in ApplicationStatuses
  PROVE  \E row \in AuditRow :
            trail' = trail \/ trail' = [trail EXCEPT ![req[r].app] = row]
  <1> DEFINE a == req[r].app
  <1>1. /\ Recorded(req[r].to) \in AuditRow
        /\ [trail[a] EXCEPT !.overruled = TRUE] \in AuditRow
    BY DEF Recorded, AuditRow
  <1>2. \/ trail' = trail
        \/ trail' = [trail EXCEPT ![a] = Recorded(req[r].to)]
        \/ trail' = [trail EXCEPT ![a] = [trail[a] EXCEPT !.overruled = TRUE]]
    BY DEF Reviews, SetStatusCommit, CompanyReviewCommit, Audit
  <1>3. QED
    BY <1>1, <1>2

(* The initial state is well typed.                                        *)
LEMMA InitTypeInv == Init => TypeInv
  <1> SUFFICES ASSUME Init PROVE TypeInv
    OBVIOUS
  <1>1. Idle \in Request
    BY DEF Idle, Request
  <1>2. TypeOK
    BY <1>1
    DEF Init, TypeOK, AppRow, AuditRow, Recorded, JobStatuses, ApplicationStatuses, Gone
  <1>3. \A r \in Requests : RequestOK(r)
    BY ConstantsAssumption DEF Init, RequestOK, OnPair, OnApp, OnJob, Idle, Ops
  <1>4. \A a \in Apps : RowOK(a)
    BY DEF Init, RowOK
  <1>5. QED
    BY <1>2, <1>3, <1>4 DEF TypeInv

(* The steps that start a request, whatever it reads.                      *)
LEMMA StartTyped ==
  ASSUME TypeInv, NEW r \in Requests, NEW request \in Request, Start(r, request),
         UNCHANGED <<jobs, apps, suggestions, trail>>,
         request.batch = {},
         request.op \in {"apply", "push", "dismiss"} =>
            /\ request.job \in Jobs /\ request.cand \in Candidates
            /\ request.step = "read",
         request.op \in {"withdraw", "set_status", "company_review"} =>
            request.app \in Apps /\ request.step = "read",
         request.op \in {"set_status", "company_review"} =>
            request.to \in ApplicationStatuses /\ request.seen \in ApplicationStatuses,
         request.op = "company_review" => request.to \in CompanyStatuses,
         request.op \in {"approve_job", "reject_job", "company_delete_job", "update_job"} =>
            request.job \in Jobs,
         request.op = "update_job" => request.to \in JobStatuses
  PROVE  TypeInv'
  <1>1. TypeOK'
    BY DEF TypeInv, TypeOK, Start
  <1>2. \A s \in Requests : RequestOK(s)'
    BY DEF TypeInv, TypeOK, Start, RequestOK, OnPair, OnApp, OnJob
  <1>3. \A a \in Apps : RowOK(a)'
    BY DEF TypeInv, RowOK
  <1>4. QED
    BY <1>1, <1>2, <1>3 DEF TypeInv

(* A request ends; the rows it leaves are typed and none of them vanished. *)
LEMMA FinishTyped ==
  ASSUME TypeInv, NEW r \in Requests, Finish(r),
         jobs' \in [Jobs -> JobStatuses \cup Gone],
         apps' \in [Apps -> AppRow],
         suggestions' \in [Jobs \X Candidates -> {"NONE", "PUSHED", "DISMISSED"}],
         trail' \in [Apps -> AuditRow],
         \A a \in Apps : apps[a].status # "ABSENT" => apps'[a].status # "ABSENT",
         \A a \in Apps : RowOK(a)'
  PROVE  TypeInv'
  <1>1. Idle \in Request
    BY DEF Idle, Request
  <1>2. req' \in [Requests -> Request]
    BY <1>1 DEF TypeInv, TypeOK, Finish
  <1>3. ASSUME NEW s \in Requests
        PROVE  RequestOK(s)'
    <2>1. CASE s = r
      BY <2>1, ConstantsAssumption
      DEF TypeInv, TypeOK, Finish, RequestOK, OnPair, OnApp, OnJob, Idle, Ops
    <2>2. CASE s # r
      <3>1. req'[s] = req[s]
        BY <2>2 DEF TypeInv, TypeOK, Finish
      <3>2. req[s].batch \subseteq Apps
        BY DEF TypeInv, TypeOK, Request
      <3>3. QED
        BY <3>1, <3>2 DEF TypeInv, RequestOK, OnPair, OnApp, OnJob
    <2>3. QED
      BY <2>1, <2>2
  <1>4. QED
    BY <1>2, <1>3 DEF TypeInv, TypeOK

(* Rows change while no request does.                                      *)
LEMMA NoRequestTyped ==
  ASSUME TypeInv, req' = req,
         jobs' \in [Jobs -> JobStatuses \cup Gone],
         apps' \in [Apps -> AppRow],
         suggestions' \in [Jobs \X Candidates -> {"NONE", "PUSHED", "DISMISSED"}],
         trail' \in [Apps -> AuditRow],
         \A a \in Apps : apps[a].status # "ABSENT" => apps'[a].status # "ABSENT",
         \A a \in Apps : RowOK(a)'
  PROVE  TypeInv'
  <1>1. \A r \in Requests : req[r].batch \subseteq Apps
    BY DEF TypeInv, TypeOK, Request
  <1>2. \A r \in Requests : RequestOK(r)'
    BY <1>1 DEF TypeInv, RequestOK, OnPair, OnApp, OnJob
  <1>3. QED
    BY <1>2 DEF TypeInv, TypeOK

(* Inserting a row keeps the rows typed.                                   *)
LEMMA InsertTyped ==
  ASSUME TypeInv, NEW a \in Apps, NEW j \in Jobs, NEW c \in Candidates,
         NEW isPushed \in BOOLEAN, InsertApp(a, j, c, isPushed), UNCHANGED trail
  PROVE  /\ apps' \in [Apps -> AppRow]
         /\ \A b \in Apps : apps[b].status # "ABSENT" => apps'[b].status # "ABSENT"
         /\ \A b \in Apps : RowOK(b)'
  BY DEF TypeInv, TypeOK, InsertApp, AppRow, ApplicationStatuses, RowOK

(* Setting the status of a row that exists, with its audit row or by a     *)
(* deletion, keeps the rows typed.                                         *)
LEMMA SetStatusTyped ==
  ASSUME TypeInv, NEW a \in Apps, apps[a].status # "ABSENT",
         NEW s \in (ApplicationStatuses \cup Gone) \ {"ABSENT"},
         apps' = apps \/ apps' = [apps EXCEPT ![a].status = s],
         NEW t \in AuditRow,
         trail' = trail \/ trail' = [trail EXCEPT ![a] = t]
  PROVE  /\ apps' \in [Apps -> AppRow]
         /\ trail' \in [Apps -> AuditRow]
         /\ \A b \in Apps : apps[b].status # "ABSENT" => apps'[b].status # "ABSENT"
         /\ \A b \in Apps : RowOK(b)'
  <1>1. apps \in [Apps -> AppRow] /\ trail \in [Apps -> AuditRow]
    BY DEF TypeInv, TypeOK
  <1>2. [apps[a] EXCEPT !.status = s] \in AppRow
    BY <1>1 DEF AppRow
  <1>3. apps' \in [Apps -> AppRow] /\ trail' \in [Apps -> AuditRow]
    BY <1>1, <1>2
  <1>4. /\ apps'[a].status # "ABSENT"
        /\ apps'[a].job = apps[a].job /\ apps'[a].cand = apps[a].cand
    BY <1>1 DEF AppRow
  <1>5. \A b \in Apps : b # a => apps'[b] = apps[b] /\ trail'[b] = trail[b]
    BY <1>1
  <1>6. QED
    BY <1>3, <1>4, <1>5 DEF TypeInv, RowOK

(* Removing a job keeps the rows typed.                                    *)
LEMMA RemoveJobTyped ==
  ASSUME TypeInv, NEW j \in Jobs, RemoveJob(j), UNCHANGED trail
  PROVE  /\ jobs' \in [Jobs -> JobStatuses \cup Gone]
         /\ apps' \in [Apps -> AppRow]
         /\ suggestions' \in [Jobs \X Candidates -> {"NONE", "PUSHED", "DISMISSED"}]
         /\ \A b \in Apps : apps[b].status # "ABSENT" => apps'[b].status # "ABSENT"
         /\ \A b \in Apps : RowOK(b)'
  <1>1. jobs' \in [Jobs -> JobStatuses \cup Gone]
    BY DEF TypeInv, TypeOK, RemoveJob, Gone
  <1>2. apps' \in [Apps -> AppRow]
    <2>1. ASSUME NEW a \in Apps
          PROVE  [apps[a] EXCEPT !.status = "DELETED"] \in AppRow
      BY DEF TypeInv, TypeOK, AppRow, Gone
    <2>2. QED
      BY <2>1 DEF TypeInv, TypeOK, RemoveJob
  <1>3. suggestions' \in [Jobs \X Candidates -> {"NONE", "PUSHED", "DISMISSED"}]
    BY DEF TypeInv, TypeOK, RemoveJob
  <1>4. \A b \in Apps : apps[b].status # "ABSENT" => apps'[b].status # "ABSENT"
    BY DEF TypeInv, TypeOK, RemoveJob, AppRow
  <1>5. \A b \in Apps : RowOK(b)'
    BY DEF TypeInv, TypeOK, RemoveJob, AppRow, RowOK, Exists, Gone
  <1>6. QED
    BY <1>1, <1>2, <1>3, <1>4, <1>5

-----------------------------------------------------------------------------
(* Every step preserves TypeInv, one lemma for each kind of step.          *)

(* A request that starts on a pair.                                        *)
LEMMA StartOnPair ==
  ASSUME TypeInv, NEW r \in Requests, NEW j \in Jobs, NEW c \in Candidates,
         ApplyReadJob(r, j, c) \/ PushRead(r, j, c) \/ DismissRead(r, j, c)
  PROVE  TypeInv'
  <1>1. suggestions[<<j, c>>] \in {"NONE", "PUSHED", "DISMISSED"}
    BY DEF TypeInv, TypeOK
  <1> DEFINE Apply == [Idle EXCEPT !.op = "apply", !.step = "read", !.job = j, !.cand = c]
             Push == [Idle EXCEPT !.op = "push", !.step = "read", !.job = j, !.cand = c,
                                  !.seen = suggestions[<<j, c>>]]
             Dismiss == [Idle EXCEPT !.op = "dismiss", !.step = "read", !.job = j,
                                     !.cand = c, !.seen = suggestions[<<j, c>>]]
  <1>2. CASE ApplyReadJob(r, j, c)
    <2>1. /\ Apply \in Request
          /\ Apply.op = "apply" /\ Apply.step = "read" /\ Apply.job = j /\ Apply.cand = c
          /\ Apply.batch = {}
      BY DEF Idle, Request, Ops
    <2>2. QED
      BY <1>2, <2>1, StartTyped DEF ApplyReadJob
  <1>3. CASE PushRead(r, j, c)
    <2>1. /\ Push \in Request
          /\ Push.op = "push" /\ Push.step = "read" /\ Push.job = j /\ Push.cand = c
          /\ Push.batch = {}
      BY <1>1 DEF Idle, Request, Ops
    <2>2. QED
      BY <1>3, <2>1, StartTyped DEF PushRead
  <1>4. CASE DismissRead(r, j, c)
    <2>1. /\ Dismiss \in Request
          /\ Dismiss.op = "dismiss" /\ Dismiss.step = "read"
          /\ Dismiss.job = j /\ Dismiss.cand = c /\ Dismiss.batch = {}
      BY <1>1 DEF Idle, Request, Ops
    <2>2. QED
      BY <1>4, <2>1, StartTyped DEF DismissRead
  <1>5. QED
    BY <1>2, <1>3, <1>4

(* A withdrawal that starts.                                               *)
LEMMA StartWithdrawal ==
  ASSUME TypeInv, NEW r \in Requests, NEW a \in Apps, WithdrawRead(r, a)
  PROVE  TypeInv'
  <1> DEFINE Withdrawal == [Idle EXCEPT !.op = "withdraw", !.step = "read", !.app = a]
  <1>1. /\ Withdrawal \in Request
        /\ Withdrawal.op = "withdraw" /\ Withdrawal.step = "read"
        /\ Withdrawal.app = a /\ Withdrawal.batch = {}
    BY DEF Idle, Request, Ops
  <1>2. QED
    BY <1>1, StartTyped DEF WithdrawRead

(* A decision of the admin or of the company on an application that starts.*)
LEMMA StartReview ==
  ASSUME TypeInv, NEW r \in Requests, NEW a \in Apps,
         \/ \E s \in AdminStatuses : SetStatusRead(r, a, s)
         \/ \E s \in CompanyStatuses : CompanyReviewRead(r, a, s)
  PROVE  TypeInv'
  <1> DEFINE Review(op, s) == [Idle EXCEPT !.op = op, !.step = "read", !.app = a,
                                           !.seen = apps[a].status, !.to = s]
  <1>1. /\ apps[a].status \in ApplicationStatuses
        /\ UNCHANGED <<jobs, apps, suggestions, trail>>
    BY DEF SetStatusRead, CompanyReviewRead, Reviewable, Exists, TypeInv, TypeOK, AppRow
  <1>2. PICK op \in {"set_status", "company_review"}, s \in ApplicationStatuses :
           /\ Start(r, Review(op, s))
           /\ op = "company_review" => s \in CompanyStatuses
    BY ConstantsAssumption
    DEF SetStatusRead, CompanyReviewRead, CompanyStatuses, ApplicationStatuses
  <1>3. /\ Review(op, s) \in Request
        /\ Review(op, s).op = op /\ Review(op, s).step = "read" /\ Review(op, s).app = a
        /\ Review(op, s).seen = apps[a].status /\ Review(op, s).to = s
        /\ Review(op, s).batch = {}
    BY <1>1 DEF Idle, Request, Ops
  <1> HIDE DEF Review
  <1>4. QED
    BY <1>1, <1>2, <1>3, StartTyped

(* A request that starts on a job.                                         *)
LEMMA StartOnJob ==
  ASSUME TypeInv, NEW r \in Requests, NEW j \in Jobs, NEW s \in JobStatuses,
         \/ \E op \in {"approve_job", "reject_job", "company_delete_job"} :
               ReadPendingJob(r, op, j)
         \/ UpdateJobRead(r, j, s)
  PROVE  TypeInv'
  <1>1. ASSUME NEW op \in {"approve_job", "reject_job", "company_delete_job"},
               ReadPendingJob(r, op, j)
        PROVE  TypeInv'
    <2> DEFINE Decision == [Idle EXCEPT !.op = op, !.step = "read", !.job = j]
    <2>1. /\ Decision \in Request
          /\ Decision.op = op /\ Decision.job = j /\ Decision.batch = {}
      BY DEF Idle, Request, Ops
    <2>2. QED
      BY <1>1, <2>1, StartTyped DEF ReadPendingJob
  <1>2. CASE UpdateJobRead(r, j, s)
    <2> DEFINE Edit == [Idle EXCEPT !.op = "update_job", !.step = "read", !.job = j,
                                    !.seen = jobs[j], !.to = s]
    <2>1. jobs[j] \in JobStatuses
      BY <1>2 DEF UpdateJobRead, JobExists, TypeInv, TypeOK
    <2>2. /\ Edit \in Request
          /\ Edit.op = "update_job" /\ Edit.job = j /\ Edit.to = s /\ Edit.batch = {}
      BY <2>1 DEF Idle, Request, Ops
    <2>3. QED
      BY <1>2, <2>2, StartTyped DEF UpdateJobRead
  <1>3. QED
    BY <1>1, <1>2

(* A request stays one when its step or its batch changes.                 *)
LEMMA RequestEdited ==
  ASSUME NEW q \in Request, NEW batch \in SUBSET Apps,
         NEW step \in {"checked", "flushed", "selected"}
  PROVE  /\ [q EXCEPT !.step = step] \in Request
         /\ [q EXCEPT !.step = step, !.batch = batch] \in Request
  <1>1. ASSUME NEW p \in Request
        PROVE  [p EXCEPT !.step = step] \in Request
    BY <1>1 DEF Request
  <1>2. ASSUME NEW p \in Request
        PROVE  [p EXCEPT !.batch = batch] \in Request
    BY <1>2 DEF Request
  <1>3. [q EXCEPT !.step = step, !.batch = batch]
           = [[q EXCEPT !.step = step] EXCEPT !.batch = batch]
    BY DEF Request
  <1>4. QED
    BY <1>1, <1>2, <1>3

(* A request whose step alone changes keeps carrying what it carried.      *)
LEMMA StepKeepsRequests ==
  ASSUME TypeInv, NEW r \in Requests, NEW step \in {"checked", "flushed", "selected"},
         req' = [req EXCEPT ![r] = [req[r] EXCEPT !.step = step]],
         OnApp(r) => FALSE, OnPair(r) => step = "checked",
         UNCHANGED apps
  PROVE  req' \in [Requests -> Request] /\ \A s \in Requests : RequestOK(s)'
  <1>1. req[r] \in Request /\ [req[r] EXCEPT !.step = step] \in Request
    BY RequestEdited DEF TypeInv, TypeOK
  <1>2. req' \in [Requests -> Request]
    BY <1>1 DEF TypeInv, TypeOK
  <1>3. req'[r] = [req[r] EXCEPT !.step = step]
    BY DEF TypeInv, TypeOK
  <1>4. /\ req'[r].op = req[r].op /\ req'[r].job = req[r].job
        /\ req'[r].cand = req[r].cand /\ req'[r].to = req[r].to
        /\ req'[r].batch = req[r].batch /\ req'[r].step = step
    BY <1>1, <1>3 DEF Request
  <1>5. RequestOK(r)'
    BY <1>4 DEF TypeInv, RequestOK, OnPair, OnApp, OnJob
  <1>6. ASSUME NEW s \in Requests, s # r
        PROVE  RequestOK(s)'
    <2>1. req'[s] = req[s] /\ apps' = apps
      BY <1>6 DEF TypeInv, TypeOK
    <2>2. QED
      BY <2>1 DEF TypeInv, RequestOK, OnPair, OnApp, OnJob
  <1>7. QED
    BY <1>2, <1>5, <1>6

(* A request that moves on without writing a row.                          *)
LEMMA MoveOn ==
  ASSUME TypeInv, NEW r \in Requests,
         ApplyCheck(r) \/ UpdateJobFlush(r) \/ SelectActiveApplications(r) \/ Rollback(r)
  PROVE  TypeInv'
  <1>1. \A a \in Apps : RowOK(a)'
    BY DEF TypeInv, RowOK, ApplyCheck, UpdateJobFlush, SelectActiveApplications, Rollback
  <1>2. CASE ApplyCheck(r)
    <2>1. CASE LiveApps(req[r].job, req[r].cand) = {}
      <3>1. req' = [req EXCEPT ![r] = [req[r] EXCEPT !.step = "checked"]]
        BY <1>2, <2>1 DEF ApplyCheck
      <3>2. req' \in [Requests -> Request] /\ \A s \in Requests : RequestOK(s)'
        BY <1>2, <3>1, StepKeepsRequests DEF ApplyCheck, At, OnPair, OnApp
      <3>3. QED
        BY <1>1, <1>2, <3>2 DEF TypeInv, TypeOK, ApplyCheck
    <2>2. CASE LiveApps(req[r].job, req[r].cand) # {}
      BY <1>1, <1>2, <2>2, FinishTyped DEF ApplyCheck, Finish, TypeInv, TypeOK
    <2>3. QED
      BY <2>1, <2>2
  <1>3. CASE UpdateJobFlush(r)
    <2> DEFINE step == IF IsClosing(r) THEN "flushed" ELSE "selected"
    <2>1. req' = [req EXCEPT ![r] = [req[r] EXCEPT !.step = step]]
      BY <1>3 DEF UpdateJobFlush, TypeInv, TypeOK, Request
    <2>2. req' \in [Requests -> Request] /\ \A s \in Requests : RequestOK(s)'
      BY <1>3, <2>1, StepKeepsRequests DEF UpdateJobFlush, At, OnPair, OnApp
    <2>3. QED
      BY <1>1, <1>3, <2>2 DEF TypeInv, TypeOK, UpdateJobFlush
  <1>4. CASE SelectActiveApplications(r)
    <2> DEFINE batch == {a \in Apps : /\ apps[a].job = req[r].job
                                      /\ apps[a].status \in ActiveStatuses}
    <2>1. req' = [req EXCEPT ![r] = [req[r] EXCEPT !.step = "selected", !.batch = batch]]
      BY <1>4 DEF SelectActiveApplications, TypeInv, TypeOK, Request
    <2>2. batch \in SUBSET Apps /\ \A a \in batch : apps[a].status # "ABSENT"
      BY DEF ActiveStatuses
    <2> HIDE DEF batch
    <2>3. req' \in [Requests -> Request]
      <3>1. [req[r] EXCEPT !.step = "selected", !.batch = batch] \in Request
        BY <2>2, RequestEdited DEF TypeInv, TypeOK
      <3>2. QED
        BY <2>1, <3>1 DEF TypeInv, TypeOK
    <2>4. \A s \in Requests : RequestOK(s)'
      <3> SUFFICES ASSUME NEW s \in Requests PROVE RequestOK(s)'
        OBVIOUS
      <3>1. UNCHANGED apps
        BY <1>4 DEF SelectActiveApplications
      <3>2. CASE s = r
        <4>1. req'[r] = [req[r] EXCEPT !.step = "selected", !.batch = batch]
          BY <2>1 DEF TypeInv, TypeOK
        <4>2. req[r] \in Request /\ req[r].op = "update_job"
          BY <1>4 DEF SelectActiveApplications, At, TypeInv, TypeOK
        <4>3. /\ req'[r].op = "update_job" /\ req'[r].batch = batch
              /\ req'[r].job = req[r].job /\ req'[r].to = req[r].to
          BY <4>1, <4>2 DEF Request
        <4>4. QED
          BY <2>2, <3>1, <3>2, <4>2, <4>3 DEF TypeInv, RequestOK, OnPair, OnApp, OnJob
      <3>3. CASE s # r
        BY <2>1, <3>1, <3>3 DEF TypeInv, TypeOK, RequestOK, OnPair, OnApp, OnJob
      <3>4. QED
        BY <3>2, <3>3
    <2>5. QED
      BY <1>1, <1>4, <2>3, <2>4 DEF TypeInv, TypeOK, SelectActiveApplications
  <1>5. CASE Rollback(r)
    BY <1>1, <1>5, FinishTyped DEF Rollback, TypeInv, TypeOK
  <1>6. QED
    BY <1>2, <1>3, <1>4, <1>5

(* A request that commits changes to an application or a suggestion.       *)
LEMMA CommitRow ==
  ASSUME TypeInv, NEW r \in Requests,
         \/ \E a \in Apps : ApplyCommit(r, a) \/ PushCommit(r, a)
         \/ WithdrawCommit(r) \/ Reviews(r) \/ DismissCommit(r)
  PROVE  TypeInv'
  <1> USE DEF OnPair, OnApp, OnJob
  <1>1. ASSUME NEW a \in Apps, ApplyCommit(r, a)
        PROVE  TypeInv'
    <2>1. req[r].job \in Jobs /\ req[r].cand \in Candidates
      BY <1>1 DEF ApplyCommit, At, TypeInv, RequestOK
    <2>2. QED
      BY <1>1, <2>1, InsertTyped, FinishTyped DEF ApplyCommit, TypeInv, TypeOK
  <1>2. ASSUME NEW a \in Apps, PushCommit(r, a)
        PROVE  TypeInv'
    <2>1. req[r].job \in Jobs /\ req[r].cand \in Candidates
      BY <1>2 DEF PushCommit, At, TypeInv, RequestOK
    <2>2. suggestions' \in [Jobs \X Candidates -> {"NONE", "PUSHED", "DISMISSED"}]
      BY <1>2, <2>1 DEF PushCommit, RecordDecision, TypeInv, TypeOK
    <2>3. QED
      BY <1>2, <2>1, <2>2, InsertTyped, FinishTyped DEF PushCommit, TypeInv, TypeOK
  <1>3. CASE WithdrawCommit(r)
    <2> DEFINE a == req[r].app
    <2>1. a \in Apps /\ apps[a].status # "ABSENT"
      BY <1>3 DEF WithdrawCommit, At, TypeInv, RequestOK, Exists, Gone
    <2>2. /\ apps' = [apps EXCEPT ![a].status = "WITHDRAWN"]
          /\ trail' = [trail EXCEPT ![a] = Recorded("WITHDRAWN")]
          /\ "WITHDRAWN" \in (ApplicationStatuses \cup Gone) \ {"ABSENT"}
          /\ Recorded("WITHDRAWN") \in AuditRow
      BY <1>3 DEF WithdrawCommit, Audit, Recorded, AuditRow, ApplicationStatuses, Gone
    <2> HIDE DEF a
    <2>3. /\ apps' \in [Apps -> AppRow]
          /\ trail' \in [Apps -> AuditRow]
          /\ \A b \in Apps : apps[b].status # "ABSENT" => apps'[b].status # "ABSENT"
          /\ \A b \in Apps : RowOK(b)'
      BY <2>1, <2>2, SetStatusTyped
    <2>4. QED
      BY <1>3, <2>3, FinishTyped DEF WithdrawCommit, TypeInv, TypeOK
  <1>4. CASE Reviews(r)
    <2> DEFINE a == req[r].app
    <2>1. a \in Apps /\ apps[a].status # "ABSENT" /\ req[r].to \in ApplicationStatuses
      BY <1>4, ReviewWrites DEF At, WriteStatus, TypeInv, RequestOK, Exists, Gone
    <2>2. /\ apps' = apps \/ apps' = [apps EXCEPT ![a].status = req[r].to]
          /\ \E row \in AuditRow : trail' = trail \/ trail' = [trail EXCEPT ![a] = row]
      BY <1>4, <2>1, ReviewAudits, ReviewWrites DEF WriteStatus, TypeInv, TypeOK
    <2> HIDE DEF a
    <2>3. /\ apps' \in [Apps -> AppRow]
          /\ trail' \in [Apps -> AuditRow]
          /\ \A b \in Apps : apps[b].status # "ABSENT" => apps'[b].status # "ABSENT"
          /\ \A b \in Apps : RowOK(b)'
      <3>1. "ABSENT" \notin ApplicationStatuses
        BY DEF ApplicationStatuses
      <3>2. QED
        BY <2>1, <2>2, <3>1, SetStatusTyped
    <2>4. QED
      BY <1>4, <2>3, FinishTyped, ReviewWrites DEF TypeInv, TypeOK
  <1>5. CASE DismissCommit(r)
    <2>1. req[r].job \in Jobs /\ req[r].cand \in Candidates
      BY <1>5 DEF DismissCommit, At, TypeInv, RequestOK
    <2>2. suggestions' \in [Jobs \X Candidates -> {"NONE", "PUSHED", "DISMISSED"}]
      BY <1>5, <2>1 DEF DismissCommit, RecordDecision, TypeInv, TypeOK
    <2>3. \A a \in Apps : RowOK(a)'
      BY <1>5 DEF DismissCommit, TypeInv, RowOK
    <2>4. QED
      BY <1>5, <2>2, <2>3, FinishTyped DEF DismissCommit, TypeInv, TypeOK
  <1>6. QED
    BY <1>1, <1>2, <1>3, <1>4, <1>5

(* A request that commits a change to a job.                               *)
LEMMA CommitJob ==
  ASSUME TypeInv, NEW r \in Requests,
         \/ ApproveJobCommit(r) \/ RejectJobCommit(r)
         \/ CompanyDeleteCommit(r) \/ UpdateJobCommit(r)
  PROVE  TypeInv'
  <1> USE DEF OnPair, OnApp, OnJob
  <1>1. ASSUME NEW op \in {"approve_job", "reject_job"}, NEW s \in JobStatuses,
               Decide(r, op, s)
        PROVE  TypeInv'
    <2>1. req[r].job \in Jobs
      BY <1>1 DEF Decide, At, TypeInv, RequestOK
    <2>2. jobs' \in [Jobs -> JobStatuses \cup Gone]
      BY <1>1, <2>1 DEF Decide, TypeInv, TypeOK
    <2>3. \A a \in Apps : RowOK(a)'
      BY <1>1 DEF Decide, TypeInv, RowOK
    <2>4. QED
      BY <1>1, <2>2, <2>3, FinishTyped DEF Decide, TypeInv, TypeOK
  <1>2. "PUBLISHED" \in JobStatuses /\ "CLOSED" \in JobStatuses
    BY DEF JobStatuses
  <1>3. CASE CompanyDeleteCommit(r)
    <2>1. req[r].job \in Jobs
      BY <1>3 DEF CompanyDeleteCommit, At, TypeInv, RequestOK
    <2>2. QED
      BY <1>3, <2>1, RemoveJobTyped, FinishTyped DEF CompanyDeleteCommit, TypeInv, TypeOK
  <1>4. CASE UpdateJobCommit(r)
    <2>1. /\ req[r].job \in Jobs /\ req[r].to \in JobStatuses
          /\ \A a \in req[r].batch : apps[a].status # "ABSENT"
      BY <1>4 DEF UpdateJobCommit, At, TypeInv, RequestOK
    <2>2. jobs' \in [Jobs -> JobStatuses \cup Gone]
      BY <1>4, <2>1 DEF UpdateJobCommit, TypeInv, TypeOK
    <2>3. apps' \in [Apps -> AppRow]
      BY <1>4 DEF UpdateJobCommit, TypeInv, TypeOK, AppRow, ApplicationStatuses
    <2>4. trail' \in [Apps -> AuditRow]
      BY <1>4
      DEF UpdateJobCommit, TypeInv, TypeOK, Recorded, AuditRow, ApplicationStatuses
    <2>5. \A a \in Apps : apps[a].status # "ABSENT" => apps'[a].status # "ABSENT"
      BY <1>4 DEF UpdateJobCommit, TypeInv, TypeOK, AppRow
    <2>6. \A a \in Apps : RowOK(a)'
      BY <1>4, <2>1 DEF UpdateJobCommit, TypeInv, TypeOK, AppRow, RowOK, Exists, Gone
    <2>7. QED
      BY <1>4, <2>2, <2>3, <2>4, <2>5, <2>6, FinishTyped
      DEF UpdateJobCommit, TypeInv, TypeOK
  <1>5. QED
    BY <1>1, <1>2, <1>3, <1>4 DEF ApproveJobCommit, RejectJobCommit

(* A step that no request in flight takes.                                 *)
LEMMA SingleStep ==
  ASSUME TypeInv,
         \/ \E j \in Jobs : CreateJob(j) \/ AdminDeleteJob(j)
         \/ \E j \in Jobs, s \in JobStatuses : AdminCreateJob(j, s)
         \/ \E a \in Apps : DeleteApplication(a)
  PROVE  TypeInv'
  <1>1. ASSUME NEW j \in Jobs, NEW s \in JobStatuses, CreateJob(j) \/ AdminCreateJob(j, s)
        PROVE  TypeInv'
    <2>1. jobs' \in [Jobs -> JobStatuses \cup Gone]
      BY <1>1 DEF CreateJob, AdminCreateJob, TypeInv, TypeOK, JobStatuses
    <2>2. \A a \in Apps : RowOK(a)'
      BY <1>1 DEF CreateJob, AdminCreateJob, TypeInv, RowOK
    <2>3. QED
      BY <1>1, <2>1, <2>2, NoRequestTyped DEF CreateJob, AdminCreateJob, TypeInv, TypeOK
  <1>2. ASSUME NEW j \in Jobs, AdminDeleteJob(j)
        PROVE  TypeInv'
    BY <1>2, RemoveJobTyped, NoRequestTyped DEF AdminDeleteJob, TypeInv, TypeOK
  <1>3. ASSUME NEW a \in Apps, DeleteApplication(a)
        PROVE  TypeInv'
    <2>1. /\ apps[a].status # "ABSENT"
          /\ "DELETED" \in (ApplicationStatuses \cup Gone) \ {"ABSENT"}
          /\ Recorded("NEW") \in AuditRow
      BY <1>3
      DEF DeleteApplication, Exists, Gone, Recorded, AuditRow, ApplicationStatuses
    <2>2. apps' = [apps EXCEPT ![a].status = "DELETED"] /\ trail' = trail
      BY <1>3 DEF DeleteApplication
    <2>3. /\ apps' \in [Apps -> AppRow]
          /\ trail' \in [Apps -> AuditRow]
          /\ \A b \in Apps : apps[b].status # "ABSENT" => apps'[b].status # "ABSENT"
          /\ \A b \in Apps : RowOK(b)'
      BY <2>1, <2>2, SetStatusTyped
    <2>4. QED
      BY <1>3, <2>3, NoRequestTyped DEF DeleteApplication, TypeInv, TypeOK
  <1>4. "PUBLISHED" \in JobStatuses
    BY DEF JobStatuses
  <1>5. QED
    BY <1>1, <1>2, <1>3, <1>4

(* Typing is inductive.                                                    *)
LEMMA NextTypeInv == TypeInv /\ [Next]_vars => TypeInv'
  <1> SUFFICES ASSUME TypeInv, [Next]_vars PROVE TypeInv'
    OBVIOUS
  <1>1. CASE UNCHANGED vars
    BY <1>1 DEF vars, TypeInv, TypeOK, RequestOK, RowOK, OnPair, OnApp, OnJob
  <1>2. CASE Next
    <2>1. CASE \/ \E j \in Jobs : CreateJob(j) \/ AdminDeleteJob(j)
               \/ \E j \in Jobs, s \in JobStatuses : AdminCreateJob(j, s)
               \/ \E a \in Apps : DeleteApplication(a)
      BY <2>1, SingleStep
    <2>2. ASSUME NEW r \in Requests, NEW j \in Jobs, NEW c \in Candidates,
                 ApplyReadJob(r, j, c) \/ PushRead(r, j, c) \/ DismissRead(r, j, c)
          PROVE  TypeInv'
      BY <2>2, StartOnPair
    <2>3. ASSUME NEW r \in Requests, NEW j \in Jobs, NEW s \in JobStatuses,
                 \/ ApproveJobRead(r, j) \/ RejectJobRead(r, j) \/ CompanyDeleteRead(r, j)
                 \/ UpdateJobRead(r, j, s)
          PROVE  TypeInv'
      BY <2>3, StartOnJob DEF ApproveJobRead, RejectJobRead, CompanyDeleteRead
    <2>4. ASSUME NEW r \in Requests, NEW a \in Apps,
                 \/ \E s \in AdminStatuses : SetStatusRead(r, a, s)
                 \/ \E s \in CompanyStatuses : CompanyReviewRead(r, a, s)
          PROVE  TypeInv'
      BY <2>4, StartReview
    <2>5. ASSUME NEW r \in Requests, NEW a \in Apps, WithdrawRead(r, a)
          PROVE  TypeInv'
      BY <2>5, StartWithdrawal
    <2>6. ASSUME NEW r \in Requests,
                 \/ ApplyCheck(r) \/ UpdateJobFlush(r)
                 \/ SelectActiveApplications(r) \/ Rollback(r)
          PROVE  TypeInv'
      BY <2>6, MoveOn
    <2>7. ASSUME NEW r \in Requests,
                 \/ \E a \in Apps : ApplyCommit(r, a) \/ PushCommit(r, a)
                 \/ WithdrawCommit(r) \/ Reviews(r) \/ DismissCommit(r)
          PROVE  TypeInv'
      BY <2>7, CommitRow
    <2>8. ASSUME NEW r \in Requests,
                 \/ ApproveJobCommit(r) \/ RejectJobCommit(r)
                 \/ CompanyDeleteCommit(r) \/ UpdateJobCommit(r)
          PROVE  TypeInv'
      BY <2>8, CommitJob
    <2>9. "PUBLISHED" \in JobStatuses
      BY DEF JobStatuses
    <2>10. QED
      BY <1>2, <2>1, <2>2, <2>3, <2>4, <2>5, <2>6, <2>7, <2>8, <2>9 DEF Next, Reviews
  <1>3. QED
    BY <1>1, <1>2

(* Every reachable state is well typed: no interleaving of the handlers    *)
(* writes a status outside its enumeration or a row without its pair.      *)
THEOREM TypeCorrect == Spec => []TypeOK
  <1>1. TypeInv => TypeOK
    BY DEF TypeInv
  <1>2. QED
    BY <1>1, InitTypeInv, NextTypeInv, PTL DEF Spec

-----------------------------------------------------------------------------
(* One live application per pair.  The index alone does not carry it: two  *)
(* withdrawn rows of one pair could both be closed by one cascade, were    *)
(* they both in its batch.  They are not, because a batch is selected from *)
(* rows that are live together.                                            *)

SamePair(a, b) == apps[a].job = apps[b].job /\ apps[a].cand = apps[b].cand

BatchesOfPairs ==
    \A r \in Requests : \A a, b \in req[r].batch : SamePair(a, b) => a = b

PairInv == TypeInv /\ OneLiveApplication /\ BatchesOfPairs

(* A row keeps its pair, and whether it was pushed, from its insertion on. *)
LEMMA RowsKeepTheirPair ==
  ASSUME TypeInv, [Next]_vars, NEW a \in Apps, apps[a].status # "ABSENT"
  PROVE  /\ apps'[a].job = apps[a].job
         /\ apps'[a].cand = apps[a].cand
         /\ apps'[a].pushed = apps[a].pushed
  <1>1. apps \in [Apps -> AppRow]
    BY DEF TypeInv, TypeOK
  <1>2. CASE Quiet
    BY <1>2 DEF Quiet
  <1>3. CASE Writes
    <2>1. ASSUME NEW b \in Apps, DeleteApplication(b)
          PROVE  /\ apps'[a].job = apps[a].job
                 /\ apps'[a].cand = apps[a].cand
                 /\ apps'[a].pushed = apps[a].pushed
      BY <1>1, <2>1 DEF DeleteApplication, AppRow
    <2>2. ASSUME NEW j, RemoveJob(j)
          PROVE  /\ apps'[a].job = apps[a].job
                 /\ apps'[a].cand = apps[a].cand
                 /\ apps'[a].pushed = apps[a].pushed
      BY <1>1, <2>2 DEF RemoveJob, AppRow
    <2>3. ASSUME NEW b \in Apps, NEW j, NEW c, NEW isPushed, InsertApp(b, j, c, isPushed)
          PROVE  /\ apps'[a].job = apps[a].job
                 /\ apps'[a].cand = apps[a].cand
                 /\ apps'[a].pushed = apps[a].pushed
      BY <1>1, <2>3 DEF InsertApp, AppRow
    <2>4. ASSUME NEW r \in Requests,
                 WithdrawCommit(r) \/ Reviews(r) \/ DismissCommit(r)
          PROVE  /\ apps'[a].job = apps[a].job
                 /\ apps'[a].cand = apps[a].cand
                 /\ apps'[a].pushed = apps[a].pushed
      <3>1. apps' = apps \/ \E b, s : apps' = [apps EXCEPT ![b].status = s]
        BY <2>4, ReviewWrites DEF WithdrawCommit, DismissCommit
      <3>2. QED
        BY <1>1, <3>1 DEF AppRow
    <2>5. ASSUME NEW r \in Requests, UpdateJobCommit(r)
          PROVE  /\ apps'[a].job = apps[a].job
                 /\ apps'[a].cand = apps[a].cand
                 /\ apps'[a].pushed = apps[a].pushed
      BY <1>1, <2>5 DEF UpdateJobCommit, AppRow
    <2>6. QED
      BY <1>3, <2>1, <2>2, <2>3, <2>4, <2>5
      DEF Writes, AdminDeleteJob, CompanyDeleteCommit, ApplyCommit, PushCommit
  <1>4. QED
    BY <1>2, <1>3, QuietOrWrites

(* A step leaves the batch of a request alone, clears it or selects it.    *)
LEMMA BatchSteps ==
  ASSUME TypeInv, [Next]_vars, NEW r \in Requests
  PROVE  \/ req'[r].batch \subseteq req[r].batch
         \/ SelectActiveApplications(r)
  <1>1. req \in [Requests -> Request] /\ Idle.batch = {}
    BY DEF TypeInv, TypeOK, Idle
  <1>2. ASSUME NEW s \in Requests, Finish(s)
        PROVE  req'[r].batch \subseteq req[r].batch
    BY <1>1, <1>2 DEF Finish
  <1>3. ASSUME NEW s \in Requests, ApplyCheck(s) \/ UpdateJobFlush(s)
        PROVE  req'[r].batch \subseteq req[r].batch
    BY <1>1, <1>3 DEF ApplyCheck, UpdateJobFlush, Request
  <1>4. ASSUME NEW s \in Requests, SelectActiveApplications(s), s # r
        PROVE  req'[r].batch \subseteq req[r].batch
    BY <1>1, <1>4 DEF SelectActiveApplications
  <1>5. ASSUME NEW s \in Requests, NEW request, request.batch = {}, Start(s, request)
        PROVE  req'[r].batch \subseteq req[r].batch
    BY <1>1, <1>5 DEF Start
  <1>6. CASE req' = req
    BY <1>6
  <1>7. CASE \E s \in Requests :
                \/ \E j \in Jobs, c \in Candidates :
                      ApplyReadJob(s, j, c) \/ PushRead(s, j, c) \/ DismissRead(s, j, c)
                \/ \E j \in Jobs :
                      \/ ApproveJobRead(s, j) \/ RejectJobRead(s, j)
                      \/ CompanyDeleteRead(s, j)
                \/ \E j \in Jobs, t \in JobStatuses : UpdateJobRead(s, j, t)
                \/ \E a \in Apps : WithdrawRead(s, a)
                \/ \E a \in Apps, t \in AdminStatuses : SetStatusRead(s, a, t)
                \/ \E a \in Apps, t \in CompanyStatuses : CompanyReviewRead(s, a, t)
    <2>1. PICK s \in Requests :
                \/ \E j \in Jobs, c \in Candidates :
                      ApplyReadJob(s, j, c) \/ PushRead(s, j, c) \/ DismissRead(s, j, c)
                \/ \E j \in Jobs :
                      \/ ApproveJobRead(s, j) \/ RejectJobRead(s, j)
                      \/ CompanyDeleteRead(s, j)
                \/ \E j \in Jobs, t \in JobStatuses : UpdateJobRead(s, j, t)
                \/ \E a \in Apps : WithdrawRead(s, a)
                \/ \E a \in Apps, t \in AdminStatuses : SetStatusRead(s, a, t)
                \/ \E a \in Apps, t \in CompanyStatuses : CompanyReviewRead(s, a, t)
      BY <1>7
    <2> DEFINE Begins == \E request : request.batch = {} /\ Start(s, request)
    <2>2. ASSUME NEW j \in Jobs, NEW c \in Candidates,
                 ApplyReadJob(s, j, c) \/ PushRead(s, j, c) \/ DismissRead(s, j, c)
          PROVE  Begins
      BY <2>2 DEF ApplyReadJob, PushRead, DismissRead, Idle
    <2>3. ASSUME NEW j \in Jobs,
                 ApproveJobRead(s, j) \/ RejectJobRead(s, j) \/ CompanyDeleteRead(s, j)
          PROVE  Begins
      BY <2>3 DEF ApproveJobRead, RejectJobRead, CompanyDeleteRead, ReadPendingJob, Idle
    <2>4. ASSUME NEW j \in Jobs, NEW t \in JobStatuses, UpdateJobRead(s, j, t)
          PROVE  Begins
      BY <2>4 DEF UpdateJobRead, Idle
    <2>5. ASSUME NEW a \in Apps,
                 \/ WithdrawRead(s, a)
                 \/ \E t \in AdminStatuses : SetStatusRead(s, a, t)
                 \/ \E t \in CompanyStatuses : CompanyReviewRead(s, a, t)
          PROVE  Begins
      BY <2>5 DEF WithdrawRead, SetStatusRead, CompanyReviewRead, Idle
    <2>6. QED
      BY <1>5, <2>1, <2>2, <2>3, <2>4, <2>5
  <1>8. CASE \E s \in Requests :
                \/ \E a \in Apps : ApplyCommit(s, a) \/ PushCommit(s, a)
                \/ WithdrawCommit(s) \/ Reviews(s) \/ DismissCommit(s)
                \/ ApproveJobCommit(s) \/ RejectJobCommit(s) \/ CompanyDeleteCommit(s)
                \/ UpdateJobCommit(s) \/ Rollback(s)
    BY <1>2, <1>8, ReviewWrites
    DEF ApplyCommit, PushCommit, WithdrawCommit, DismissCommit,
        ApproveJobCommit, RejectJobCommit, Decide, CompanyDeleteCommit, UpdateJobCommit,
        Rollback
  <1>9. CASE \/ \E j \in Jobs : CreateJob(j) \/ AdminDeleteJob(j)
             \/ \E j \in Jobs, s \in JobStatuses : AdminCreateJob(j, s)
             \/ \E a \in Apps : DeleteApplication(a)
             \/ UNCHANGED vars
    BY <1>6, <1>9 DEF CreateJob, AdminDeleteJob, AdminCreateJob, DeleteApplication, vars
  <1>10. QED
    BY <1>3, <1>4, <1>7, <1>8, <1>9 DEF Next, Reviews

(* One step never splits a pair between two live rows.                     *)
LEMMA NextOneLive ==
  ASSUME PairInv, [Next]_vars
  PROVE  OneLiveApplication'
  <1>1. apps \in [Apps -> AppRow]
    BY DEF PairInv, TypeInv, TypeOK
  <1>2. ASSUME \A a \in Apps : Live(apps'[a]) => /\ Live(apps[a])
                                                 /\ apps'[a].job = apps[a].job
                                                 /\ apps'[a].cand = apps[a].cand
        PROVE  OneLiveApplication'
    BY <1>2 DEF PairInv, OneLiveApplication, Live
  <1>3. CASE Quiet
    BY <1>2, <1>3 DEF Quiet
  <1>4. ASSUME NEW a \in Apps, DeleteApplication(a)
        PROVE  OneLiveApplication'
    BY <1>1, <1>2, <1>4 DEF DeleteApplication, Live, AppRow, Gone
  <1>5. ASSUME NEW j, RemoveJob(j)
        PROVE  OneLiveApplication'
    BY <1>1, <1>2, <1>5 DEF RemoveJob, Live, AppRow, Gone
  <1>6. ASSUME NEW a \in Apps, NEW j, NEW c, NEW isPushed, InsertApp(a, j, c, isPushed)
        PROVE  OneLiveApplication'
    BY <1>1, <1>6
    DEF InsertApp, IndexAdmits, LiveApps, PairInv, OneLiveApplication, Live, AppRow
  <1>7. ASSUME NEW r \in Requests, WithdrawCommit(r)
        PROVE  OneLiveApplication'
    BY <1>1, <1>2, <1>7 DEF WithdrawCommit, Live, AppRow, Gone
  <1>8. ASSUME NEW r \in Requests, Reviews(r)
        PROVE  OneLiveApplication'
    <2>1. CASE UNCHANGED apps
      BY <1>2, <2>1
    <2>2. CASE req[r].to = "WITHDRAWN"
      <3>1. apps' = apps \/ apps' = [apps EXCEPT ![req[r].app].status = "WITHDRAWN"]
        BY <1>8, <2>2, ReviewWrites
      <3>2. QED
        BY <1>1, <1>2, <3>1 DEF Live, AppRow, Gone
    <2>3. CASE ~ UNCHANGED apps /\ req[r].to # "WITHDRAWN"
      <3>1. req[r].app \in Apps
        BY <1>8, ReviewWrites DEF At, PairInv, TypeInv, RequestOK, OnApp
      <3>2. /\ apps' = [apps EXCEPT ![req[r].app].status = req[r].to]
            /\ IndexAdmits(req[r].app, apps[req[r].app].job, apps[req[r].app].cand)
        BY <1>8, <2>3, ReviewWrites DEF WriteStatus
      <3>3. QED
        BY <1>1, <3>1, <3>2
        DEF IndexAdmits, LiveApps, PairInv, OneLiveApplication, Live, AppRow
    <2>4. QED
      BY <2>1, <2>2, <2>3
  <1>9. ASSUME NEW r \in Requests, UpdateJobCommit(r)
        PROVE  OneLiveApplication'
    <2> DEFINE closed == {a \in req[r].batch : Exists(a)}
    <2>1. req[r].batch \subseteq Apps
      BY DEF PairInv, TypeInv, TypeOK, Request
    <2>2. \A a \in Apps : apps'[a] = IF a \in closed
                                     THEN [apps[a] EXCEPT !.status = "JOB_CLOSED"]
                                     ELSE apps[a]
      BY <1>9 DEF UpdateJobCommit
    <2>3. \A a \in closed : LiveApps(apps[a].job, apps[a].cand) \subseteq {a}
      BY <1>9 DEF UpdateJobCommit, IndexAdmits
    <2>4. \A a, b \in closed : SamePair(a, b) => a = b
      BY DEF PairInv, BatchesOfPairs
    <2>5. closed \subseteq Apps
      BY <2>1
    <2> HIDE DEF closed
    <2>6. SUFFICES ASSUME NEW a \in Apps, NEW b \in Apps,
                          Live(apps'[a]), Live(apps'[b]),
                          apps'[a].job = apps'[b].job, apps'[a].cand = apps'[b].cand
                   PROVE  a = b
      BY DEF OneLiveApplication, Live
    <2>7. SamePair(a, b)
      BY <1>1, <2>2, <2>6 DEF SamePair, AppRow
    <2>8. CASE a \in closed /\ b \in closed
      BY <2>4, <2>7, <2>8
    <2>9. CASE a \in closed /\ b \notin closed
      BY <2>2, <2>3, <2>6, <2>7, <2>9 DEF LiveApps, SamePair, Live
    <2>10. CASE a \notin closed /\ b \in closed
      BY <2>2, <2>3, <2>6, <2>7, <2>10 DEF LiveApps, SamePair, Live
    <2>11. CASE a \notin closed /\ b \notin closed
      BY <2>2, <2>6, <2>7, <2>11 DEF PairInv, OneLiveApplication, SamePair, Live
    <2>12. QED
      BY <2>8, <2>9, <2>10, <2>11
  <1>10. CASE Writes
    <2>1. ASSUME NEW r \in Requests, DismissCommit(r)
          PROVE  OneLiveApplication'
      BY <1>2, <2>1 DEF DismissCommit
    <2>2. QED
      BY <1>4, <1>5, <1>6, <1>7, <1>8, <1>9, <1>10, <2>1
      DEF Writes, AdminDeleteJob, CompanyDeleteCommit, ApplyCommit, PushCommit
  <1>11. QED
    BY <1>3, <1>10, QuietOrWrites

(* One step never puts two rows of a pair into one batch.                  *)
LEMMA NextBatchesOfPairs ==
  ASSUME PairInv, [Next]_vars
  PROVE  BatchesOfPairs'
  <1> SUFFICES ASSUME NEW r \in Requests, NEW a \in req'[r].batch, NEW b \in req'[r].batch,
                      SamePair(a, b)'
               PROVE  a = b
    BY DEF BatchesOfPairs
  <1>1. req \in [Requests -> Request] /\ apps \in [Apps -> AppRow] /\ TypeInv
    BY DEF PairInv, TypeInv, TypeOK
  <1>2. CASE req'[r].batch \subseteq req[r].batch
    <2>1. a \in req[r].batch /\ b \in req[r].batch /\ req[r].batch \subseteq Apps
      BY <1>1, <1>2 DEF Request
    <2>2. apps[a].status # "ABSENT" /\ apps[b].status # "ABSENT"
      BY <1>1, <2>1 DEF TypeInv, RequestOK
    <2>3. SamePair(a, b)
      BY <1>1, <2>1, <2>2, RowsKeepTheirPair DEF SamePair
    <2>4. QED
      BY <2>1, <2>3 DEF PairInv, BatchesOfPairs
  <1>3. CASE SelectActiveApplications(r)
    <2>1. /\ a \in Apps /\ apps[a].status \in ActiveStatuses
          /\ b \in Apps /\ apps[b].status \in ActiveStatuses
          /\ apps' = apps
      BY <1>1, <1>3 DEF SelectActiveApplications, Request
    <2>2. Live(apps[a]) /\ Live(apps[b])
      BY <2>1 DEF Live, ActiveStatuses, Gone
    <2>3. QED
      BY <2>1, <2>2 DEF PairInv, OneLiveApplication, SamePair
  <1>4. QED
    BY <1>1, <1>2, <1>3, BatchSteps

(* A candidate never has two applications to one job that are not          *)
(* withdrawn, for any number of handlers, candidates and rows.             *)
THEOREM OneLiveApplicationHolds == Spec => []OneLiveApplication
  <1>1. Init => PairInv
    <2> SUFFICES ASSUME Init PROVE PairInv
      OBVIOUS
    <2>1. OneLiveApplication
      BY DEF Init, OneLiveApplication, Live, Gone
    <2>2. BatchesOfPairs
      BY DEF Init, BatchesOfPairs, Idle
    <2>3. QED
      BY <2>1, <2>2, InitTypeInv DEF PairInv
  <1>2. PairInv /\ [Next]_vars => PairInv'
    BY NextTypeInv, NextOneLive, NextBatchesOfPairs DEF PairInv
  <1>3. PairInv => OneLiveApplication
    BY DEF PairInv
  <1>4. QED
    BY <1>1, <1>2, <1>3, PTL DEF Spec

-----------------------------------------------------------------------------
(* The audit trail: every writer of a status but the company's appends the *)
(* row that names it in the same transaction, the company's leaves one of  *)
(* two statuses, and a new row starts where its trail does.                *)

LEMMA NextTimeline ==
  ASSUME TypeInv, TimelineLacksOnlyCompanies, [Next]_vars
  PROVE  TimelineLacksOnlyCompanies'
  <1>1. apps \in [Apps -> AppRow] /\ trail \in [Apps -> AuditRow]
    BY DEF TypeInv, TypeOK
  <1>2. CASE Quiet
    BY <1>2 DEF Quiet, TimelineLacksOnlyCompanies, Exists
  <1>3. ASSUME NEW a \in Apps, DeleteApplication(a)
        PROVE  TimelineLacksOnlyCompanies'
    BY <1>1, <1>3 DEF DeleteApplication, TimelineLacksOnlyCompanies, Exists, AppRow, Gone
  <1>4. ASSUME NEW j, RemoveJob(j), UNCHANGED trail
        PROVE  TimelineLacksOnlyCompanies'
    BY <1>1, <1>4 DEF RemoveJob, TimelineLacksOnlyCompanies, Exists, AppRow, Gone
  <1>5. ASSUME NEW a \in Apps, NEW j, NEW c, NEW isPushed,
               InsertApp(a, j, c, isPushed), UNCHANGED trail
        PROVE  TimelineLacksOnlyCompanies'
    <2>1. trail[a] = Recorded("NEW")
      BY <1>5 DEF TypeInv, RowOK, InsertApp
    <2>2. QED
      BY <1>1, <1>5, <2>1 DEF InsertApp, TimelineLacksOnlyCompanies, Exists, Recorded
  <1>6. ASSUME NEW r \in Requests, WithdrawCommit(r)
        PROVE  TimelineLacksOnlyCompanies'
    BY <1>1, <1>6
    DEF WithdrawCommit, Audit, Recorded, TimelineLacksOnlyCompanies, Exists, AppRow
  <1>7. ASSUME NEW r \in Requests, Reviews(r)
        PROVE  TimelineLacksOnlyCompanies'
    <2>1. CASE SetStatusCommit(r)
      BY <1>1, <2>1
      DEF SetStatusCommit, WriteStatus, Audit, Recorded, TimelineLacksOnlyCompanies, Exists,
          AppRow
    <2>2. CASE CompanyReviewCommit(r)
      <3>1. req[r].to \in CompanyStatuses
        BY <2>2 DEF CompanyReviewCommit, At, TypeInv, RequestOK
      <3>2. QED
        BY <1>1, <2>2, <3>1
        DEF CompanyReviewCommit, WriteStatus, TimelineLacksOnlyCompanies, Exists, AppRow,
            AuditRow
    <2>3. QED
      BY <1>7, <2>1, <2>2 DEF Reviews
  <1>8. ASSUME NEW r \in Requests, DismissCommit(r)
        PROVE  TimelineLacksOnlyCompanies'
    BY <1>8 DEF DismissCommit, TimelineLacksOnlyCompanies, Exists
  <1>9. ASSUME NEW r \in Requests, UpdateJobCommit(r)
        PROVE  TimelineLacksOnlyCompanies'
    BY <1>1, <1>9
    DEF UpdateJobCommit, Recorded, TimelineLacksOnlyCompanies, Exists, AppRow
  <1>10. CASE Writes
    BY <1>3, <1>4, <1>5, <1>6, <1>7, <1>8, <1>9, <1>10
    DEF Writes, AdminDeleteJob, CompanyDeleteCommit, ApplyCommit, PushCommit
  <1>11. QED
    BY <1>2, <1>10, QuietOrWrites

(* The activity timeline lacks no change of status but those companies     *)
(* make, however many status changes, withdrawals, closings and company    *)
(* decisions overlap.                                                      *)
THEOREM TimelineHolds == Spec => []TimelineLacksOnlyCompanies
  <1>1. Init => TimelineLacksOnlyCompanies
    BY DEF Init, TimelineLacksOnlyCompanies, Exists, Gone
  <1>2. QED
    BY <1>1, InitTypeInv, NextTypeInv, NextTimeline, PTL DEF Spec

-----------------------------------------------------------------------------
(* Decisions: a pushed row and its pair's decision are committed together, *)
(* and only the deletion of the job, which takes the row along, undoes one.*)

(* A decision, once recorded, is only ever replaced by a decision.         *)
LEMMA DecisionTyped ==
  ASSUME TypeInv, NEW r \in Requests, NEW d \in {"PUSHED", "DISMISSED"},
         OnPair(r), RecordDecision(r, d)
  PROVE  /\ \A p \in Jobs \X Candidates : suggestions[p] # "NONE" => suggestions'[p] # "NONE"
         /\ suggestions'[<<req[r].job, req[r].cand>>] # "NONE"
  <1>1. /\ suggestions \in [Jobs \X Candidates -> {"NONE", "PUSHED", "DISMISSED"}]
        /\ <<req[r].job, req[r].cand>> \in Jobs \X Candidates
    BY DEF TypeInv, TypeOK, RequestOK
  <1>2. CASE req[r].seen = d
    BY <1>1, <1>2 DEF RecordDecision
  <1>3. CASE req[r].seen # d
    BY <1>1, <1>3 DEF RecordDecision
  <1>4. QED
    BY <1>2, <1>3

LEMMA NextDecided ==
  ASSUME TypeInv, TypeInv', PushedPairStaysDecided, [Next]_vars
  PROVE  PushedPairStaysDecided'
  <1>1. /\ apps \in [Apps -> AppRow]
        /\ \A a \in Apps : apps'[a].status # "ABSENT" =>
              <<apps'[a].job, apps'[a].cand>> \in Jobs \X Candidates
    BY DEF TypeInv, TypeOK, RowOK
  <1>2. \A a \in Apps : apps[a].status # "ABSENT" =>
              <<apps[a].job, apps[a].cand>> \in Jobs \X Candidates
    BY DEF TypeInv, RowOK
  <1>3. ASSUME NEW a \in Apps, Exists(a), Exists(a)', apps'[a].pushed,
               suggestions' = suggestions \/
                  \A p \in Jobs \X Candidates :
                     suggestions[p] # "NONE" => suggestions'[p] # "NONE"
        PROVE  suggestions'[<<apps'[a].job, apps'[a].cand>>] # "NONE"
    <2>1. /\ apps'[a].job = apps[a].job /\ apps'[a].cand = apps[a].cand
          /\ apps'[a].pushed = apps[a].pushed
      BY <1>3, RowsKeepTheirPair DEF Exists, Gone
    <2>2. suggestions[<<apps[a].job, apps[a].cand>>] # "NONE"
      BY <1>3, <2>1 DEF PushedPairStaysDecided
    <2>3. QED
      BY <1>1, <1>2, <1>3, <2>1, <2>2 DEF Exists, Gone
  <1>4. ASSUME \A a \in Apps : Exists(a)' /\ apps'[a].pushed => Exists(a),
               \/ suggestions' = suggestions
               \/ \A p \in Jobs \X Candidates :
                     suggestions[p] # "NONE" => suggestions'[p] # "NONE"
        PROVE  PushedPairStaysDecided'
    BY <1>3, <1>4 DEF PushedPairStaysDecided
  <1>5. CASE Quiet
    BY <1>4, <1>5 DEF Quiet, Exists
  <1>6. ASSUME NEW a \in Apps, DeleteApplication(a)
        PROVE  PushedPairStaysDecided'
    BY <1>1, <1>4, <1>6 DEF DeleteApplication, Exists, AppRow, Gone
  <1>7. ASSUME NEW j \in Jobs, RemoveJob(j)
        PROVE  PushedPairStaysDecided'
    <2> SUFFICES ASSUME NEW a \in Apps, Exists(a)', apps'[a].pushed
                 PROVE  suggestions'[<<apps'[a].job, apps'[a].cand>>] # "NONE"
      BY DEF PushedPairStaysDecided, Exists
    <2>1. apps'[a] = apps[a] /\ Exists(a) /\ apps[a].job # j
      BY <1>1, <1>7 DEF RemoveJob, Exists, AppRow, Gone
    <2>2. suggestions[<<apps[a].job, apps[a].cand>>] # "NONE"
      BY <2>1 DEF PushedPairStaysDecided
    <2>3. QED
      BY <1>2, <1>7, <2>1, <2>2 DEF RemoveJob, Exists, Gone
  <1>8. ASSUME NEW r \in Requests, NEW a \in Apps, ApplyCommit(r, a)
        PROVE  PushedPairStaysDecided'
    BY <1>1, <1>4, <1>8 DEF ApplyCommit, InsertApp, Exists
  <1>9. ASSUME NEW r \in Requests, NEW a \in Apps, PushCommit(r, a)
        PROVE  PushedPairStaysDecided'
    <2>1. OnPair(r) /\ RecordDecision(r, "PUSHED")
      BY <1>9 DEF PushCommit, At, OnPair
    <2>2. /\ \A p \in Jobs \X Candidates :
                suggestions[p] # "NONE" => suggestions'[p] # "NONE"
          /\ suggestions'[<<req[r].job, req[r].cand>>] # "NONE"
      BY <2>1, DecisionTyped
    <2>3. apps' = [apps EXCEPT ![a] = [job |-> req[r].job, cand |-> req[r].cand,
                                       status |-> "NEW", pushed |-> TRUE]]
      BY <1>9 DEF PushCommit, InsertApp
    <2> SUFFICES ASSUME NEW b \in Apps, Exists(b)', apps'[b].pushed
                 PROVE  suggestions'[<<apps'[b].job, apps'[b].cand>>] # "NONE"
      BY DEF PushedPairStaysDecided, Exists
    <2>4. CASE b = a
      BY <1>1, <2>2, <2>3, <2>4
    <2>5. CASE b # a
      BY <1>1, <1>3, <2>2, <2>3, <2>5 DEF Exists
    <2>6. QED
      BY <2>4, <2>5
  <1>10. ASSUME NEW r \in Requests, WithdrawCommit(r) \/ Reviews(r)
         PROVE  PushedPairStaysDecided'
    <2>1. \A a \in Apps : Exists(a)' => Exists(a)
      BY <1>1, <1>10, ReviewWrites DEF WithdrawCommit, WriteStatus, Exists, AppRow, Gone
    <2>2. QED
      BY <1>4, <1>10, <2>1, ReviewWrites DEF WithdrawCommit
  <1>11. ASSUME NEW r \in Requests, DismissCommit(r)
         PROVE  PushedPairStaysDecided'
    <2>1. OnPair(r) /\ RecordDecision(r, "DISMISSED") /\ apps' = apps
      BY <1>11 DEF DismissCommit, At, OnPair
    <2>2. \A p \in Jobs \X Candidates : suggestions[p] # "NONE" => suggestions'[p] # "NONE"
      BY <2>1, DecisionTyped
    <2>3. QED
      BY <1>4, <2>1, <2>2 DEF Exists
  <1>12. ASSUME NEW r \in Requests, UpdateJobCommit(r)
         PROVE  PushedPairStaysDecided'
    <2>1. \A a \in Apps : Exists(a)' => Exists(a)
      BY <1>1, <1>12 DEF UpdateJobCommit, Exists, AppRow, Gone
    <2>2. QED
      BY <1>4, <1>12, <2>1 DEF UpdateJobCommit
  <1>13. CASE Writes
    <2>1. ASSUME NEW r \in Requests, CompanyDeleteCommit(r)
          PROVE  PushedPairStaysDecided'
      BY <1>7, <2>1 DEF CompanyDeleteCommit, At, TypeInv, RequestOK, OnJob
    <2>2. QED
      BY <1>6, <1>7, <1>8, <1>9, <1>10, <1>11, <1>12, <1>13, <2>1 DEF Writes, AdminDeleteJob
  <1>14. QED
    BY <1>5, <1>13, QuietOrWrites

(* A pair an admin pushed keeps its decision as long as the pushed         *)
(* application exists: the match feed never offers it again.               *)
THEOREM PushedPairStays == Spec => []PushedPairStaysDecided
  <1>1. Init => PushedPairStaysDecided
    BY DEF Init, PushedPairStaysDecided, Exists, Gone
  <1>2. QED
    BY <1>1, InitTypeInv, NextTypeInv, NextDecided, PTL DEF Spec

-----------------------------------------------------------------------------
(* Closing a job.  The row lock the flushed UPDATE of a job takes admits   *)
(* one edit per job until it commits, and an edit's batch is made of rows  *)
(* of that job.                                                            *)

Holds(r) == req[r].step \in {"flushed", "selected"}

CarriesOK(r) ==
    /\ Holds(r) => req[r].op = "update_job"
    /\ req[r].op = "set_status" => req[r].to \in AdminStatuses
    /\ req[r].batch # {} => req[r].step = "selected"
    /\ \A a \in req[r].batch : apps[a].job = req[r].job

OneEditPerJob ==
    \A r, q \in Requests : Holds(r) /\ Holds(q) /\ req[r].job = req[q].job => r = q

EditInv ==
    /\ TypeInv
    /\ \A r \in Requests : CarriesOK(r)
    /\ OneEditPerJob

(* What a request that has just started carries.                           *)
Begun(request) ==
    /\ request.step = "read" /\ request.batch = {}
    /\ request.op = "set_status" => request.to \in AdminStatuses

(* Every request begins with nothing selected and nothing locked.          *)
LEMMA StartsBegun ==
  ASSUME NEW r \in Requests,
         \/ \E j \in Jobs, c \in Candidates :
               ApplyReadJob(r, j, c) \/ PushRead(r, j, c) \/ DismissRead(r, j, c)
         \/ \E j \in Jobs :
               ApproveJobRead(r, j) \/ RejectJobRead(r, j) \/ CompanyDeleteRead(r, j)
         \/ \E j \in Jobs, s \in JobStatuses : UpdateJobRead(r, j, s)
         \/ \E a \in Apps : WithdrawRead(r, a)
         \/ \E a \in Apps, s \in AdminStatuses : SetStatusRead(r, a, s)
         \/ \E a \in Apps, s \in CompanyStatuses : CompanyReviewRead(r, a, s)
  PROVE  \E request : Begun(request) /\ Start(r, request)
  <1>1. ASSUME NEW j \in Jobs, NEW c \in Candidates,
               ApplyReadJob(r, j, c) \/ PushRead(r, j, c) \/ DismissRead(r, j, c)
        PROVE  \E request : Begun(request) /\ Start(r, request)
    BY <1>1 DEF ApplyReadJob, PushRead, DismissRead, Idle, Begun
  <1>2. ASSUME NEW j \in Jobs,
               ApproveJobRead(r, j) \/ RejectJobRead(r, j) \/ CompanyDeleteRead(r, j)
        PROVE  \E request : Begun(request) /\ Start(r, request)
    BY <1>2
    DEF ApproveJobRead, RejectJobRead, CompanyDeleteRead, ReadPendingJob, Idle, Begun
  <1>3. ASSUME NEW j \in Jobs, NEW s \in JobStatuses, UpdateJobRead(r, j, s)
        PROVE  \E request : Begun(request) /\ Start(r, request)
    BY <1>3 DEF UpdateJobRead, Idle, Begun
  <1>4. ASSUME NEW a \in Apps,
               \/ WithdrawRead(r, a)
               \/ \E s \in AdminStatuses : SetStatusRead(r, a, s)
               \/ \E s \in CompanyStatuses : CompanyReviewRead(r, a, s)
        PROVE  \E request : Begun(request) /\ Start(r, request)
    BY <1>4 DEF WithdrawRead, SetStatusRead, CompanyReviewRead, Idle, Begun
  <1>5. QED
    BY <1>1, <1>2, <1>3, <1>4

(* What one step does to one request.                                      *)
LEMMA RequestSteps ==
  ASSUME TypeInv, [Next]_vars, NEW r \in Requests
  PROVE  \/ req'[r] = req[r]
         \/ req'[r] = Idle
         \/ Begun(req'[r])
         \/ ApplyCheck(r) /\ req'[r] = [req[r] EXCEPT !.step = "checked"]
         \/ UpdateJobFlush(r)
         \/ SelectActiveApplications(r)
  <1>1. req \in [Requests -> Request]
    BY DEF TypeInv, TypeOK
  <1>2. CASE req' = req
    BY <1>2
  <1>3. CASE \E q \in Requests : Finish(q)
    BY <1>1, <1>3 DEF Finish
  <1>4. CASE \E q \in Requests : \E request : Begun(request) /\ Start(q, request)
    BY <1>1, <1>4 DEF Start
  <1>5. CASE \E q \in Requests :
                ApplyCheck(q) \/ UpdateJobFlush(q) \/ SelectActiveApplications(q)
    <2>1. ASSUME NEW q \in Requests, q # r,
                 ApplyCheck(q) \/ UpdateJobFlush(q) \/ SelectActiveApplications(q)
          PROVE  req'[r] = req[r]
      BY <1>1, <2>1 DEF ApplyCheck, UpdateJobFlush, SelectActiveApplications
    <2>2. ASSUME ApplyCheck(r)
          PROVE  req'[r] = Idle \/ req'[r] = [req[r] EXCEPT !.step = "checked"]
      BY <1>1, <2>2 DEF ApplyCheck
    <2>3. QED
      BY <1>5, <2>1, <2>2
  <1>6. CASE \E j \in Jobs : CreateJob(j) \/ AdminDeleteJob(j)
                             \/ \E s \in JobStatuses : AdminCreateJob(j, s)
    BY <1>2, <1>6 DEF CreateJob, AdminDeleteJob, AdminCreateJob
  <1>7. CASE (\E a \in Apps : DeleteApplication(a)) \/ UNCHANGED vars
    BY <1>2, <1>7 DEF DeleteApplication, vars
  <1>8. CASE \E q \in Requests :
                \/ \E a \in Apps : ApplyCommit(q, a) \/ PushCommit(q, a)
                \/ WithdrawCommit(q) \/ Reviews(q) \/ DismissCommit(q)
                \/ ApproveJobCommit(q) \/ RejectJobCommit(q) \/ CompanyDeleteCommit(q)
                \/ UpdateJobCommit(q) \/ Rollback(q)
    BY <1>3, <1>8, ReviewWrites
    DEF ApplyCommit, PushCommit, WithdrawCommit, DismissCommit,
        ApproveJobCommit, RejectJobCommit, Decide, CompanyDeleteCommit, UpdateJobCommit,
        Rollback
  <1>9. CASE \E q \in Requests :
                \/ \E j \in Jobs, c \in Candidates :
                      ApplyReadJob(q, j, c) \/ PushRead(q, j, c) \/ DismissRead(q, j, c)
                \/ \E j \in Jobs :
                      ApproveJobRead(q, j) \/ RejectJobRead(q, j) \/ CompanyDeleteRead(q, j)
                \/ \E j \in Jobs, s \in JobStatuses : UpdateJobRead(q, j, s)
                \/ \E a \in Apps : WithdrawRead(q, a)
                \/ \E a \in Apps, s \in AdminStatuses : SetStatusRead(q, a, s)
                \/ \E a \in Apps, s \in CompanyStatuses : CompanyReviewRead(q, a, s)
    BY <1>4, <1>9, StartsBegun
  <1>10. QED
    BY <1>5, <1>6, <1>7, <1>8, <1>9 DEF Next, Reviews

(* A flush changes the step of its request, and nothing else of it.        *)
LEMMA FlushedRequest ==
  ASSUME TypeInv, NEW r \in Requests, UpdateJobFlush(r)
  PROVE  /\ req'[r].step = IF IsClosing(r) THEN "flushed" ELSE "selected"
         /\ req'[r].op = req[r].op /\ req'[r].job = req[r].job
         /\ req'[r].seen = req[r].seen /\ req'[r].to = req[r].to
         /\ req'[r].batch = req[r].batch
         /\ \A q \in Requests : q # r => req'[q] = req[q]
  <1>1. req \in [Requests -> Request]
    BY DEF TypeInv, TypeOK
  <1>2. req'[r] = [req[r] EXCEPT !.step = IF IsClosing(r) THEN "flushed" ELSE "selected"]
    BY <1>1 DEF UpdateJobFlush
  <1>3. \A q \in Requests : q # r => req'[q] = req[q]
    BY <1>1 DEF UpdateJobFlush
  <1>4. QED
    BY <1>1, <1>2, <1>3 DEF Request

(* A selection fills the batch with the job's active applications.         *)
LEMMA SelectedRequest ==
  ASSUME TypeInv, NEW r \in Requests, SelectActiveApplications(r)
  PROVE  /\ req'[r].step = "selected"
         /\ req'[r].op = req[r].op /\ req'[r].job = req[r].job
         /\ req'[r].seen = req[r].seen /\ req'[r].to = req[r].to
         /\ req'[r].batch = {a \in Apps : /\ apps[a].job = req[r].job
                                          /\ apps[a].status \in ActiveStatuses}
         /\ \A q \in Requests : q # r => req'[q] = req[q]
  <1> DEFINE batch == {a \in Apps : /\ apps[a].job = req[r].job
                                    /\ apps[a].status \in ActiveStatuses}
  <1>1. req \in [Requests -> Request]
    BY DEF TypeInv, TypeOK
  <1>2. req'[r] = [req[r] EXCEPT !.step = "selected", !.batch = batch]
    BY <1>1 DEF SelectActiveApplications
  <1>3. \A q \in Requests : q # r => req'[q] = req[q]
    BY <1>1 DEF SelectActiveApplications
  <1> HIDE DEF batch
  <1>4. /\ req'[r].step = "selected" /\ req'[r].batch = batch
        /\ req'[r].op = req[r].op /\ req'[r].job = req[r].job
        /\ req'[r].seen = req[r].seen /\ req'[r].to = req[r].to
    BY <1>1, <1>2 DEF Request
  <1>5. QED
    BY <1>3, <1>4 DEF batch

(* Rows of a batch keep their job, so it stays the job of the edit.        *)
LEMMA NextCarries ==
  ASSUME EditInv, [Next]_vars, NEW r \in Requests
  PROVE  CarriesOK(r)'
  <1>1. /\ TypeInv /\ req \in [Requests -> Request] /\ req[r].batch \subseteq Apps
        /\ CarriesOK(r)
    BY DEF EditInv, TypeInv, TypeOK, Request
  <1>2. \A a \in req[r].batch : apps'[a].job = req[r].job
    BY <1>1, RowsKeepTheirPair DEF TypeInv, RequestOK, CarriesOK
  <1>3. CASE req'[r] = req[r]
    BY <1>1, <1>2, <1>3 DEF CarriesOK, Holds
  <1>4. CASE req'[r] = Idle
    BY <1>4, ConstantsAssumption DEF CarriesOK, Holds, Idle, Ops
  <1>5. CASE Begun(req'[r])
    BY <1>5 DEF Begun, CarriesOK, Holds
  <1>6. CASE ApplyCheck(r) /\ req'[r] = [req[r] EXCEPT !.step = "checked"]
    <2>1. /\ req'[r].step = "checked" /\ req'[r].op = "apply" /\ req'[r].batch = {}
      BY <1>1, <1>6 DEF ApplyCheck, At, Request, CarriesOK
    <2>2. QED
      BY <2>1 DEF CarriesOK, Holds
  <1>7. CASE UpdateJobFlush(r)
    <2>1. req[r].op = "update_job" /\ req[r].batch = {}
      BY <1>1, <1>7 DEF UpdateJobFlush, At, CarriesOK
    <2>2. QED
      BY <1>1, <1>7, <2>1, FlushedRequest DEF CarriesOK, Holds
  <1>8. CASE SelectActiveApplications(r)
    <2>1. req[r].op = "update_job" /\ apps' = apps
      BY <1>8 DEF SelectActiveApplications, At
    <2>2. QED
      BY <1>1, <1>8, <2>1, SelectedRequest DEF CarriesOK, Holds
  <1>9. QED
    BY <1>1, <1>3, <1>4, <1>5, <1>6, <1>7, <1>8, RequestSteps

(* The lock of a job is taken by an edit only when no other edit holds it. *)
LEMMA NextOneEdit ==
  ASSUME EditInv, [Next]_vars
  PROVE  OneEditPerJob'
  <1>1. TypeInv /\ req \in [Requests -> Request] /\ OneEditPerJob
    BY DEF EditInv, TypeInv, TypeOK
  <1>2. ASSUME NEW r \in Requests, Holds(r)'
        PROVE  \/ req'[r].job = req[r].job /\ Holds(r)
               \/ req'[r].job = req[r].job /\ UpdateJobFlush(r)
    <2>1. req'[r] # Idle /\ ~Begun(req'[r])
      BY <1>2 DEF Holds, Idle, Begun
    <2>2. CASE req'[r] = req[r]
      BY <1>2, <2>2 DEF Holds
    <2>3. CASE req'[r] = [req[r] EXCEPT !.step = "checked"]
      BY <1>1, <1>2, <2>3 DEF Holds, Request
    <2>4. CASE UpdateJobFlush(r)
      BY <1>1, <2>4, FlushedRequest
    <2>5. CASE SelectActiveApplications(r)
      BY <1>1, <2>5, SelectedRequest DEF SelectActiveApplications, At, Holds
    <2>6. QED
      BY <1>1, <2>1, <2>2, <2>3, <2>4, <2>5, RequestSteps
  <1>3. ASSUME NEW r \in Requests, NEW q \in Requests, UpdateJobFlush(r), Holds(q)', q # r
        PROVE  req'[r].job # req'[q].job
    <2>1. req'[q] = req[q] /\ req'[r].job = req[r].job
      BY <1>1, <1>3, FlushedRequest
    <2>2. QED
      BY <1>3, <2>1 DEF UpdateJobFlush, Locked, Holds
  <1>4. QED
    BY <1>1, <1>2, <1>3 DEF OneEditPerJob

LEMMA EditInvariant == Spec => []EditInv
  <1>1. Init => EditInv
    <2> SUFFICES ASSUME Init PROVE EditInv
      OBVIOUS
    <2>1. \A r \in Requests : CarriesOK(r) /\ ~Holds(r)
      BY ConstantsAssumption DEF Init, CarriesOK, Holds, Idle, Ops
    <2>2. QED
      BY <2>1, InitTypeInv DEF EditInv, OneEditPerJob
  <1>2. EditInv /\ [Next]_vars => EditInv'
    BY NextTypeInv, NextCarries, NextOneEdit DEF EditInv
  <1>3. QED
    BY <1>1, <1>2, PTL DEF Spec

-----------------------------------------------------------------------------
(* Candidates are told once: with no admin closing an application by hand, *)
(* a batch never meets a row that is already closed.                       *)

BatchesOpen ==
    \A r \in Requests : \A a \in req[r].batch : apps[a].status # "JOB_CLOSED"

(* Only the commit of a closing writes JOB_CLOSED, over rows of its batch. *)
LEMMA OnlyClosingCloses ==
  ASSUME EditInv, "JOB_CLOSED" \notin AdminStatuses, [Next]_vars,
         NEW a \in Apps, apps[a].status # "JOB_CLOSED", apps'[a].status = "JOB_CLOSED"
  PROVE  \E q \in Requests : UpdateJobCommit(q) /\ a \in req[q].batch
  <1>1. apps \in [Apps -> AppRow] /\ apps'[a] # apps[a] /\ TypeInv
    BY DEF EditInv, TypeInv, TypeOK
  <1>2. Writes
    BY <1>1, QuietOrWrites DEF Quiet
  <1>3. ASSUME NEW b \in Apps, DeleteApplication(b)
        PROVE  FALSE
    BY <1>1, <1>3 DEF DeleteApplication, AppRow
  <1>4. ASSUME NEW j, RemoveJob(j)
        PROVE  FALSE
    BY <1>1, <1>4 DEF RemoveJob, AppRow
  <1>5. ASSUME NEW b \in Apps, NEW j, NEW c, NEW isPushed, InsertApp(b, j, c, isPushed)
        PROVE  FALSE
    BY <1>1, <1>5 DEF InsertApp
  <1>6. ASSUME NEW r \in Requests, WithdrawCommit(r) \/ DismissCommit(r)
        PROVE  FALSE
    BY <1>1, <1>6 DEF WithdrawCommit, DismissCommit, AppRow
  <1>7. ASSUME NEW r \in Requests, Reviews(r)
        PROVE  FALSE
    <2>1. req[r].to # "JOB_CLOSED"
      BY <1>7, ReviewWrites DEF At, EditInv, CarriesOK, TypeInv, RequestOK, CompanyStatuses
    <2>2. QED
      BY <1>1, <1>7, <2>1, ReviewWrites DEF AppRow
  <1>8. ASSUME NEW r \in Requests, UpdateJobCommit(r)
        PROVE  a \in req[r].batch
    BY <1>1, <1>8 DEF UpdateJobCommit
  <1>9. QED
    BY <1>2, <1>3, <1>4, <1>5, <1>6, <1>7, <1>8
    DEF Writes, AdminDeleteJob, CompanyDeleteCommit, ApplyCommit, PushCommit

LEMMA NextBatchesOpen ==
  ASSUME EditInv, BatchesOpen, "JOB_CLOSED" \notin AdminStatuses, [Next]_vars
  PROVE  BatchesOpen'
  <1> SUFFICES ASSUME NEW r \in Requests, NEW a \in req'[r].batch,
                      apps'[a].status = "JOB_CLOSED"
               PROVE  FALSE
    BY DEF BatchesOpen
  <1>1. TypeInv /\ req \in [Requests -> Request] /\ CarriesOK(r)
    BY DEF EditInv, TypeInv, TypeOK
  <1>2. CASE SelectActiveApplications(r)
    <2>1. apps' = apps
      BY <1>2 DEF SelectActiveApplications
    <2>2. QED
      BY <1>1, <1>2, <2>1, SelectedRequest DEF ActiveStatuses
  <1>3. CASE ~SelectActiveApplications(r)
    <2>1. a \in req[r].batch /\ a \in Apps
      BY <1>1, <1>3, BatchSteps DEF Request
    <2>2. PICK q \in Requests : UpdateJobCommit(q) /\ a \in req[q].batch
      BY <2>1, OnlyClosingCloses DEF BatchesOpen
    <2>3. Holds(r) /\ Holds(q) /\ req[r].job = req[q].job
      BY <1>1, <2>1, <2>2 DEF EditInv, CarriesOK, Holds
    <2>4. q = r
      BY <2>3 DEF EditInv, OneEditPerJob
    <2>5. req'[r] = Idle
      BY <1>1, <2>2, <2>4 DEF UpdateJobCommit, Finish
    <2>6. QED
      BY <2>5 DEF Idle
  <1>4. QED
    BY <1>2, <1>3

(* Two closings of a job never tell a candidate twice: a cascade meets no  *)
(* application that is already JOB_CLOSED, if no admin sets that by hand.  *)
THEOREM CascadesTellOnce ==
  ASSUME "JOB_CLOSED" \notin AdminStatuses
  PROVE  Spec => CascadeTellsOnce
  <1>1. Init => BatchesOpen
    BY DEF Init, BatchesOpen, Idle
  <1>2. EditInv /\ BatchesOpen /\ [Next]_vars => BatchesOpen'
    BY NextBatchesOpen
  <1>3. BatchesOpen => [\A r \in Requests : UpdateJobCommit(r) =>
                           \A a \in req[r].batch : apps[a].status # "JOB_CLOSED"]_vars
    BY DEF BatchesOpen
  <1>4. QED
    BY <1>1, <1>2, <1>3, EditInvariant, PTL DEF Spec, CascadeTellsOnce

-----------------------------------------------------------------------------
(* One request at a time.  What a request read before it commits is still  *)
(* true when it does, but for the rows and jobs deleted meanwhile, so each *)
(* commit is one step of the life cycle.                                   *)

OneRequest == \A r, q \in Requests : r = q

(* The batch of an edit that closes its job is what is active there, but   *)
(* for rows deleted since, and the batch of any other edit is empty.       *)
BatchMatches(r) ==
    IF IsClosing(r)
    THEN {a \in req[r].batch : Exists(a)}
            = {a \in Apps : apps[a].job = req[r].job /\ apps[a].status \in ActiveStatuses}
    ELSE req[r].batch = {}

(* What a request in flight read still holds, or its row or job is gone.   *)
ReadsHold(r) ==
    /\ req[r].op = "apply" => jobs[req[r].job] \in {"PUBLISHED", "DELETED"}
    /\ req[r].op = "withdraw" => apps[req[r].app].status \in {"NEW", "DELETED"}
    /\ req[r].op = "set_status" =>
          /\ req[r].seen # "WITHDRAWN"
          /\ apps[req[r].app].status \in {req[r].seen, "DELETED"}
    /\ req[r].op = "company_review" => apps[req[r].app].status \in {req[r].seen, "DELETED"}
    /\ req[r].op \in {"approve_job", "reject_job", "company_delete_job"} =>
          jobs[req[r].job] \in {"PENDING_APPROVAL", "DELETED"}
    /\ req[r].op = "update_job" =>
          /\ req[r].seen \in JobStatuses
          /\ jobs[req[r].job] \in {req[r].seen, "DELETED"}
    /\ Holds(r) => jobs[req[r].job] = req[r].seen
    /\ req[r].step = "flushed" => IsClosing(r)
    /\ req[r].step = "selected" => BatchMatches(r)

(* A row that was never inserted has no job.                               *)
BlankRows == \A a \in Apps : apps[a].status = "ABSENT" => apps[a].job = None

ReadInv ==
    /\ EditInv
    /\ \A r \in Requests : ReadsHold(r)
    /\ BlankRows

LEMMA NextBlankRows ==
  ASSUME TypeInv, BlankRows, [Next]_vars
  PROVE  BlankRows'
  <1> SUFFICES ASSUME NEW a \in Apps, apps'[a].status = "ABSENT"
               PROVE  apps'[a].job = None
    BY DEF BlankRows
  <1>1. apps \in [Apps -> AppRow]
    BY DEF TypeInv, TypeOK
  <1>2. CASE apps'[a] = apps[a]
    BY <1>2 DEF BlankRows
  <1>3. CASE apps'[a] # apps[a]
    <2>1. Writes
      BY <1>3, QuietOrWrites DEF Quiet
    <2>2. ASSUME NEW b \in Apps, DeleteApplication(b)
          PROVE  FALSE
      BY <1>1, <1>3, <2>2 DEF DeleteApplication, AppRow
    <2>3. ASSUME NEW j, RemoveJob(j)
          PROVE  FALSE
      BY <1>1, <1>3, <2>3 DEF RemoveJob, AppRow
    <2>4. ASSUME NEW b \in Apps, NEW j, NEW c, NEW isPushed, InsertApp(b, j, c, isPushed)
          PROVE  FALSE
      BY <1>1, <1>3, <2>4 DEF InsertApp
    <2>5. ASSUME NEW r \in Requests, WithdrawCommit(r) \/ DismissCommit(r)
          PROVE  FALSE
      BY <1>1, <1>3, <2>5 DEF WithdrawCommit, DismissCommit, AppRow
    <2>6. ASSUME NEW r \in Requests, Reviews(r)
          PROVE  FALSE
      <3>1. req[r].to # "ABSENT"
        BY <2>6, ReviewWrites DEF At, OnApp, TypeInv, RequestOK, ApplicationStatuses
      <3>2. apps' = apps \/ apps' = [apps EXCEPT ![req[r].app].status = req[r].to]
        BY <2>6, ReviewWrites
      <3>3. QED
        BY <1>1, <1>3, <3>1, <3>2 DEF AppRow
    <2>7. ASSUME NEW r \in Requests, UpdateJobCommit(r)
          PROVE  FALSE
      BY <1>1, <1>3, <2>7 DEF UpdateJobCommit, AppRow
    <2>8. QED
      BY <2>1, <2>2, <2>3, <2>4, <2>5, <2>6, <2>7
      DEF Writes, AdminDeleteJob, CompanyDeleteCommit, ApplyCommit, PushCommit
  <1>4. QED
    BY <1>2, <1>3

(* A request that starts read what is there.                               *)
LEMMA StartReads ==
  ASSUME TypeInv, NEW r \in Requests,
         \/ \E j \in Jobs, c \in Candidates :
               ApplyReadJob(r, j, c) \/ PushRead(r, j, c) \/ DismissRead(r, j, c)
         \/ \E j \in Jobs :
               ApproveJobRead(r, j) \/ RejectJobRead(r, j) \/ CompanyDeleteRead(r, j)
         \/ \E j \in Jobs, s \in JobStatuses : UpdateJobRead(r, j, s)
         \/ \E a \in Apps : WithdrawRead(r, a)
         \/ \E a \in Apps, s \in AdminStatuses : SetStatusRead(r, a, s)
         \/ \E a \in Apps, s \in CompanyStatuses : CompanyReviewRead(r, a, s)
  PROVE  ReadsHold(r)'
  <1>1. req \in [Requests -> Request] /\ jobs \in [Jobs -> JobStatuses \cup Gone]
    BY DEF TypeInv, TypeOK
  <1>2. ASSUME NEW j \in Jobs, NEW c \in Candidates,
               ApplyReadJob(r, j, c) \/ PushRead(r, j, c) \/ DismissRead(r, j, c)
        PROVE  ReadsHold(r)'
    <2>1. UNCHANGED <<jobs, apps>>
      BY <1>2 DEF ApplyReadJob, PushRead, DismissRead
    <2>2. /\ req'[r].op = "apply" => jobs[j] = "PUBLISHED" /\ req'[r].job = j
          /\ req'[r].op \in {"apply", "push", "dismiss"} /\ req'[r].step = "read"
      BY <1>1, <1>2 DEF ApplyReadJob, PushRead, DismissRead, Start, Idle
    <2>3. QED
      BY <2>1, <2>2 DEF ReadsHold, Holds
  <1>3. ASSUME NEW j \in Jobs,
               ApproveJobRead(r, j) \/ RejectJobRead(r, j) \/ CompanyDeleteRead(r, j)
        PROVE  ReadsHold(r)'
    <2>1. UNCHANGED <<jobs, apps>> /\ jobs[j] = "PENDING_APPROVAL"
      BY <1>3 DEF ApproveJobRead, RejectJobRead, CompanyDeleteRead, ReadPendingJob
    <2>2. /\ req'[r].op \in {"approve_job", "reject_job", "company_delete_job"}
          /\ req'[r].step = "read" /\ req'[r].job = j
      BY <1>1, <1>3
      DEF ApproveJobRead, RejectJobRead, CompanyDeleteRead, ReadPendingJob, Start, Idle
    <2>3. QED
      BY <2>1, <2>2 DEF ReadsHold, Holds
  <1>4. ASSUME NEW j \in Jobs, NEW s \in JobStatuses, UpdateJobRead(r, j, s)
        PROVE  ReadsHold(r)'
    <2>1. UNCHANGED <<jobs, apps>> /\ jobs[j] \in JobStatuses
      BY <1>1, <1>4 DEF UpdateJobRead, JobExists
    <2>2. /\ req'[r].op = "update_job" /\ req'[r].step = "read"
          /\ req'[r].job = j /\ req'[r].seen = jobs[j]
      BY <1>1, <1>4 DEF UpdateJobRead, Start, Idle
    <2>3. QED
      BY <2>1, <2>2 DEF ReadsHold, Holds
  <1>5. ASSUME NEW a \in Apps, WithdrawRead(r, a)
        PROVE  ReadsHold(r)'
    <2>1. UNCHANGED <<jobs, apps>> /\ apps[a].status = "NEW"
      BY <1>5 DEF WithdrawRead
    <2>2. req'[r].op = "withdraw" /\ req'[r].step = "read" /\ req'[r].app = a
      BY <1>1, <1>5 DEF WithdrawRead, Start, Idle
    <2>3. QED
      BY <2>1, <2>2 DEF ReadsHold, Holds
  <1>6. ASSUME NEW a \in Apps, NEW s \in AdminStatuses, SetStatusRead(r, a, s)
        PROVE  ReadsHold(r)'
    <2>1. UNCHANGED <<jobs, apps>> /\ apps[a].status # "WITHDRAWN"
      BY <1>6 DEF SetStatusRead, Reviewable
    <2>2. /\ req'[r].op = "set_status" /\ req'[r].step = "read" /\ req'[r].app = a
          /\ req'[r].seen = apps[a].status
      BY <1>1, <1>6 DEF SetStatusRead, Start, Idle
    <2>3. QED
      BY <2>1, <2>2 DEF ReadsHold, Holds
  <1>7. ASSUME NEW a \in Apps, NEW s \in CompanyStatuses, CompanyReviewRead(r, a, s)
        PROVE  ReadsHold(r)'
    <2>1. UNCHANGED <<jobs, apps>>
      BY <1>7 DEF CompanyReviewRead
    <2>2. /\ req'[r].op = "company_review" /\ req'[r].step = "read" /\ req'[r].app = a
          /\ req'[r].seen = apps[a].status
      BY <1>1, <1>7 DEF CompanyReviewRead, Start, Idle
    <2>3. QED
      BY <2>1, <2>2 DEF ReadsHold, Holds
  <1>8. QED
    BY <1>2, <1>3, <1>4, <1>5, <1>6, <1>7

(* A request that moves on keeps what it read; an edit that selects finds  *)
(* everything that is active.                                              *)
LEMMA MoveOnReads ==
  ASSUME ReadInv, NEW r \in Requests,
         ApplyCheck(r) \/ UpdateJobFlush(r) \/ SelectActiveApplications(r)
  PROVE  ReadsHold(r)'
  <1>1. /\ TypeInv /\ req \in [Requests -> Request] /\ ReadsHold(r) /\ CarriesOK(r)
        /\ UNCHANGED <<jobs, apps>>
    BY DEF ReadInv, EditInv, TypeInv, TypeOK, ApplyCheck, UpdateJobFlush,
           SelectActiveApplications
  <1>2. CASE ApplyCheck(r)
    <2>1. CASE req'[r] = Idle
      BY <2>1, ConstantsAssumption DEF ReadsHold, Holds, Idle, Ops
    <2>2. CASE req'[r] = [req[r] EXCEPT !.step = "checked"]
      <3>1. req'[r].op = "apply" /\ req'[r].job = req[r].job /\ req'[r].step = "checked"
        BY <1>1, <1>2, <2>2 DEF ApplyCheck, At, Request
      <3>2. QED
        BY <1>1, <1>2, <3>1 DEF ReadsHold, Holds, ApplyCheck, At
    <2>3. QED
      BY <1>1, <1>2, <2>1, <2>2 DEF ApplyCheck
  <1>3. CASE UpdateJobFlush(r)
    <2>1. /\ req[r].op = "update_job" /\ req[r].batch = {} /\ jobs[req[r].job] = req[r].seen
      BY <1>1, <1>3 DEF UpdateJobFlush, At, CarriesOK, ReadsHold, JobExists, Gone
    <2>2. req'[r].step = "selected" => BatchMatches(r)'
      BY <1>1, <1>3, <2>1, FlushedRequest DEF BatchMatches, IsClosing
    <2>3. QED
      BY <1>1, <1>3, <2>1, <2>2, FlushedRequest DEF ReadsHold, Holds, IsClosing
  <1>4. CASE SelectActiveApplications(r)
    <2>1. req[r].op = "update_job" /\ Holds(r)
      BY <1>4 DEF SelectActiveApplications, At, Holds
    <2>2. IsClosing(r)
      BY <1>1, <1>4 DEF SelectActiveApplications, At, ReadsHold
    <2>3. BatchMatches(r)'
      BY <1>1, <1>4, <2>2, SelectedRequest
      DEF BatchMatches, IsClosing, Exists, ActiveStatuses, Gone
    <2>4. QED
      BY <1>1, <1>4, <2>1, <2>3, SelectedRequest DEF ReadsHold, Holds
  <1>5. QED
    BY <1>2, <1>3, <1>4

(* A row or a job that is deleted meanwhile: the request will find it gone.*)
LEMMA AloneReads ==
  ASSUME ReadInv, NEW r \in Requests,
         \/ \E j \in Jobs : CreateJob(j) \/ AdminDeleteJob(j)
         \/ \E j \in Jobs, s \in JobStatuses : AdminCreateJob(j, s)
         \/ \E a \in Apps : DeleteApplication(a)
  PROVE  ReadsHold(r)'
  <1>1. /\ TypeInv /\ jobs \in [Jobs -> JobStatuses \cup Gone] /\ apps \in [Apps -> AppRow]
        /\ req[r] \in Request /\ RequestOK(r) /\ ReadsHold(r) /\ CarriesOK(r)
    BY DEF ReadInv, EditInv, TypeInv, TypeOK
  <1>2. /\ OnPair(r) \/ OnJob(r) => req[r].job \in Jobs
        /\ OnApp(r) => req[r].app \in Apps
        /\ Holds(r) => req[r].op = "update_job"
    BY <1>1 DEF RequestOK, CarriesOK
  <1> USE DEF OnPair, OnJob, OnApp
  <1>3. ASSUME NEW j \in Jobs, NEW s \in JobStatuses, CreateJob(j) \/ AdminCreateJob(j, s)
        PROVE  ReadsHold(r)'
    <2>1. UNCHANGED <<apps, req>> /\ jobs[j] = "ABSENT" /\ \A i \in Jobs \ {j} : jobs'[i] = jobs[i]
      BY <1>1, <1>3 DEF CreateJob, AdminCreateJob
    <2>2. BatchMatches(r) <=> BatchMatches(r)'
      BY <2>1 DEF BatchMatches, IsClosing, Exists
    <2>3. req[r].op = "update_job" => jobs[req[r].job] # "ABSENT"
      BY <1>1 DEF ReadsHold, JobStatuses
    <2>4. QED
      BY <1>1, <1>2, <2>1, <2>2, <2>3 DEF ReadsHold, Holds, IsClosing
  <1>4. ASSUME NEW j \in Jobs, AdminDeleteJob(j)
        PROVE  ReadsHold(r)'
    <2>1. /\ req' = req
          /\ jobs'[j] = "DELETED" /\ \A i \in Jobs \ {j} : jobs'[i] = jobs[i]
          /\ \A a \in Apps : \/ apps'[a] = apps[a] /\ (Exists(a) => apps[a].job # j)
                             \/ /\ apps'[a].status = "DELETED" /\ apps'[a].job = apps[a].job
                                /\ apps[a].job = j
          /\ ~Locked(j)
      BY <1>1, <1>4 DEF AdminDeleteJob, RemoveJob, AppRow
    <2>2. Holds(r) => req[r].job # j
      BY <2>1 DEF Locked, Holds
    <2>3. ASSUME Holds(r), BatchMatches(r)
          PROVE  BatchMatches(r)'
      <3>1. req[r].batch \subseteq Apps /\ \A a \in req[r].batch : apps[a].job # j
        BY <1>1, <2>2, <2>3 DEF Request, CarriesOK
      <3>2. \A a \in Apps : apps[a].job = req[r].job => apps'[a] = apps[a]
        BY <2>1, <2>2, <2>3
      <3>3. \A a \in req[r].batch : apps'[a] = apps[a]
        BY <2>1, <3>1
      <3>4. \A a \in Apps : apps'[a].job = apps[a].job
        BY <2>1
      <3>5. QED
        BY <2>1, <2>3, <3>1, <3>2, <3>3, <3>4 DEF BatchMatches, IsClosing, Exists
    <2>4. QED
      BY <1>1, <1>2, <2>1, <2>2, <2>3 DEF ReadsHold, Holds, IsClosing
  <1>5. ASSUME NEW a \in Apps, DeleteApplication(a)
        PROVE  ReadsHold(r)'
    <2>1. /\ req' = req /\ jobs' = jobs
          /\ apps'[a].status = "DELETED" /\ apps'[a].job = apps[a].job
          /\ \A b \in Apps \ {a} : apps'[b] = apps[b]
      BY <1>1, <1>5 DEF DeleteApplication, AppRow
    <2>2. ASSUME BatchMatches(r)
          PROVE  BatchMatches(r)'
      <3>1. req[r].batch \subseteq Apps
        BY <1>1 DEF Request
      <3>2. "DELETED" \notin ActiveStatuses /\ "DELETED" \in Gone
        BY DEF ActiveStatuses, Gone
      <3>3. QED
        BY <2>1, <2>2, <3>1, <3>2 DEF BatchMatches, IsClosing, Exists
    <2>3. QED
      BY <1>1, <1>2, <2>1, <2>2 DEF ReadsHold, Holds, IsClosing
  <1>6. "PUBLISHED" \in JobStatuses
    BY DEF JobStatuses
  <1>7. QED
    BY <1>3, <1>4, <1>5, <1>6

(* With one request at a time, what it read holds until it commits.        *)
LEMMA NextReads ==
  ASSUME OneRequest, ReadInv, [Next]_vars, NEW r \in Requests
  PROVE  ReadsHold(r)'
  <1>1. TypeInv /\ req \in [Requests -> Request] /\ ReadsHold(r)
    BY DEF ReadInv, EditInv, TypeInv, TypeOK
  <1>2. ASSUME NEW q \in Requests, Finish(q)
        PROVE  ReadsHold(r)'
    <2>1. req'[r] = Idle
      BY <1>1, <1>2 DEF OneRequest, Finish
    <2>2. QED
      BY <2>1, ConstantsAssumption DEF ReadsHold, Holds, Idle, Ops
  <1>3. CASE \E q \in Requests :
                \/ \E a \in Apps : ApplyCommit(q, a) \/ PushCommit(q, a)
                \/ WithdrawCommit(q) \/ Reviews(q) \/ DismissCommit(q)
                \/ ApproveJobCommit(q) \/ RejectJobCommit(q) \/ CompanyDeleteCommit(q)
                \/ UpdateJobCommit(q) \/ Rollback(q)
    BY <1>2, <1>3, ReviewWrites
    DEF ApplyCommit, PushCommit, WithdrawCommit, DismissCommit,
        ApproveJobCommit, RejectJobCommit, Decide, CompanyDeleteCommit, UpdateJobCommit,
        Rollback
  <1>4. CASE \E q \in Requests :
                \/ \E j \in Jobs, c \in Candidates :
                      ApplyReadJob(q, j, c) \/ PushRead(q, j, c) \/ DismissRead(q, j, c)
                \/ \E j \in Jobs :
                      ApproveJobRead(q, j) \/ RejectJobRead(q, j) \/ CompanyDeleteRead(q, j)
                \/ \E j \in Jobs, s \in JobStatuses : UpdateJobRead(q, j, s)
                \/ \E a \in Apps : WithdrawRead(q, a)
                \/ \E a \in Apps, s \in AdminStatuses : SetStatusRead(q, a, s)
                \/ \E a \in Apps, s \in CompanyStatuses : CompanyReviewRead(q, a, s)
    BY <1>1, <1>4, StartReads DEF OneRequest
  <1>5. CASE \E q \in Requests :
                ApplyCheck(q) \/ UpdateJobFlush(q) \/ SelectActiveApplications(q)
    BY <1>5, MoveOnReads DEF OneRequest
  <1>6. CASE \/ \E j \in Jobs : CreateJob(j) \/ AdminDeleteJob(j)
             \/ \E j \in Jobs, s \in JobStatuses : AdminCreateJob(j, s)
             \/ \E a \in Apps : DeleteApplication(a)
    BY <1>6, AloneReads
  <1>7. CASE UNCHANGED vars
    BY <1>1, <1>7 DEF vars, ReadsHold, Holds, BatchMatches, IsClosing, Exists
  <1>8. QED
    BY <1>3, <1>4, <1>5, <1>6, <1>7 DEF Next, Reviews

LEMMA ReadInvariant ==
  ASSUME OneRequest
  PROVE  Spec => []ReadInv
  <1>1. Init => (\A r \in Requests : ReadsHold(r)) /\ BlankRows
    BY ConstantsAssumption DEF Init, ReadsHold, BlankRows, Holds, Idle, Ops
  <1>2. EditInv /\ EditInv' /\ ReadInv /\ [Next]_vars => ReadInv'
    BY NextReads, NextBlankRows DEF ReadInv, EditInv
  <1>3. EditInv /\ (\A r \in Requests : ReadsHold(r)) /\ BlankRows => ReadInv
    BY DEF ReadInv
  <1>4. QED
    BY <1>1, <1>2, <1>3, EditInvariant, PTL DEF Spec

-----------------------------------------------------------------------------
(* The promise, action by action.                                          *)

Promised == Lifecycle!Next \/ UNCHANGED <<jobs, apps>>

(* An insertion is a Submit: while the pair has no live row, the index     *)
(* admits the row exactly when the promise does.                           *)
LEMMA InsertPromised ==
  ASSUME ReadInv, NEW a \in Apps, NEW j \in Jobs, NEW c \in Candidates,
         NEW isPushed \in BOOLEAN, InsertApp(a, j, c, isPushed), UNCHANGED jobs,
         ~isPushed => jobs[j] = "PUBLISHED"
  PROVE  Lifecycle!Next
  <1>1. apps[a].status = "ABSENT" /\ jobs[j] \notin {"ABSENT", "DELETED"}
    BY DEF InsertApp, JobExists, Gone
  <1>2. ASSUME NEW b \in Apps, apps[b].job = j, apps[b].cand = c
        PROVE  apps[b].status \in {"WITHDRAWN", "DELETED"}
    <2>1. b \notin LiveApps(j, c)
      BY <1>1 DEF InsertApp, IndexAdmits, LiveApps, Live, Gone
    <2>2. apps[b].status # "ABSENT"
      BY <1>2, ConstantsAssumption DEF ReadInv, BlankRows
    <2>3. QED
      BY <1>2, <2>1, <2>2 DEF LiveApps, Live, Gone
  <1>3. Lifecycle!Submit(a, j, c, isPushed)
    <2>1. IF isPushed THEN jobs[j] \notin Lifecycle!Gone ELSE jobs[j] = "PUBLISHED"
      BY <1>1 DEF Lifecycle!Gone
    <2>2. apps' = [apps EXCEPT ![a] = [job |-> j, cand |-> c, status |-> "NEW",
                                       pushed |-> isPushed]]
      BY DEF InsertApp
    <2>3. QED
      BY <1>1, <1>2, <2>1, <2>2 DEF Lifecycle!Submit
  <1>4. QED
    BY <1>3 DEF Lifecycle!Next

(* The steps that write one application.                                   *)
LEMMA RowPromised ==
  ASSUME ReadInv, NEW r \in Requests,
         \/ \E a \in Apps : ApplyCommit(r, a) \/ PushCommit(r, a)
         \/ WithdrawCommit(r) \/ Reviews(r)
  PROVE  Promised
  <1>1. TypeInv /\ apps \in [Apps -> AppRow] /\ ReadsHold(r) /\ CarriesOK(r) /\ RequestOK(r)
    BY DEF ReadInv, EditInv, TypeInv, TypeOK
  <1> USE DEF OnPair, OnApp
  <1>2. ASSUME NEW a \in Apps, ApplyCommit(r, a)
        PROVE  Promised
    <2>1. /\ req[r].job \in Jobs /\ req[r].cand \in Candidates
          /\ jobs[req[r].job] = "PUBLISHED"
      BY <1>1, <1>2
      DEF ApplyCommit, At, InsertApp, JobExists, Gone, RequestOK, ReadsHold
    <2>2. QED
      BY <1>2, <2>1, InsertPromised DEF ApplyCommit, Promised
  <1>3. ASSUME NEW a \in Apps, PushCommit(r, a)
        PROVE  Promised
    <2>1. req[r].job \in Jobs /\ req[r].cand \in Candidates
      BY <1>1, <1>3 DEF PushCommit, At, RequestOK
    <2>2. QED
      BY <1>3, <2>1, InsertPromised DEF PushCommit, Promised
  <1>4. CASE WithdrawCommit(r)
    <2>1. req[r].app \in Apps /\ apps[req[r].app].status = "NEW"
      BY <1>1, <1>4 DEF WithdrawCommit, At, Exists, Gone, RequestOK, ReadsHold
    <2>2. Lifecycle!Withdraw(req[r].app)
      BY <1>4, <2>1 DEF WithdrawCommit, Lifecycle!Withdraw
    <2>3. QED
      BY <2>1, <2>2 DEF Lifecycle!Next, Promised
  <1>5. CASE Reviews(r)
    <2> DEFINE a == req[r].app
    <2>1. CASE UNCHANGED apps
      BY <1>5, <2>1, ReviewWrites DEF Promised
    <2>2. CASE ~UNCHANGED apps
      <3>1. /\ a \in Apps /\ Exists(a)
            /\ apps' = [apps EXCEPT ![a].status = req[r].to]
            /\ req[r].to # "WITHDRAWN" => IndexAdmits(a, apps[a].job, apps[a].cand)
            /\ UNCHANGED jobs
        BY <1>1, <1>5, <2>2, ReviewWrites DEF At, WriteStatus, RequestOK
      <3>2. CASE At(r, "set_status", "read")
        <4>1. req[r].to \in AdminStatuses /\ apps[a].status \notin Gone \cup {"WITHDRAWN"}
          BY <1>1, <3>1, <3>2 DEF At, Exists, Gone, ReadsHold, CarriesOK
        <4>2. Lifecycle!Review(a, req[r].to)
          BY <3>1, <4>1 DEF Lifecycle!Review, Lifecycle!Gone, Gone
        <4>3. QED
          BY <3>1, <4>1, <4>2 DEF Lifecycle!Next, Promised
      <3>3. CASE At(r, "company_review", "read")
        <4>1. req[r].to \in CompanyStatuses /\ apps[a].status \notin Gone
          BY <1>1, <3>1, <3>3 DEF At, Exists, RequestOK
        <4>2. ASSUME NEW b \in Apps \ {a},
                     apps[b].job = apps[a].job, apps[b].cand = apps[a].cand
              PROVE  apps[b].status \in {"WITHDRAWN", "DELETED"}
          <5>1. b \notin LiveApps(apps[a].job, apps[a].cand)
            BY <3>1, <4>1, <4>2 DEF IndexAdmits, CompanyStatuses
          <5>2. apps[b].status # "ABSENT"
            BY <1>1, <3>1, <4>1, <4>2, ConstantsAssumption
            DEF ReadInv, BlankRows, TypeInv, RowOK, Gone
          <5>3. QED
            BY <4>2, <5>1, <5>2 DEF LiveApps, Live, Gone
        <4>3. Lifecycle!CompanyReview(a, req[r].to)
          BY <3>1, <4>1, <4>2 DEF Lifecycle!CompanyReview, Lifecycle!Gone, Gone
        <4>4. req[r].to \in Lifecycle!CompanyStatuses
          BY <4>1 DEF CompanyStatuses, Lifecycle!CompanyStatuses
        <4>5. QED
          BY <3>1, <4>3, <4>4 DEF Lifecycle!Next, Promised
      <3>4. QED
        BY <1>5, <3>2, <3>3, ReviewWrites
    <2>3. QED
      BY <2>1, <2>2
  <1>6. QED
    BY <1>2, <1>3, <1>4, <1>5

(* The steps that move a job to a status.                                  *)
LEMMA MovePromised ==
  ASSUME ReadInv, NEW r \in Requests,
         ApproveJobCommit(r) \/ RejectJobCommit(r) \/ UpdateJobCommit(r)
  PROVE  Promised
  <1>1. /\ TypeInv /\ apps \in [Apps -> AppRow] /\ req[r] \in Request
        /\ ReadsHold(r) /\ CarriesOK(r) /\ RequestOK(r)
    BY DEF ReadInv, EditInv, TypeInv, TypeOK
  <1> USE DEF OnJob
  <1>2. ASSUME NEW op \in {"approve_job", "reject_job"}, NEW s \in {"PUBLISHED", "CLOSED"},
               Decide(r, op, s)
        PROVE  Promised
    <2>1. req[r].job \in Jobs /\ jobs[req[r].job] = "PENDING_APPROVAL"
      BY <1>1, <1>2 DEF Decide, At, JobExists, Gone, RequestOK, ReadsHold
    <2>2. apps = [a \in Apps |-> apps[a]] /\ apps' = apps
      BY <1>1, <1>2 DEF Decide
    <2>3. Lifecycle!Move(req[r].job, s)
      BY <1>2, <2>1, <2>2 DEF Decide, Lifecycle!Move, Lifecycle!Gone
    <2>4. s \in Lifecycle!Statuses
      BY DEF Lifecycle!Statuses
    <2>5. QED
      BY <2>1, <2>3, <2>4 DEF Lifecycle!Next, Promised
  <1>3. CASE UpdateJobCommit(r)
    <2> DEFINE closed == {a \in req[r].batch : Exists(a)}
               active == {a \in Apps : /\ apps[a].job = req[r].job
                                       /\ apps[a].status \in ActiveStatuses}
    <2>1. /\ req[r].job \in Jobs /\ req[r].to \in JobStatuses /\ req[r].seen \in JobStatuses
          /\ jobs[req[r].job] = req[r].seen /\ BatchMatches(r)
      BY <1>1, <1>3 DEF UpdateJobCommit, At, RequestOK, ReadsHold, Holds
    <2>2. closed = IF IsClosing(r) THEN active ELSE {}
      BY <2>1 DEF BatchMatches
    <2>3. /\ jobs' = [jobs EXCEPT ![req[r].job] = req[r].to]
          /\ apps' = [a \in Apps |-> IF a \in closed
                                     THEN [apps[a] EXCEPT !.status = "JOB_CLOSED"]
                                     ELSE apps[a]]
      BY <1>3 DEF UpdateJobCommit
    <2> HIDE DEF closed
    <2>4. \A a \in Apps : a \in closed <=> /\ jobs[req[r].job] = "PUBLISHED" /\ req[r].to = "CLOSED"
                                           /\ apps[a].job = req[r].job
                                           /\ apps[a].status \in {"NEW", "APPROVED_BY_ADMIN"}
      BY <2>1, <2>2 DEF IsClosing, ActiveStatuses
    <2>5. jobs[req[r].job] \notin {"ABSENT", "DELETED"}
      BY <2>1 DEF JobStatuses
    <2>6. Lifecycle!Move(req[r].job, req[r].to)
      BY <2>3, <2>4, <2>5 DEF Lifecycle!Move, Lifecycle!Gone, Lifecycle!Active
    <2>7. req[r].to \in Lifecycle!Statuses
      BY <2>1 DEF JobStatuses, Lifecycle!Statuses
    <2>8. QED
      BY <2>1, <2>6, <2>7 DEF Lifecycle!Next, Promised
  <1>4. QED
    BY <1>2, <1>3 DEF ApproveJobCommit, RejectJobCommit

(* The removal of a job takes its applications with it.                    *)
LEMMA RemovePromised ==
  ASSUME ReadInv, NEW j \in Jobs, RemoveJob(j)
  PROVE  Promised
  <1>1. apps \in [Apps -> AppRow] /\ None \notin Jobs
    BY ConstantsAssumption DEF ReadInv, EditInv, TypeInv, TypeOK
  <1>2. ASSUME NEW a \in Apps, apps[a].job = j, ~Exists(a)
        PROVE  [apps[a] EXCEPT !.status = "DELETED"] = apps[a]
    <2>1. apps[a].status = "DELETED"
      BY <1>1, <1>2 DEF Exists, Gone, ReadInv, BlankRows
    <2>2. QED
      BY <1>1, <2>1 DEF AppRow
  <1>3. apps' = [a \in Apps |-> IF apps[a].job = j
                                THEN [apps[a] EXCEPT !.status = "DELETED"] ELSE apps[a]]
    BY <1>2 DEF RemoveJob
  <1>4. Lifecycle!Remove(j)
    BY <1>3 DEF RemoveJob, Lifecycle!Remove
  <1>5. QED
    BY <1>4 DEF Lifecycle!Next, Promised

LEMMA NextPromised ==
  ASSUME ReadInv, [Next]_vars
  PROVE  Promised
  <1>1. ASSUME NEW r \in Requests,
               \/ \E a \in Apps : ApplyCommit(r, a) \/ PushCommit(r, a)
               \/ WithdrawCommit(r) \/ Reviews(r)
        PROVE  Promised
    BY <1>1, RowPromised
  <1>2. ASSUME NEW r \in Requests,
               ApproveJobCommit(r) \/ RejectJobCommit(r) \/ UpdateJobCommit(r)
        PROVE  Promised
    BY <1>2, MovePromised
  <1>3. ASSUME NEW r \in Requests, CompanyDeleteCommit(r)
        PROVE  Promised
    <2>1. req[r].job \in Jobs
      BY <1>3 DEF CompanyDeleteCommit, At, ReadInv, EditInv, TypeInv, RequestOK, OnJob
    <2>2. QED
      BY <1>3, <2>1, RemovePromised DEF CompanyDeleteCommit
  <1>4. ASSUME NEW j \in Jobs, AdminDeleteJob(j)
        PROVE  Promised
    BY <1>4, RemovePromised DEF AdminDeleteJob
  <1>5. ASSUME NEW j \in Jobs, NEW s \in JobStatuses, CreateJob(j) \/ AdminCreateJob(j, s)
        PROVE  Promised
    <2>1. /\ Lifecycle!Create(j, "PENDING_APPROVAL") \/ Lifecycle!Create(j, s)
          /\ s \in Lifecycle!Statuses /\ "PENDING_APPROVAL" \in Lifecycle!Statuses
      BY <1>5 DEF CreateJob, AdminCreateJob, Lifecycle!Create, Lifecycle!Statuses, JobStatuses
    <2>2. QED
      BY <2>1 DEF Lifecycle!Next, Promised
  <1>6. ASSUME NEW a \in Apps, DeleteApplication(a)
        PROVE  Promised
    <2>1. Lifecycle!Delete(a)
      BY <1>6 DEF DeleteApplication, Lifecycle!Delete
    <2>2. QED
      BY <2>1 DEF Lifecycle!Next, Promised
  <1>7. ASSUME NEW r \in Requests,
               \/ \E j \in Jobs, c \in Candidates :
                     ApplyReadJob(r, j, c) \/ PushRead(r, j, c) \/ DismissRead(r, j, c)
               \/ \E j \in Jobs :
                     ApproveJobRead(r, j) \/ RejectJobRead(r, j) \/ CompanyDeleteRead(r, j)
               \/ \E j \in Jobs, s \in JobStatuses : UpdateJobRead(r, j, s)
               \/ \E a \in Apps : WithdrawRead(r, a)
               \/ \E a \in Apps, s \in AdminStatuses : SetStatusRead(r, a, s)
               \/ \E a \in Apps, s \in CompanyStatuses : CompanyReviewRead(r, a, s)
        PROVE  Promised
    BY <1>7
    DEF ApplyReadJob, PushRead, DismissRead, ApproveJobRead, RejectJobRead,
        CompanyDeleteRead, ReadPendingJob, UpdateJobRead, WithdrawRead, SetStatusRead,
        CompanyReviewRead, Promised
  <1>8. ASSUME NEW r \in Requests,
               \/ ApplyCheck(r) \/ UpdateJobFlush(r) \/ SelectActiveApplications(r)
               \/ Rollback(r) \/ DismissCommit(r)
        PROVE  Promised
    BY <1>8 DEF ApplyCheck, UpdateJobFlush, SelectActiveApplications, Rollback,
                DismissCommit, Promised
  <1>9. CASE UNCHANGED vars
    BY <1>9 DEF vars, Promised
  <1>10. "PUBLISHED" \in JobStatuses
    BY DEF JobStatuses
  <1>11. QED
    BY <1>1, <1>2, <1>3, <1>4, <1>5, <1>6, <1>7, <1>8, <1>9, <1>10 DEF Next, Reviews

(* With one request at a time the handlers implement the life cycle of     *)
(* ApplicationLifecycle, the company's power over withdrawn and closed     *)
(* applications included: each commit is one atomic step of it.            *)
THEOREM LifecyclePromised ==
  ASSUME OneRequest
  PROVE  Spec => PromisedLifecycle
  <1>1. Init => Lifecycle!Init
    BY DEF Init, Lifecycle!Init
  <1>2. ReadInv /\ [Next]_vars => [Lifecycle!Next]_<<jobs, apps>>
    BY NextPromised DEF Promised
  <1>3. QED
    BY <1>1, <1>2, ReadInvariant, PTL DEF Spec, PromisedLifecycle, Lifecycle!Spec

=============================================================================
