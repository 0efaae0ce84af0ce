------------------------ MODULE ApplicationLifecycle -------------------------
(***************************************************************************)
(* Who may do what to a job and an application, with every operation one   *)
(* atomic step: an application is made to a published job, a candidate     *)
(* withdraws it while it is NEW, an admin reviews it unless it is          *)
(* withdrawn, the company hires or rejects from any status, withdrawn and  *)
(* closed ones included, and closing a published job closes what is        *)
(* active.  No step leaves a pair two applications that are not withdrawn. *)
(***************************************************************************)
CONSTANTS Jobs, Candidates, Apps, AdminStatuses, None

VARIABLES jobs, apps

Gone == {"ABSENT", "DELETED"}
Active == {"NEW", "APPROVED_BY_ADMIN"}
CompanyStatuses == {"HIRED", "REJECTED"}
Statuses == {"PENDING_APPROVAL", "PUBLISHED", "CLOSED"}

Init ==
    /\ jobs = [j \in Jobs |-> "ABSENT"]
    /\ apps = [a \in Apps |-> [job |-> None, cand |-> None, status |-> "ABSENT",
                               pushed |-> FALSE]]

(* A candidate applies to, or an admin pushes a candidate into, a job to   *)
(* which the candidate has no application that is not withdrawn.           *)
Submit(a, j, c, isPushed) ==
    /\ apps[a].status = "ABSENT"
    /\ IF isPushed THEN jobs[j] \notin Gone ELSE jobs[j] = "PUBLISHED"
    /\ \A b \in Apps : apps[b].job = j /\ apps[b].cand = c
                       => apps[b].status \in {"WITHDRAWN", "DELETED"}
    /\ apps' = [apps EXCEPT ![a] = [job |-> j, cand |-> c, status |-> "NEW",
                                    pushed |-> isPushed]]
    /\ UNCHANGED jobs

Withdraw(a) ==
    /\ apps[a].status = "NEW"
    /\ apps' = [apps EXCEPT ![a].status = "WITHDRAWN"]
    /\ UNCHANGED jobs

Review(a, s) ==
    /\ apps[a].status \notin Gone \cup {"WITHDRAWN"}
    /\ apps' = [apps EXCEPT ![a].status = s]
    /\ UNCHANGED jobs

(* A withdrawn row is revived only while the pair has no other.            *)
CompanyReview(a, s) ==
    /\ apps[a].status \notin Gone
    /\ \A b \in Apps \ {a} : /\ apps[b].job = apps[a].job
                             /\ apps[b].cand = apps[a].cand
                            => apps[b].status \in {"WITHDRAWN", "DELETED"}
    /\ apps' = [apps EXCEPT ![a].status = s]
    /\ UNCHANGED jobs

Delete(a) ==
    /\ apps' = [apps EXCEPT ![a].status = "DELETED"]
    /\ UNCHANGED jobs

Create(j, s) ==
    /\ jobs[j] = "ABSENT"
    /\ jobs' = [jobs EXCEPT ![j] = s]
    /\ UNCHANGED apps

(* An edit by an admin, an approval or a rejection.                        *)
Move(j, s) ==
    /\ jobs[j] \notin Gone
    /\ jobs' = [jobs EXCEPT ![j] = s]
    /\ apps' = [a \in Apps |->
                  IF /\ jobs[j] = "PUBLISHED" /\ s = "CLOSED"
                     /\ apps[a].job = j /\ apps[a].status \in Active
                  THEN [apps[a] EXCEPT !.status = "JOB_CLOSED"] ELSE apps[a]]

Remove(j) ==
    /\ jobs' = [jobs EXCEPT ![j] = "DELETED"]
    /\ apps' = [a \in Apps |-> IF apps[a].job = j
                              THEN [apps[a] EXCEPT !.status = "DELETED"] ELSE apps[a]]

Next ==
    \/ \E a \in Apps, j \in Jobs, c \in Candidates, p \in BOOLEAN : Submit(a, j, c, p)
    \/ \E a \in Apps : Withdraw(a) \/ Delete(a)
    \/ \E a \in Apps, s \in AdminStatuses : Review(a, s)
    \/ \E a \in Apps, s \in CompanyStatuses : CompanyReview(a, s)
    \/ \E j \in Jobs, s \in Statuses : Create(j, s) \/ Move(j, s)
    \/ \E j \in Jobs : Remove(j)

Spec == Init /\ [][Next]_<<jobs, apps>>
=============================================================================
