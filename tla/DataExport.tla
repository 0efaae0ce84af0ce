------------------------------ MODULE DataExport ------------------------------
(***************************************************************************)
(* The data export of one candidate: the request, the build task a worker  *)
(* runs from the task queue, the e-mailed link and the download.           *)
(*                                                                         *)
(* The data_export_request row is the rate limit: has_pending_export finds *)
(* the candidate's unused, unexpired row, and raises if there are several. *)
(* It is read by the request and again by the task, which inserts the row  *)
(* in a later transaction and enqueues the link after that one.  The queue *)
(* delivers a message again until it is deleted, MaxReceives times at most *)
(* (module TaskQueue).                                                     *)
(***************************************************************************)
EXTENDS WorkerPool, Naturals

CONSTANTS
    Exports,      \* data_export_request rows: a bound on those ever inserted
    Builds,       \* build messages ever enqueued: a bound
    Requests      \* API requests that can be in flight together

ASSUME ExportAssumption ==
    /\ MaxReceives \in Nat
    /\ None \notin Exports \cup Builds

VARIABLES
    rows,    \* the data_export_request rows
    links,   \* the e-mail with the link of a row
    builds,  \* the build messages
    task,    \* the build each worker is at
    api      \* the API requests in flight

exportVars == <<rows, links, builds, task, api>>

Build == [state : {"unsent", "waiting", "taken", "deleted"}, left : 0..MaxReceives]

TaskState ==
    [step : {"poll", "check", "build", "mail", "done"},
     build : Builds \cup {None}, row : Exports \cup {None}]

ApiState == [step : {"idle", "accepted", "serving"}, row : Exports \cup {None}]

NoTask == [step |-> "poll", build |-> None, row |-> None]
Idle == [step |-> "idle", row |-> None]

ExportTypeOK ==
    /\ rows \in [Exports -> {"absent", "pending", "used", "expired"}]
    /\ links \in [Exports -> {"none", "queued", "sent", "dead"}]
    /\ builds \in [Builds -> Build]
    /\ task \in [Workers -> TaskState]
    /\ api \in [Requests -> ApiState]

ExportInit ==
    /\ rows = [e \in Exports |-> "absent"]
    /\ links = [e \in Exports |-> "none"]
    /\ builds = [b \in Builds |-> [state |-> "unsent", left |-> MaxReceives]]
    /\ task = [w \in Workers |-> NoTask]
    /\ api = [r \in Requests |-> Idle]

Pending == {e \in Exports : rows[e] = "pending"}

(* Mutant: a used row blocks the next export and a pending one does not.   *)
NoneUsed == \A e \in Exports : rows[e] # "used"

(* has_pending_export answers False.                                       *)
NonePending == Pending = {}

(* It answers True: the row is unique.  With several rows it raises.       *)
OnePending == \E e \in Exports : Pending = {e}

-----------------------------------------------------------------------------
(* The request for an export: 202 unless a row is pending, then the        *)
(* message is enqueued by a hook that runs after the commit.               *)

RequestExport(r) ==
    /\ api[r] = Idle
    /\ NonePending
    /\ api' = [api EXCEPT ![r].step = "accepted"]
    /\ UNCHANGED <<rows, links, builds, task>>

EnqueueBuild(r, b) ==
    /\ api[r].step = "accepted"
    /\ builds[b].state = "unsent"
    /\ builds' = [builds EXCEPT ![b].state = "waiting"]
    /\ api' = [api EXCEPT ![r] = Idle]
    /\ UNCHANGED <<rows, links, task>>

-----------------------------------------------------------------------------
(* The queue.                                                              *)

Deliverable(b) == builds[b].state = "waiting" /\ builds[b].left > 0

Deliver(w, b) ==
    /\ task[w] = NoTask
    /\ Deliverable(b)
    /\ builds' = [builds EXCEPT ![b] = [state |-> "taken", left |-> @.left - 1]]
    /\ task' = [task EXCEPT ![w] = [NoTask EXCEPT !.step = "check", !.build = b]]
    /\ UNCHANGED <<rows, links, api>>

BuildReappears(b) ==
    /\ builds[b].state = "taken"
    /\ builds' = [builds EXCEPT ![b].state = "waiting"]
    /\ UNCHANGED <<rows, links, task, api>>

(* send_email_task runs for the link's message, or gives it up for dead.   *)
DeliverLink(e) ==
    /\ links[e] = "queued"
    /\ \E outcome \in {"sent", "dead"} : links' = [links EXCEPT ![e] = outcome]
    /\ UNCHANGED <<rows, builds, task, api>>

-----------------------------------------------------------------------------
(* build_data_export_task.                                                 *)

Advance(w, state) == task' = [task EXCEPT ![w] = state]

CheckPending(w) ==
    /\ task[w].step = "check"
    /\ \/ OnePending /\ Advance(w, [task[w] EXCEPT !.step = "done"])
       \/ NonePending /\ Advance(w, [task[w] EXCEPT !.step = "build"])
    /\ UNCHANGED <<rows, links, builds, api>>

(* Mutant: the link is enqueued before the row is committed.               *)
MailBeforeCommit(w, e) ==
    /\ task[w].step = "build"
    /\ rows[e] = "absent"
    /\ links' = [links EXCEPT ![e] = "queued"]
    /\ \/ /\ rows' = [rows EXCEPT ![e] = "pending"]
          /\ Advance(w, [task[w] EXCEPT !.step = "mail", !.row = e])
       \/ Advance(w, NoTask) /\ UNCHANGED rows
    /\ UNCHANGED <<builds, api>>

(* build_and_persist_export commits the row.                               *)
PersistExport(w, e) ==
    /\ task[w].step = "build"
    /\ rows[e] = "absent"
    /\ rows' = [rows EXCEPT ![e] = "pending"]
    /\ Advance(w, [task[w] EXCEPT !.step = "mail", !.row = e])
    /\ UNCHANGED <<links, builds, api>>

(* A failure to enqueue the link is logged and swallowed.                  *)
EnqueueLink(w) ==
    /\ task[w].step = "mail"
    /\ \/ links' = [links EXCEPT ![task[w].row] = "queued"]
       \/ UNCHANGED links
    /\ Advance(w, [task[w] EXCEPT !.step = "done", !.row = None])
    /\ UNCHANGED <<rows, builds, api>>

(* The receipt of an earlier delivery may no longer delete the message.    *)
DeleteMessage(w) ==
    /\ task[w].step = "done"
    /\ \/ builds' = [builds EXCEPT ![task[w].build].state = "deleted"]
       \/ UNCHANGED builds
    /\ Advance(w, NoTask)
    /\ UNCHANGED <<rows, links, api>>

(* The task raises, or the worker dies: the message is delivered again.    *)
Abandon(w) ==
    /\ task[w].step # "poll"
    /\ Advance(w, NoTask)
    /\ UNCHANGED <<rows, links, builds, api>>

-----------------------------------------------------------------------------
(* The download.                                                           *)

DownloadRead(r, e) ==
    /\ api[r] = Idle
    /\ links[e] = "sent"
    /\ rows[e] = "pending"
    /\ api' = [api EXCEPT ![r] = [step |-> "serving", row |-> e]]
    /\ UNCHANGED <<rows, links, builds, task>>

(* Mutant: the row is marked with the state of its link.                   *)
DownloadMarksLink(r) ==
    LET e == api[r].row IN
    /\ api[r].step = "serving"
    /\ rows' = [rows EXCEPT ![e] = links[e]]
    /\ api' = [api EXCEPT ![r] = Idle]
    /\ UNCHANGED <<links, builds, task>>

DownloadCommit(r) ==
    LET e == api[r].row IN
    /\ api[r].step = "serving"
    /\ rows' = [rows EXCEPT ![e] = "used"]
    /\ api' = [api EXCEPT ![r] = Idle]
    /\ UNCHANGED <<links, builds, task>>

(* The storage fails, the hook is lost, the client disconnects, a crash.   *)
AbortRequest(r) ==
    /\ api[r] # Idle
    /\ api' = [api EXCEPT ![r] = Idle]
    /\ UNCHANGED <<rows, links, builds, task>>

Expire(e) ==
    /\ rows[e] = "pending"
    /\ rows' = [rows EXCEPT ![e] = "expired"]
    /\ UNCHANGED <<links, builds, task, api>>

ExportNext ==
    \/ \E r \in Requests :
          \/ RequestExport(r) \/ DownloadCommit(r) \/ AbortRequest(r)
          \/ \E b \in Builds : EnqueueBuild(r, b)
          \/ \E e \in Exports : DownloadRead(r, e)
    \/ \E w \in Workers :
          \/ CheckPending(w) \/ EnqueueLink(w) \/ DeleteMessage(w) \/ Abandon(w)
          \/ \E b \in Builds : Deliver(w, b)
          \/ \E e \in Exports : PersistExport(w, e)
    \/ \E b \in Builds : BuildReappears(b)
    \/ \E e \in Exports : DeliverLink(e) \/ Expire(e)

ExportSpec == ExportInit /\ [][ExportNext]_exportVars

-----------------------------------------------------------------------------
(* With one worker the candidate never has two active exports, however     *)
(* requests race, messages are delivered again and the worker dies: the    *)
(* task's own check makes a redelivery a no-op.  Two workers break it, and *)
(* has_pending_export then raises until one of the rows expires.           *)
OneActiveExport == \A d, e \in Pending : d = e

(* A mailed link never points at a row that was not committed.             *)
LinkHasRow == \A e \in Exports : links[e] # "none" => rows[e] # "absent"

=============================================================================
