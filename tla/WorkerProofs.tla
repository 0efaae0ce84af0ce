----------------------------- MODULE WorkerProofs -----------------------------
(***************************************************************************)
(* Proofs about the worker, for every number of workers, messages,         *)
(* requests and deliveries: the queue loses no task and bounds duplicates, *)
(* a mailed link always has its row, and a single worker never leaves the  *)
(* candidate with two active exports.                                      *)
(*                                                                         *)
(* A receive may outlive its visibility timeout, so what bounds the runs   *)
(* of a message is not its state in the queue: each receive is one ticket  *)
(* to run the task, and a worker spends it, keeps it or loses it.          *)
(***************************************************************************)
EXTENDS TaskQueue, DataExport, FiniteSetTheorems, TLAPS

-----------------------------------------------------------------------------
(* The queue (TaskQueue).                                                  *)

(* The workers that hold a ticket to run m.                                *)
Holders(m) ==
    {w \in Workers : \/ m \in worker[w].batch
                     \/ worker[w].step = "running" /\ worker[w].current = m}

WorkerOK(w) ==
    /\ worker[w].step # "poll" => worker[w].current \in Messages
    /\ worker[w].current \notin worker[w].batch
    /\ worker[w].step = "returned" =>
          runs[worker[w].current] > 0 \/ worker[w].current \in UnknownTasks

Tickets(m) == runs[m] + Cardinality(Holders(m)) <= queue[m].receives

QueueInv ==
    /\ queue \in [Messages -> QueueEntry]
    /\ worker \in [Workers -> WorkerState]
    /\ runs \in [Messages -> Nat]
    /\ \A w \in Workers : WorkerOK(w)
    /\ \A m \in Messages : Tickets(m)
    /\ NoTaskLost

(* The holders of a message can be counted.                                *)
LEMMA HoldersFinite ==
  ASSUME NEW m
  PROVE  IsFiniteSet(Holders(m)) /\ Cardinality(Holders(m)) \in Nat
  <1>1. Holders(m) \subseteq Workers
    BY DEF Holders
  <1>2. QED
    BY <1>1, ConstantsAssumption, FS_Subset, FS_CardinalityType

(* A ticket is kept or lost while nothing runs and nothing is received.    *)
LEMMA TicketsKept ==
  ASSUME QueueInv, NEW m \in Messages, Tickets(m), Holders(m)' \subseteq Holders(m),
         runs' = runs, queue'[m].receives = queue[m].receives
  PROVE  Tickets(m)'
  <1>1. Cardinality(Holders(m)') <= Cardinality(Holders(m))
    BY HoldersFinite, FS_Subset
  <1>2. Cardinality(Holders(m)') \in Nat /\ Cardinality(Holders(m)) \in Nat
    BY HoldersFinite, FS_Subset, FS_CardinalityType
  <1>3. runs[m] \in Nat /\ queue[m].receives \in Nat
    BY ConstantsAssumption DEF QueueInv, QueueEntry
  <1>4. QED
    BY <1>1, <1>2, <1>3 DEF Tickets

(* The steps that change nothing but the state of one queue entry.         *)
LEMMA QueueOnly ==
  ASSUME QueueInv, NEW m \in Messages, NEW s \in {"visible", "dead"},
         queue' = [queue EXCEPT ![m].state = s], UNCHANGED <<worker, runs>>
  PROVE  QueueInv'
  <1>1. queue' \in [Messages -> QueueEntry]
    BY DEF QueueInv, QueueEntry
  <1>2. \A n \in Messages : queue'[n].receives = queue[n].receives
    BY DEF QueueInv, QueueEntry
  <1>3. \A n \in Messages : Tickets(n)'
    BY <1>2, TicketsKept DEF QueueInv, Holders
  <1>4. NoTaskLost'
    BY DEF QueueInv, QueueEntry, NoTaskLost
  <1>5. QED
    BY <1>1, <1>3, <1>4 DEF QueueInv, WorkerOK

(* A receive hands out one ticket for each message it counts.              *)
LEMMA ReceiveInv ==
  ASSUME QueueInv, NEW w \in Workers, Receive(w)
  PROVE  QueueInv'
  <1>1. PICK batch \in SUBSET {m \in Messages : MayReceive(m)} :
           /\ queue' = [m \in Messages |->
                          IF m \in batch
                          THEN [state |-> "inflight", receives |-> queue[m].receives + 1,
                                holder |-> w]
                          ELSE queue[m]]
           /\ worker' = [worker EXCEPT ![w].batch = batch]
    BY DEF Receive
  <1>2. /\ worker[w] = Polling /\ runs' = runs
        /\ worker'[w] = [batch |-> batch, current |-> None, step |-> "poll"]
        /\ \A v \in Workers : v # w => worker'[v] = worker[v]
        /\ None \notin Messages
    BY <1>1, ConstantsAssumption DEF Receive, QueueInv, Polling
  <1>3. queue' \in [Messages -> QueueEntry]
    <2>1. ASSUME NEW m \in batch
          PROVE  queue[m].receives + 1 \in 0..MaxReceives
      BY ConstantsAssumption DEF QueueInv, QueueEntry, MayReceive
    <2>2. QED
      BY <1>1, <2>1 DEF QueueInv, QueueEntry
  <1>4. worker' \in [Workers -> WorkerState]
    BY <1>1 DEF QueueInv, WorkerState
  <1>5. \A v \in Workers : WorkerOK(v)'
    BY <1>2 DEF QueueInv, WorkerOK
  <1>6. ASSUME NEW m \in Messages
        PROVE  Tickets(m)'
    <2>1. CASE m \in batch
      <3>1. Holders(m)' = Holders(m) \cup {w} /\ w \notin Holders(m)
        BY <1>2, <2>1 DEF Holders, Polling
      <3>2. Cardinality(Holders(m)') = Cardinality(Holders(m)) + 1
        BY <3>1, HoldersFinite, FS_AddElement
      <3>3. queue'[m].receives = queue[m].receives + 1
        BY <1>1, <2>1
      <3>4. runs[m] \in Nat /\ queue[m].receives \in Nat /\ Cardinality(Holders(m)) \in Nat
        BY ConstantsAssumption, HoldersFinite DEF QueueInv, QueueEntry
      <3>5. QED
        BY <1>2, <3>2, <3>3, <3>4 DEF QueueInv, Tickets
    <2>2. CASE m \notin batch
      <3>1. Holders(m)' \subseteq Holders(m)
        BY <1>2, <2>2 DEF Holders
      <3>2. QED
        BY <1>1, <1>2, <2>2, <3>1, TicketsKept DEF QueueInv
    <2>3. QED
      BY <2>1, <2>2
  <1>7. NoTaskLost'
    BY <1>1, <1>2 DEF QueueInv, NoTaskLost
  <1>8. QED
    BY <1>2, <1>3, <1>4, <1>5, <1>6, <1>7 DEF QueueInv

(* The task takes effect and its ticket is spent.                          *)
LEMMA WorkInv ==
  ASSUME QueueInv, NEW w \in Workers, Work(w)
  PROVE  QueueInv'
  <1>0. PICK m \in Messages : m = worker[w].current
    BY DEF QueueInv, WorkerOK, Work
  <1>1. m \notin worker[w].batch /\ w \in Holders(m)
    BY <1>0 DEF QueueInv, WorkerOK, Work, Holders
  <1>2. /\ runs' = IF m \in UnknownTasks THEN runs ELSE [runs EXCEPT ![m] = @ + 1]
        /\ queue' = queue
    BY <1>0 DEF Work
  <1>3. /\ worker'[w].step = "returned" /\ worker'[w].current = m
        /\ worker'[w].batch = worker[w].batch
        /\ \A v \in Workers : v # w => worker'[v] = worker[v]
        /\ worker' \in [Workers -> WorkerState]
    BY <1>0 DEF Work, QueueInv, WorkerState
  <1>4. /\ runs' \in [Messages -> Nat]
        /\ \A n \in Messages : runs'[n] = IF n = m /\ m \notin UnknownTasks
                                          THEN runs[n] + 1 ELSE runs[n]
    BY <1>1, <1>2 DEF QueueInv
  <1>5. \A n \in Messages : n # m => Holders(n)' = Holders(n)
    BY <1>0, <1>3 DEF Holders
  <1>6. Holders(m)' = Holders(m) \ {w}
    BY <1>0, <1>1, <1>3 DEF Holders
  <1>7. ASSUME NEW v \in Workers
        PROVE  WorkerOK(v)'
    <2>1. CASE v = w
      BY <1>0, <1>1, <1>3, <1>4, <2>1 DEF QueueInv, WorkerOK
    <2>2. CASE v # w
      <3>1. \A n \in Messages : runs[n] > 0 => runs'[n] > 0
        BY <1>4 DEF QueueInv
      <3>2. QED
        BY <1>3, <2>2, <3>1 DEF QueueInv, WorkerOK
    <2>3. QED
      BY <2>1, <2>2
  <1>8. Tickets(m)'
    <2>1. Cardinality(Holders(m)') = Cardinality(Holders(m)) - 1
      BY <1>1, <1>6, HoldersFinite, FS_RemoveElement
    <2>2. /\ runs[m] \in Nat /\ queue[m].receives \in Nat
          /\ Cardinality(Holders(m)) \in Nat
      BY <1>1, ConstantsAssumption, HoldersFinite DEF QueueInv, QueueEntry
    <2>3. runs'[m] <= runs[m] + 1 /\ runs'[m] \in Nat
      BY <1>1, <1>4, <2>2
    <2>4. QED
      BY <1>1, <1>2, <2>1, <2>2, <2>3 DEF QueueInv, Tickets
  <1>9. \A n \in Messages : n # m => Tickets(n)'
    BY <1>2, <1>4, <1>5 DEF QueueInv, Tickets
  <1>10. NoTaskLost'
    BY <1>1, <1>2, <1>4 DEF QueueInv, NoTaskLost
  <1>11. QED
    BY <1>2, <1>3, <1>4, <1>7, <1>8, <1>9, <1>10 DEF QueueInv

(* A worker begins a message, or leaves one or all of them; of the queue   *)
(* at most a message whose task has returned is deleted.                   *)
LEMMA WorkerMovesInv ==
  ASSUME QueueInv, NEW w \in Workers,
         \/ \E m \in Messages : Begin(w, m)
         \/ Delete(w) \/ Fail(w) \/ Crash(w)
  PROVE  QueueInv'
  <1>1. /\ runs' = runs
        /\ \A v \in Workers : v # w => worker'[v] = worker[v]
        /\ worker \in [Workers -> WorkerState] /\ None \notin Messages
    BY ConstantsAssumption DEF QueueInv, Begin, Delete, Fail, Crash
  <1>2. /\ worker' \in [Workers -> WorkerState]
        /\ \A m \in Messages : w \in Holders(m)' => w \in Holders(m)
        /\ WorkerOK(w)'
    <2>1. ASSUME NEW m \in Messages, Begin(w, m)
          PROVE  <1>2
      BY <1>1, <2>1 DEF Begin, WorkerState, Holders, WorkerOK
    <2>2. CASE Delete(w) \/ Fail(w)
      <3>1. worker' = [worker EXCEPT ![w].current = None, ![w].step = "poll"]
        BY <2>2 DEF Delete, Fail
      <3>2. worker[w] \in WorkerState
        BY <1>1
      <3>3. /\ worker' \in [Workers -> WorkerState]
            /\ worker'[w].batch = worker[w].batch /\ worker'[w].batch \subseteq Messages
            /\ worker'[w].current = None /\ worker'[w].step = "poll"
        BY <1>1, <3>1, <3>2 DEF WorkerState
      <3>4. QED
        BY <1>1, <3>3 DEF Holders, WorkerOK
    <2>3. CASE Crash(w)
      BY <1>1, <2>3 DEF Crash, Polling, WorkerState, Holders, WorkerOK
    <2>4. QED
      BY <2>1, <2>2, <2>3
  <1>3. /\ queue' \in [Messages -> QueueEntry]
        /\ \A m \in Messages : queue'[m].receives = queue[m].receives
    <2>1. CASE UNCHANGED queue
      BY <2>1 DEF QueueInv
    <2>2. CASE queue' = [queue EXCEPT ![worker[w].current].state = "deleted"]
      <3>1. queue \in [Messages -> QueueEntry]
        BY DEF QueueInv
      <3>2. \A m \in Messages :
               /\ [queue[m] EXCEPT !.state = "deleted"] \in QueueEntry
               /\ [queue[m] EXCEPT !.state = "deleted"].receives = queue[m].receives
        BY <3>1 DEF QueueEntry
      <3>3. QED
        BY <2>2, <3>1, <3>2
    <2>3. QED
      BY <2>1, <2>2 DEF Begin, Delete, Fail, Crash
  <1>4. \A m \in Messages : Holders(m)' \subseteq Holders(m)
    BY <1>1, <1>2 DEF Holders
  <1>5. \A m \in Messages : Tickets(m)'
    BY <1>1, <1>3, <1>4, TicketsKept DEF QueueInv
  <1>6. \A v \in Workers : WorkerOK(v)'
    BY <1>1, <1>2 DEF QueueInv, WorkerOK
  <1>7. NoTaskLost'
    <2>1. CASE Delete(w)
      BY <1>1, <2>1 DEF Delete, MayDelete, QueueInv, QueueEntry, NoTaskLost, WorkerOK
    <2>2. CASE queue' = queue
      BY <1>1, <2>2 DEF QueueInv, NoTaskLost
    <2>3. QED
      BY <2>1, <2>2 DEF Begin, Fail, Crash
  <1>8. QED
    BY <1>1, <1>2, <1>3, <1>5, <1>6, <1>7 DEF QueueInv

LEMMA InitQueueInv == Init => QueueInv
  <1> SUFFICES ASSUME Init PROVE QueueInv
    OBVIOUS
  <1>1. /\ queue \in [Messages -> QueueEntry] /\ worker \in [Workers -> WorkerState]
        /\ runs \in [Messages -> Nat]
    BY ConstantsAssumption DEF Init, QueueEntry, WorkerState, Polling
  <1>2. \A m \in Messages : Holders(m) = {}
    BY DEF Init, Holders, Polling
  <1>3. \A m \in Messages : Tickets(m)
    BY <1>2, FS_EmptySet DEF Init, Tickets
  <1>4. QED
    BY <1>1, <1>3 DEF Init, QueueInv, WorkerOK, Polling, NoTaskLost

LEMMA NextQueueInv == QueueInv /\ [Next]_qvars => QueueInv'
  <1> SUFFICES ASSUME QueueInv, [Next]_qvars PROVE QueueInv'
    OBVIOUS
  <1>1. CASE UNCHANGED qvars
    <2>1. Holders(0)' = Holders(0) /\ \A m : Holders(m)' = Holders(m)
      BY <1>1 DEF qvars, Holders
    <2>2. QED
      BY <1>1, <2>1 DEF qvars, QueueInv, WorkerOK, Tickets, NoTaskLost
  <1>2. ASSUME NEW m \in Messages, Send(m) \/ QueueStep(m)
        PROVE  QueueInv'
    BY <1>2, QueueOnly DEF Send, QueueStep, VisibilityExpires, DeadLetter
  <1>3. ASSUME NEW w \in Workers, WorkerStep(w) \/ Crash(w)
        PROVE  QueueInv'
    BY <1>3, ReceiveInv, WorkInv, WorkerMovesInv DEF WorkerStep
  <1>4. QED
    BY <1>1, <1>2, <1>3 DEF Next

(* What the invariant says of a message.                                   *)
LEMMA InvBounds ==
  ASSUME QueueInv, NEW m \in Messages
  PROVE  /\ runs[m] \in 0..MaxReceives
         /\ runs[m] <= queue[m].receives /\ queue[m].receives <= MaxReceives
  <1>1. runs[m] \in Nat /\ queue[m].receives \in 0..MaxReceives
    BY DEF QueueInv, QueueEntry
  <1>2. Cardinality(Holders(m)) \in Nat
    BY HoldersFinite
  <1>3. runs[m] <= queue[m].receives
    BY <1>1, <1>2, ConstantsAssumption DEF QueueInv, Tickets
  <1>4. QED
    BY <1>1, <1>3, ConstantsAssumption

(* Every reachable state is well typed.                                    *)
THEOREM TypeCorrect == Spec => []TypeOK
  <1>1. QueueInv => TypeOK
    <2> SUFFICES ASSUME QueueInv PROVE TypeOK
      OBVIOUS
    <2>1. runs \in [Messages -> 0..MaxReceives]
      BY InvBounds DEF QueueInv
    <2>2. QED
      BY <2>1 DEF QueueInv, TypeOK
  <1>2. QED
    BY <1>1, InitQueueInv, NextQueueInv, PTL DEF Spec

(* A message leaves the queue only when its task has run to completion,    *)
(* whichever workers crash, fail or delete late.                           *)
THEOREM NoTaskLostHolds == Spec => []NoTaskLost
  <1>1. QueueInv => NoTaskLost
    BY DEF QueueInv
  <1>2. QED
    BY <1>1, InitQueueInv, NextQueueInv, PTL DEF Spec

(* A task takes effect at most once per time its message was received.     *)
THEOREM DuplicatesBoundedHolds == Spec => []DuplicatesBounded
  <1>1. QueueInv => DuplicatesBounded
    BY InvBounds DEF DuplicatesBounded
  <1>2. QED
    BY <1>1, InitQueueInv, NextQueueInv, PTL DEF Spec

-----------------------------------------------------------------------------
(* The export task (DataExport).                                           *)

(* A worker that mails a link has committed its row.                       *)
TaskOK(w) ==
    /\ task[w].step = "mail" =>
          task[w].row \in Exports /\ rows[task[w].row] # "absent"
    /\ task[w].step # "poll" => task[w].build \in Builds

ExportInv ==
    /\ ExportTypeOK
    /\ \A r \in Requests : api[r].step = "serving" =>
          api[r].row \in Exports /\ rows[api[r].row] # "absent"
    /\ \A w \in Workers : TaskOK(w)
    /\ LinkHasRow

LEMMA InitExportInv == ExportInit => ExportInv
  <1> SUFFICES ASSUME ExportInit PROVE ExportInv
    OBVIOUS
  <1>1. MaxReceives \in 0..MaxReceives
    BY ExportAssumption
  <1>2. ExportTypeOK
    BY <1>1 DEF ExportInit, ExportTypeOK, Build, TaskState, NoTask, ApiState, Idle
  <1>3. QED
    BY <1>2 DEF ExportInit, ExportInv, TaskOK, NoTask, Idle, LinkHasRow

(* The steps of the API.                                                   *)
LEMMA ApiSteps ==
  ASSUME ExportInv, NEW r \in Requests,
         \/ RequestExport(r) \/ DownloadCommit(r) \/ AbortRequest(r)
         \/ \E b \in Builds : EnqueueBuild(r, b)
         \/ \E e \in Exports : DownloadRead(r, e)
  PROVE  ExportInv'
  <1>1. ExportTypeOK
    BY DEF ExportInv
  <1>2. CASE RequestExport(r)
    <2>1. ExportTypeOK'
      BY <1>1, <1>2 DEF RequestExport, ExportTypeOK, ApiState
    <2>2. \A q \in Requests : api'[q].step = "serving" => api'[q] = api[q]
      BY <1>1, <1>2 DEF RequestExport, ExportTypeOK, ApiState
    <2>3. QED
      BY <1>2, <2>1, <2>2 DEF RequestExport, ExportInv, TaskOK, LinkHasRow
  <1>3. CASE AbortRequest(r)
    <2>1. ExportTypeOK'
      BY <1>1, <1>3 DEF AbortRequest, ExportTypeOK, ApiState, Idle
    <2>2. \A q \in Requests : api'[q].step = "serving" => api'[q] = api[q]
      BY <1>1, <1>3 DEF AbortRequest, ExportTypeOK, Idle
    <2>3. QED
      BY <1>3, <2>1, <2>2 DEF AbortRequest, ExportInv, TaskOK, LinkHasRow
  <1>4. ASSUME NEW b \in Builds, EnqueueBuild(r, b)
        PROVE  ExportInv'
    <2>1. ExportTypeOK'
      BY <1>1, <1>4 DEF EnqueueBuild, ExportTypeOK, ApiState, Idle, Build
    <2>2. \A q \in Requests : api'[q].step = "serving" => api'[q] = api[q]
      BY <1>1, <1>4 DEF EnqueueBuild, ExportTypeOK, Idle
    <2>3. QED
      BY <1>4, <2>1, <2>2 DEF EnqueueBuild, ExportInv, TaskOK, LinkHasRow
  <1>5. ASSUME NEW e \in Exports, DownloadRead(r, e)
        PROVE  ExportInv'
    <2>1. ExportTypeOK'
      BY <1>1, <1>5 DEF DownloadRead, ExportTypeOK, ApiState
    <2>2. \A q \in Requests : api'[q].step = "serving" =>
             api'[q] = api[q] \/ (api'[q].row = e /\ rows[e] # "absent")
      BY <1>1, <1>5 DEF DownloadRead, ExportTypeOK
    <2>3. QED
      BY <1>5, <2>1, <2>2 DEF DownloadRead, ExportInv, TaskOK, LinkHasRow
  <1>6. CASE DownloadCommit(r)
    <2>1. api[r].row \in Exports
      BY <1>6 DEF DownloadCommit, ExportInv
    <2>3. ExportTypeOK'
      BY <1>1, <1>6, <2>1 DEF DownloadCommit, ExportTypeOK, ApiState, Idle
    <2>4. \A q \in Requests : api'[q].step = "serving" => api'[q] = api[q]
      BY <1>1, <1>6 DEF DownloadCommit, ExportTypeOK, Idle
    <2>5. \A e \in Exports : rows[e] # "absent" => rows'[e] # "absent"
      BY <1>1, <1>6 DEF DownloadCommit, ExportTypeOK
    <2>6. QED
      BY <1>6, <2>3, <2>4, <2>5 DEF DownloadCommit, ExportInv, TaskOK, LinkHasRow
  <1>7. QED
    BY <1>2, <1>3, <1>4, <1>5, <1>6

(* The steps of the queue and of time.                                     *)
LEMMA QueueSteps ==
  ASSUME ExportInv,
         \/ \E b \in Builds : BuildReappears(b)
         \/ \E e \in Exports : DeliverLink(e) \/ Expire(e)
         \/ UNCHANGED exportVars
  PROVE  ExportInv'
  <1>1. ExportTypeOK
    BY DEF ExportInv
  <1>2. ASSUME NEW b \in Builds, BuildReappears(b)
        PROVE  ExportInv'
    <2>1. ExportTypeOK'
      BY <1>1, <1>2 DEF BuildReappears, ExportTypeOK, Build
    <2>2. QED
      BY <1>2, <2>1 DEF BuildReappears, ExportInv, TaskOK, LinkHasRow
  <1>3. ASSUME NEW e \in Exports, DeliverLink(e)
        PROVE  ExportInv'
    <2>1. ExportTypeOK'
      BY <1>1, <1>3 DEF DeliverLink, ExportTypeOK
    <2>2. LinkHasRow'
      BY <1>1, <1>3 DEF DeliverLink, ExportTypeOK, ExportInv, LinkHasRow
    <2>3. QED
      BY <1>3, <2>1, <2>2 DEF DeliverLink, ExportInv, TaskOK
  <1>4. ASSUME NEW e \in Exports, Expire(e)
        PROVE  ExportInv'
    <2>1. ExportTypeOK'
      BY <1>1, <1>4 DEF Expire, ExportTypeOK
    <2>2. \A d \in Exports : rows[d] # "absent" => rows'[d] # "absent"
      BY <1>1, <1>4 DEF Expire, ExportTypeOK
    <2>3. QED
      BY <1>4, <2>1, <2>2 DEF Expire, ExportInv, TaskOK, LinkHasRow
  <1>5. CASE UNCHANGED exportVars
    BY <1>5 DEF exportVars, ExportInv, ExportTypeOK, TaskOK, LinkHasRow
  <1>6. QED
    BY <1>2, <1>3, <1>4, <1>5

(* The steps of a worker.                                                  *)
LEMMA WorkerSteps ==
  ASSUME ExportInv, NEW w \in Workers,
         \/ CheckPending(w) \/ EnqueueLink(w) \/ DeleteMessage(w) \/ Abandon(w)
         \/ \E b \in Builds : Deliver(w, b)
         \/ \E e \in Exports : PersistExport(w, e)
  PROVE  ExportInv'
  <1>1. ExportTypeOK /\ task[w] \in TaskState
    BY DEF ExportInv, ExportTypeOK
  <1>2. ASSUME NEW state \in TaskState, Advance(w, state)
        PROVE  /\ task' \in [Workers -> TaskState]
               /\ \A v \in Workers : task'[v] = IF v = w THEN state ELSE task[v]
    BY <1>1, <1>2 DEF Advance, ExportTypeOK
  <1>3. NoTask \in TaskState
    BY DEF NoTask, TaskState
  <1>4. CASE CheckPending(w)
    <2>1. PICK s \in {"done", "build"} : Advance(w, [task[w] EXCEPT !.step = s])
      BY <1>4 DEF CheckPending
    <2>2. /\ [task[w] EXCEPT !.step = s] \in TaskState
          /\ [task[w] EXCEPT !.step = s].step = s
          /\ [task[w] EXCEPT !.step = s].build = task[w].build
      BY <1>1 DEF TaskState
    <2>3. /\ task' \in [Workers -> TaskState]
          /\ task'[w].step = s /\ task'[w].build = task[w].build
          /\ \A v \in Workers : v # w => task'[v] = task[v]
      BY <1>2, <2>1, <2>2
    <2>4. ExportTypeOK'
      BY <1>1, <1>4, <2>3 DEF CheckPending, ExportTypeOK
    <2>5. \A v \in Workers : TaskOK(v)'
      <3>1. rows' = rows /\ task[w].build \in Builds
        BY <1>4 DEF CheckPending, ExportInv, TaskOK
      <3>2. QED
        BY <2>3, <3>1 DEF ExportInv, TaskOK
    <2>6. QED
      BY <1>4, <2>4, <2>5 DEF CheckPending, ExportInv, LinkHasRow
  <1>5. ASSUME NEW b \in Builds, Deliver(w, b)
        PROVE  ExportInv'
    <2>1. builds[b].left - 1 \in 0..MaxReceives
      <3>1. builds[b].left \in 0..MaxReceives /\ builds[b].left > 0
        BY <1>1, <1>5 DEF Deliver, Deliverable, ExportTypeOK, Build
      <3>2. QED
        BY <3>1, ExportAssumption
    <2>2. builds' \in [Builds -> Build]
      BY <1>1, <1>5, <2>1 DEF Deliver, ExportTypeOK, Build
    <2>3. /\ [NoTask EXCEPT !.step = "check", !.build = b] \in TaskState
          /\ [NoTask EXCEPT !.step = "check", !.build = b].step = "check"
          /\ [NoTask EXCEPT !.step = "check", !.build = b].build = b
      BY DEF NoTask, TaskState
    <2>4. Advance(w, [NoTask EXCEPT !.step = "check", !.build = b])
      BY <1>5 DEF Deliver, Advance
    <2>5. QED
      BY <1>1, <1>2, <1>5, <2>2, <2>3, <2>4 DEF Deliver, ExportInv, ExportTypeOK, TaskOK, LinkHasRow
  <1>6. ASSUME NEW e \in Exports, PersistExport(w, e)
        PROVE  ExportInv'
    <2>1. /\ [task[w] EXCEPT !.step = "mail", !.row = e] \in TaskState
          /\ [task[w] EXCEPT !.step = "mail", !.row = e].step = "mail"
          /\ [task[w] EXCEPT !.step = "mail", !.row = e].row = e
          /\ [task[w] EXCEPT !.step = "mail", !.row = e].build = task[w].build
      BY <1>1 DEF TaskState
    <2>2. /\ rows' \in [Exports -> {"absent", "pending", "used", "expired"}]
          /\ rows'[e] = "pending"
          /\ \A d \in Exports : rows[d] # "absent" => rows'[d] # "absent"
      BY <1>1, <1>6 DEF PersistExport, ExportTypeOK
    <2>3. task[w].build \in Builds
      BY <1>6 DEF PersistExport, ExportInv, TaskOK
    <2>4. /\ task' \in [Workers -> TaskState]
          /\ task'[w].step = "mail" /\ task'[w].row = e
          /\ task'[w].build = task[w].build
          /\ \A v \in Workers : v # w => task'[v] = task[v]
      BY <1>2, <1>6, <2>1 DEF PersistExport
    <2>5. ExportTypeOK'
      BY <1>1, <1>6, <2>2, <2>4 DEF PersistExport, ExportTypeOK
    <2>6. \A v \in Workers : TaskOK(v)'
      BY <2>2, <2>3, <2>4 DEF ExportInv, TaskOK
    <2>7. QED
      BY <1>6, <2>2, <2>5, <2>6 DEF PersistExport, ExportInv, LinkHasRow
  <1>7. CASE EnqueueLink(w)
    <2>1. /\ [task[w] EXCEPT !.step = "done", !.row = None] \in TaskState
          /\ [task[w] EXCEPT !.step = "done", !.row = None].step = "done"
          /\ [task[w] EXCEPT !.step = "done", !.row = None].build = task[w].build
      BY <1>1 DEF TaskState
    <2>2. links' \in [Exports -> {"none", "queued", "sent", "dead"}]
      BY <1>1, <1>7 DEF EnqueueLink, ExportTypeOK
    <2>3. LinkHasRow'
      BY <1>1, <1>7 DEF EnqueueLink, ExportTypeOK, ExportInv, TaskOK, LinkHasRow
    <2>4. task[w].build \in Builds
      BY <1>7 DEF EnqueueLink, ExportInv, TaskOK
    <2>5. /\ task' \in [Workers -> TaskState]
          /\ task'[w].step = "done" /\ task'[w].build = task[w].build
          /\ \A v \in Workers : v # w => task'[v] = task[v]
      BY <1>2, <1>7, <2>1 DEF EnqueueLink
    <2>6. ExportTypeOK'
      BY <1>1, <1>7, <2>2, <2>5 DEF EnqueueLink, ExportTypeOK
    <2>7. \A v \in Workers : TaskOK(v)'
      BY <1>7, <2>4, <2>5 DEF EnqueueLink, ExportInv, TaskOK
    <2>8. QED
      BY <1>7, <2>3, <2>6, <2>7 DEF EnqueueLink, ExportInv
  <1>8. CASE DeleteMessage(w) \/ Abandon(w)
    <2>1. task[w].step # "poll" => task[w].build \in Builds
      BY DEF ExportInv, TaskOK
    <2>2. builds' \in [Builds -> Build]
      BY <1>1, <1>8, <2>1 DEF DeleteMessage, Abandon, ExportTypeOK, Build
    <2>3. NoTask.step = "poll"
      BY DEF NoTask
    <2>4. QED
      BY <1>1, <1>2, <1>3, <1>8, <2>2, <2>3
      DEF DeleteMessage, Abandon, ExportInv, ExportTypeOK, TaskOK, LinkHasRow
  <1>9. QED
    BY <1>4, <1>5, <1>6, <1>7, <1>8

LEMMA NextExportInv == ExportInv /\ [ExportNext]_exportVars => ExportInv'
  BY ApiSteps, QueueSteps, WorkerSteps DEF ExportNext

(* Every reachable state is well typed.                                    *)
THEOREM ExportTypeCorrect == ExportSpec => []ExportTypeOK
  <1>1. ExportInv => ExportTypeOK
    BY DEF ExportInv
  <1>2. QED
    BY <1>1, InitExportInv, NextExportInv, PTL DEF ExportSpec

(* A mailed link never points at a row that was not committed, for any     *)
(* number of workers.                                                      *)
THEOREM LinkHasRowHolds == ExportSpec => []LinkHasRow
  <1>1. ExportInv => LinkHasRow
    BY DEF ExportInv
  <1>2. QED
    BY <1>1, InitExportInv, NextExportInv, PTL DEF ExportSpec

-----------------------------------------------------------------------------
(* With one worker, between the task's check and its INSERT nobody else    *)
(* inserts: while it builds, no export is pending.                         *)

OneWorkerInv ==
    /\ ExportTypeOK
    /\ OneActiveExport
    /\ \A w \in Workers : task[w].step = "build" => NonePending

LEMMA NextOneWorker ==
  ASSUME \A v, w \in Workers : v = w, OneWorkerInv, ExportInv', [ExportNext]_exportVars
  PROVE  OneWorkerInv'
  <1>1. ExportTypeOK /\ ExportTypeOK'
    BY DEF OneWorkerInv, ExportInv
  <1>2. ASSUME Pending' \subseteq Pending,
               \A w \in Workers : task'[w].step = "build" =>
                  task[w].step = "build" \/ NonePending
        PROVE  OneWorkerInv'
    BY <1>1, <1>2 DEF OneWorkerInv, OneActiveExport, NonePending
  <1>3. CASE rows' = rows /\ task' = task
    BY <1>2, <1>3 DEF Pending
  <1>4. ASSUME NEW r \in Requests, DownloadCommit(r)
        PROVE  OneWorkerInv'
    BY <1>1, <1>2, <1>4 DEF DownloadCommit, Pending, ExportTypeOK
  <1>5. ASSUME NEW e \in Exports, Expire(e)
        PROVE  OneWorkerInv'
    BY <1>1, <1>2, <1>5 DEF Expire, Pending, ExportTypeOK
  <1>6. ASSUME NEW w \in Workers, CheckPending(w)
        PROVE  OneWorkerInv'
    <2>1. \A v \in Workers : task'[v].step = "build" => NonePending
      BY <1>1, <1>6 DEF CheckPending, Advance, ExportTypeOK, TaskState, OneWorkerInv
    <2>2. QED
      BY <1>2, <1>6, <2>1 DEF CheckPending, Pending
  <1>7. ASSUME NEW w \in Workers, NEW e \in Exports, PersistExport(w, e)
        PROVE  OneWorkerInv'
    <2>1. Pending = {}
      BY <1>7 DEF PersistExport, OneWorkerInv, NonePending
    <2>2. Pending' = {e}
      BY <1>1, <1>7, <2>1 DEF PersistExport, Pending, ExportTypeOK
    <2>3. \A v \in Workers : task'[v].step = "mail"
      BY <1>1, <1>7 DEF PersistExport, Advance, ExportTypeOK, TaskState
    <2>4. QED
      BY <1>1, <2>2, <2>3 DEF OneWorkerInv, OneActiveExport
  <1>8. ASSUME NEW w \in Workers,
               \/ EnqueueLink(w) \/ DeleteMessage(w) \/ Abandon(w)
               \/ \E b \in Builds : Deliver(w, b)
        PROVE  OneWorkerInv'
    <2>1. PICK state : Advance(w, state) /\ state.step \in {"done", "poll", "check"}
      <3>1. task[w] \in TaskState
        BY <1>1 DEF ExportTypeOK
      <3>2. [task[w] EXCEPT !.step = "done", !.row = None].step = "done"
        BY <3>1 DEF TaskState
      <3>3. CASE EnqueueLink(w)
        BY <3>2, <3>3 DEF EnqueueLink
      <3>4. CASE DeleteMessage(w) \/ Abandon(w)
        BY <3>4 DEF DeleteMessage, Abandon, NoTask
      <3>5. ASSUME NEW b \in Builds, Deliver(w, b)
            PROVE  Advance(w, [NoTask EXCEPT !.step = "check", !.build = b])
        BY <3>5 DEF Deliver, Advance
      <3>6. \A b : [NoTask EXCEPT !.step = "check", !.build = b].step = "check"
        BY DEF NoTask
      <3>7. QED
        BY <1>8, <3>3, <3>4, <3>5, <3>6
    <2>2. \A v \in Workers : task'[v].step # "build"
      BY <1>1, <2>1 DEF Advance, ExportTypeOK
    <2>3. rows' = rows
      BY <1>8 DEF EnqueueLink, DeleteMessage, Abandon, Deliver
    <2>4. QED
      BY <1>2, <2>2, <2>3 DEF Pending
  <1>9. CASE \/ UNCHANGED exportVars
             \/ \E r \in Requests :
                   \/ RequestExport(r) \/ AbortRequest(r)
                   \/ \E b \in Builds : EnqueueBuild(r, b)
                   \/ \E e \in Exports : DownloadRead(r, e)
             \/ \E b \in Builds : BuildReappears(b)
             \/ \E e \in Exports : DeliverLink(e)
    BY <1>3, <1>9
    DEF exportVars, RequestExport, AbortRequest, EnqueueBuild, DownloadRead, BuildReappears,
        DeliverLink
  <1>10. QED
    BY <1>4, <1>5, <1>6, <1>7, <1>8, <1>9 DEF ExportNext

(* A single worker never commits a second active export, whatever the      *)
(* queue delivers again and however the worker dies in between.            *)
THEOREM OneActiveExportHolds ==
  ASSUME \A v, w \in Workers : v = w
  PROVE  ExportSpec => []OneActiveExport
  <1>1. ExportInit => OneWorkerInv
    BY InitExportInv
    DEF ExportInit, OneWorkerInv, ExportInv, OneActiveExport, Pending, NoTask
  <1>2. OneWorkerInv /\ ExportInv' /\ [ExportNext]_exportVars => OneWorkerInv'
    BY NextOneWorker
  <1>3. OneWorkerInv => OneActiveExport
    BY DEF OneWorkerInv
  <1>4. QED
    BY <1>1, <1>2, <1>3, InitExportInv, NextExportInv, PTL DEF ExportSpec

=============================================================================
