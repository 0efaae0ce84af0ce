------------------------------ MODULE TaskQueue ------------------------------
(***************************************************************************)
(* The task queue between the API and the workers: an SQS queue with a     *)
(* visibility timeout and a dead-letter queue (external, modelled from how *)
(* the code uses it), and the polling loop of the worker processes.        *)
(*                                                                         *)
(* A worker receives a batch and runs its messages one after the other.    *)
(* The visibility timeout of the whole batch starts at the receive, so a   *)
(* message can become visible again while it runs, or before it is begun.  *)
(* A message is deleted only after its task has returned; a task that      *)
(* raises leaves its message to be received again.                         *)
(***************************************************************************)
EXTENDS WorkerPool, Naturals, FiniteSets

CONSTANTS
    Messages,      \* messages ever sent: a bound
    UnknownTasks,  \* those whose task name no entry of TASK_REGISTRY has
    BatchSize      \* _MAX_MESSAGES

ASSUME ConstantsAssumption ==
    /\ UnknownTasks \subseteq Messages
    /\ BatchSize \in Nat \ {0}
    /\ MaxReceives \in Nat \ {0}
    /\ IsFiniteSet(Workers)
    /\ None \notin Messages \cup Workers

VARIABLES
    queue,   \* of each message: its state, its receive count, its last receiver
    worker,  \* of each worker: the rest of its batch, the message it works on
    runs     \* how often the task of a message has taken effect

qvars == <<queue, worker, runs>>

QueueEntry ==
    [state : {"unsent", "visible", "inflight", "deleted", "dead"},
     receives : 0..MaxReceives, holder : Workers \cup {None}]

WorkerState ==
    [batch : SUBSET Messages, current : Messages \cup {None},
     step : {"poll", "running", "returned"}]

Polling == [batch |-> {}, current |-> None, step |-> "poll"]

TypeOK ==
    /\ queue \in [Messages -> QueueEntry]
    /\ worker \in [Workers -> WorkerState]
    /\ runs \in [Messages -> 0..MaxReceives]

Init ==
    /\ queue = [m \in Messages |-> [state |-> "unsent", receives |-> 0, holder |-> None]]
    /\ worker = [w \in Workers |-> Polling]
    /\ runs = [m \in Messages |-> 0]

-----------------------------------------------------------------------------
(* The queue.                                                              *)

(* sqs.send_message, by a hook that runs after the producer's commit.      *)
Send(m) ==
    /\ queue[m].state = "unsent"
    /\ queue' = [queue EXCEPT ![m].state = "visible"]
    /\ UNCHANGED <<worker, runs>>

VisibilityExpires(m) ==
    /\ queue[m].state = "inflight"
    /\ queue' = [queue EXCEPT ![m].state = "visible"]
    /\ UNCHANGED <<worker, runs>>

(* A message received MaxReceives times is not handed out again ...        *)
MayReceive(m) == queue[m].state = "visible" /\ queue[m].receives < MaxReceives

Exhausted(m) == queue[m].state = "visible" /\ queue[m].receives = MaxReceives

(* ... but moved to the dead-letter queue.                                 *)
DeadLetter(m) ==
    /\ Exhausted(m)
    /\ queue' = [queue EXCEPT ![m].state = "dead"]
    /\ UNCHANGED <<worker, runs>>

-----------------------------------------------------------------------------
(* The worker.                                                             *)

Receive(w) ==
    /\ worker[w] = Polling
    /\ \E batch \in SUBSET {m \in Messages : MayReceive(m)} :
          /\ batch # {}
          /\ Cardinality(batch) <= BatchSize
          /\ queue' = [m \in Messages |->
                         IF m \in batch
                         THEN [state |-> "inflight", receives |-> queue[m].receives + 1,
                               holder |-> w]
                         ELSE queue[m]]
          /\ worker' = [worker EXCEPT ![w].batch = batch]
    /\ UNCHANGED runs

(* Mutant: the message stays in the batch when it is begun.                *)
BeginKeeping(w, m) ==
    /\ worker[w].step = "poll"
    /\ m \in worker[w].batch
    /\ worker' = [worker EXCEPT ![w].current = m, ![w].step = "running"]
    /\ UNCHANGED <<queue, runs>>

(* The next message of the batch: _process_message is entered.             *)
Begin(w, m) ==
    /\ worker[w].step = "poll"
    /\ m \in worker[w].batch
    /\ worker' = [worker EXCEPT ![w] = [batch |-> @.batch \ {m}, current |-> m,
                                        step |-> "running"]]
    /\ UNCHANGED <<queue, runs>>

(* The task does its work; an unknown task name is only logged.            *)
Work(w) ==
    LET m == worker[w].current IN
    /\ worker[w].step = "running"
    /\ worker' = [worker EXCEPT ![w].step = "returned"]
    /\ runs' = IF m \in UnknownTasks THEN runs ELSE [runs EXCEPT ![m] = @ + 1]
    /\ UNCHANGED queue

(* Mutant: the message is deleted whether or not its task succeeded.       *)
DeleteAlways(w) == worker[w].step \in {"running", "returned"}

MayDelete(w) == worker[w].step = "returned"

(* sqs.delete_message: the receipt of an earlier receive no longer deletes. *)
Delete(w) ==
    LET m == worker[w].current IN
    /\ MayDelete(w)
    /\ queue' = IF queue[m].holder = w /\ queue[m].state \in {"visible", "inflight"}
                THEN [queue EXCEPT ![m].state = "deleted"] ELSE queue
    /\ worker' = [worker EXCEPT ![w].current = None, ![w].step = "poll"]
    /\ UNCHANGED runs

(* Mutant: a message whose task failed is sent anew instead of being left. *)
FailResending(w) ==
    /\ worker[w].step \in {"running", "returned"}
    /\ worker' = [worker EXCEPT ![w].current = None, ![w].step = "poll"]
    /\ queue' = [queue EXCEPT ![worker[w].current].state = "visible",
                             ![worker[w].current].receives = 0]
    /\ UNCHANGED runs

(* The task raises, before its work is done or after it (the quota counter *)
(* of a sent e-mail), or delete_message does: the message is not deleted.  *)
Fail(w) ==
    /\ worker[w].step \in {"running", "returned"}
    /\ worker' = [worker EXCEPT ![w].current = None, ![w].step = "poll"]
    /\ UNCHANGED <<queue, runs>>

(* The process dies and is started again.                                  *)
Crash(w) ==
    /\ worker[w] # Polling
    /\ worker' = [worker EXCEPT ![w] = Polling]
    /\ UNCHANGED <<queue, runs>>

-----------------------------------------------------------------------------
WorkerStep(w) ==
    \/ Receive(w) \/ Work(w) \/ Delete(w) \/ Fail(w)
    \/ \E m \in Messages : Begin(w, m)

QueueStep(m) == VisibilityExpires(m) \/ DeadLetter(m)

Next ==
    \/ \E w \in Workers : WorkerStep(w) \/ Crash(w)
    \/ \E m \in Messages : Send(m) \/ QueueStep(m)

(* A worker keeps polling and each task returns or raises; SQS lets every  *)
(* timeout expire.  Sending and crashing are nobody's duty.                *)
Fairness ==
    /\ \A w \in Workers : WF_qvars(WorkerStep(w))
    /\ \A m \in Messages : WF_qvars(QueueStep(m))

Spec == Init /\ [][Next]_qvars /\ Fairness

-----------------------------------------------------------------------------
(* A message leaves the queue only when its task has run to completion:    *)
(* no crash, failure or late deletion loses a task.                        *)
NoTaskLost ==
    \A m \in Messages :
        queue[m].state = "deleted" => runs[m] > 0 \/ m \in UnknownTasks

(* A task takes effect at most once per time its message was received, so  *)
(* however workers, timeouts and crashes interleave there are at most      *)
(* MaxReceives duplicates of an e-mail.                                    *)
DuplicatesBounded ==
    \A m \in Messages : runs[m] <= queue[m].receives /\ queue[m].receives <= MaxReceives

(* Every message that was sent is deleted or ends in the dead-letter queue *)
(* although workers crash and tasks fail: none circulates for ever.        *)
EveryMessageSettles ==
    \A m \in Messages :
        queue[m].state = "visible" ~> queue[m].state \in {"deleted", "dead"}

=============================================================================
