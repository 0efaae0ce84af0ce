----------------------------- MODULE WorkerPool -----------------------------
(***************************************************************************)
(* The worker processes (services/worker) and how often the queue hands    *)
(* one message to them: what the queue's polling loop (TaskQueue) and the  *)
(* task that builds an export (DataExport) share.                          *)
(***************************************************************************)

CONSTANTS
    Workers,      \* worker processes
    MaxReceives,  \* maxReceiveCount of the queue's redrive policy
    None          \* the null value

=============================================================================
