---------------------------- MODULE VectorOutbox ----------------------------
(* The durable outbox of app-cloud for one file: its row in                  *)
(* cloud_vector_tasks (repo/vector_task.go), the status of the file          *)
(* (cloud_files.vector_status), the worker pool and the janitor              *)
(* (service/workerpool.go) and the pipeline (Trigger, Reprocess, RunSync,    *)
(* ReconcileStaleProcessing of service/util.go). Workers of any number of    *)
(* replicas run side by side; a replica may die. The tier of a task orders   *)
(* it among other files and is left out.                                     *)
EXTENDS Integers, FiniteSets

CONSTANTS PoolWorker,
          MaxTaskAttempts,
          MaxTriggers,     \* bound on requests of the user
          MaxReplicaDeaths \* bound on deaths

ASSUME OutboxAssumption ==
  /\ IsFiniteSet(PoolWorker)
  /\ MaxTaskAttempts \in Nat \ {0} /\ MaxTriggers \in Nat /\ MaxReplicaDeaths \in Nat

VARIABLES
  task,     \* the outbox row: [state, attempts, told, old]
  file,     \* cloud_files.vector_status and whether it was written long ago: [status, old]
  copies,   \* how often the file's chunks are in Milvus
  pool,     \* the step of each worker in execute and RunSync
  asking,   \* a request between ClaimVectorPending and Enqueue
  janitor,  \* the list janitorLoop works off
  poller,   \* a status request between its two writes
  triggers, replicaDeaths

outboxVars == <<task, file, copies, pool, asking, janitor, poller, triggers, replicaDeaths>>

(* told: last_error is StaleReconciledMsg. old: in "processing" for longer   *)
(* than staleProcessingAfter.                                                *)
NoTask == [state |-> "none", attempts |-> 0, told |-> FALSE, old |-> FALSE]
Waiting == {"pending", "processing"}
Settled == {"none", "done", "failed"}
FileIs(s) == file' = [status |-> s, old |-> FALSE]
Steps(w, place) == pool' = [pool EXCEPT ![w] = place]

OutboxInit ==
  /\ task = NoTask
  /\ file = [status |-> "none", old |-> FALSE]
  /\ copies = 0
  /\ pool = [w \in PoolWorker |-> "idle"]
  /\ asking = FALSE
  /\ janitor = "none"
  /\ poller = FALSE
  /\ triggers = 0 /\ replicaDeaths = 0

-----------------------------------------------------------------------------
(* The user.                                                                 *)

(* Trigger and Reprocess: ClaimVectorPending, unless a run is on its way.    *)
(* Trigger refuses a file that is done, Reprocess one whose row is younger   *)
(* than the cooldown; every other file passes one of the two.                *)
ClaimVectorPending ==
  /\ triggers < MaxTriggers /\ ~asking
  /\ file.status \notin Waiting
  /\ FileIs("pending")
  /\ asking' = TRUE /\ triggers' = triggers + 1
  /\ UNCHANGED <<task, copies, pool, janitor, poller, replicaDeaths>>

(* Enqueue: inserted, or reset unless a worker owns it.                      *)
EnqueueResets == [NoTask EXCEPT !.state = "pending"]
EnqueueTask ==
  /\ asking
  /\ task' = IF task.state = "processing" THEN [task EXCEPT !.told = FALSE] ELSE EnqueueResets
  /\ asking' = FALSE
  /\ UNCHANGED <<file, copies, pool, janitor, poller, triggers, replicaDeaths>>
EnqueueFails ==
  /\ asking
  /\ FileIs("failed")
  /\ asking' = FALSE
  /\ UNCHANGED <<task, copies, pool, janitor, poller, triggers, replicaDeaths>>

-----------------------------------------------------------------------------
(* A worker.                                                                 *)

(* ClaimNext, under a row lock other claimers skip.                          *)
ClaimNext(w) ==
  /\ pool[w] = "idle" /\ task.state = "pending"
  /\ task' = [task EXCEPT !.state = "processing", !.attempts = @ + 1, !.old = FALSE]
  /\ Steps(w, "begin")
  /\ UNCHANGED <<file, copies, asking, janitor, poller, triggers, replicaDeaths>>

(* RunSync: the file goes to processing, or is not vectorizable at all.      *)
Begin(w) ==
  /\ pool[w] = "begin"
  /\ \/ FileIs("processing") /\ Steps(w, "delete")
     \/ FileIs("not_supported") /\ Steps(w, "succeeded")
  /\ UNCHANGED <<task, copies, asking, janitor, poller, triggers, replicaDeaths>>

(* Vectorize: the old vectors are deleted, the new ones written.             *)
DeleteOld(w) ==
  /\ pool[w] = "delete"
  /\ copies' = 0
  /\ Steps(w, "write")
  /\ UNCHANGED <<task, file, asking, janitor, poller, triggers, replicaDeaths>>
WriteNew(w) ==
  /\ pool[w] = "write"
  /\ copies' = copies + 1
  /\ Steps(w, "check")
  /\ UNCHANGED <<task, file, asking, janitor, poller, triggers, replicaDeaths>>

(* Vectorize fails: for good (not_supported), or for now.                    *)
VectorizeFails(w) ==
  /\ pool[w] = "write"
  /\ \/ FileIs("not_supported") /\ Steps(w, "succeeded")
     \/ FileIs("failed") /\ Steps(w, "failed")
  /\ UNCHANGED <<task, copies, asking, janitor, poller, triggers, replicaDeaths>>

(* The consistency check: the count in Milvus, a rollback when it differs.   *)
CheckCount(w) ==
  /\ pool[w] = "check"
  /\ IF copies = 1
     THEN Steps(w, "mark") /\ UNCHANGED <<copies, file>>
     ELSE copies' = 0 /\ FileIs("failed") /\ Steps(w, "failed")
  /\ UNCHANGED <<task, asking, janitor, poller, triggers, replicaDeaths>>
MarkDone(w) ==
  /\ pool[w] = "mark"
  /\ FileIs("done")
  /\ Steps(w, "succeeded")
  /\ UNCHANGED <<task, copies, asking, janitor, poller, triggers, replicaDeaths>>

(* execute: Finish by the row's id, whatever the row has become.             *)
FinishTask(w) ==
  /\ pool[w] \in {"succeeded", "failed"}
  /\ task' = [task EXCEPT !.state = IF pool[w] = "failed" THEN "failed" ELSE "done",
                          !.told = FALSE, !.old = FALSE]
  /\ Steps(w, "idle")
  /\ UNCHANGED <<file, copies, asking, janitor, poller, triggers, replicaDeaths>>

(* A panic in RunSync: the row fails, the file stays as it is.               *)
PanicsTask(w) ==
  /\ pool[w] \in {"delete", "write", "check"}
  /\ Steps(w, "failed")
  /\ UNCHANGED <<task, file, copies, asking, janitor, poller, triggers, replicaDeaths>>

-----------------------------------------------------------------------------
(* The janitor: it reads the ids, asks for the tier of each owner, and       *)
(* requeues them, whatever the rows have become meanwhile.                   *)

RequeueStaleWithinCap ==
  task.state = "processing" /\ task.old /\ task.attempts < MaxTaskAttempts
RequeueStaleCandidates == task.state = "processing" /\ task.old
RequeueFailedCandidates ==
  task.state = "failed" /\ task.attempts \in 1 .. MaxTaskAttempts - 1 /\ ~task.told
JanitorLists ==
  /\ janitor = "none"
  /\ \/ RequeueStaleCandidates /\ janitor' = "stale"
     \/ RequeueFailedCandidates /\ janitor' = "failed"
  /\ UNCHANGED <<task, file, copies, pool, asking, poller, triggers, replicaDeaths>>

Requeued == [task EXCEPT !.state = "pending", !.old = FALSE]
RequeueIDs ==
  /\ janitor = "stale"
  /\ task' = Requeued
  /\ janitor' = "none"
  /\ UNCHANGED <<file, copies, pool, asking, poller, triggers, replicaDeaths>>
RequeueOneWithFiles ==
  /\ janitor = "failed"
  /\ task' = Requeued
  /\ IF file.status = "failed" THEN FileIs("pending") ELSE UNCHANGED file
  /\ janitor' = "none"
  /\ UNCHANGED <<copies, pool, asking, poller, triggers, replicaDeaths>>

-----------------------------------------------------------------------------
(* The status request.                                                       *)

(* ReconcileStaleProcessing: the file first, then the row of the outbox.     *)
ReconcileFile ==
  /\ ~poller
  /\ file.status = "processing" /\ file.old
  /\ FileIs("failed")
  /\ poller' = TRUE
  /\ UNCHANGED <<task, copies, pool, asking, janitor, triggers, replicaDeaths>>
FinishByUploadUUID ==
  /\ poller
  /\ task' = IF task.state = "none" THEN task
             ELSE [task EXCEPT !.state = "failed", !.told = TRUE, !.old = FALSE]
  /\ poller' = FALSE
  /\ UNCHANGED <<file, copies, pool, asking, janitor, triggers, replicaDeaths>>

(* Read-time reconcile: done in the database, nothing in Milvus.             *)
ReconcileDone ==
  /\ ~poller /\ file.status = "done" /\ copies = 0
  /\ FileIs("failed")
  /\ UNCHANGED <<task, copies, pool, asking, janitor, poller, triggers, replicaDeaths>>

-----------------------------------------------------------------------------
(* Milvus loses the collection; ten minutes pass, which no run outlasts      *)
(* (pipelineTimeout is five); the replicas die.                              *)
LoseVectors ==
  /\ copies > 0 /\ file.status = "done" /\ \A w \in PoolWorker : pool[w] = "idle"
  /\ copies' = 0
  /\ UNCHANGED <<task, file, pool, asking, janitor, poller, triggers, replicaDeaths>>
TenMinutesPass ==
  /\ \A w \in PoolWorker : pool[w] = "idle"
  /\ \/ task.state = "processing" /\ ~task.old
     \/ file.status = "processing" /\ ~file.old
  /\ task' = [task EXCEPT !.old = task.state = "processing"]
  /\ file' = [file EXCEPT !.old = file.status = "processing"]
  /\ UNCHANGED <<copies, pool, asking, janitor, poller, triggers, replicaDeaths>>
ReplicasDie ==
  /\ replicaDeaths < MaxReplicaDeaths
  /\ pool' = [w \in PoolWorker |-> "idle"]
  /\ asking' = FALSE /\ janitor' = "none" /\ poller' = FALSE
  /\ replicaDeaths' = replicaDeaths + 1
  /\ UNCHANGED <<task, file, copies, triggers>>

-----------------------------------------------------------------------------
Executes(w) ==
  \/ ClaimNext(w) \/ Begin(w) \/ DeleteOld(w) \/ WriteNew(w) \/ VectorizeFails(w)
  \/ CheckCount(w) \/ MarkDone(w) \/ FinishTask(w) \/ PanicsTask(w)
JanitorStep == JanitorLists \/ RequeueIDs \/ RequeueOneWithFiles

OutboxNext ==
  \/ ClaimVectorPending \/ EnqueueTask \/ EnqueueFails
  \/ \E w \in PoolWorker : Executes(w)
  \/ JanitorStep
  \/ ReconcileFile \/ FinishByUploadUUID \/ ReconcileDone
  \/ LoseVectors \/ TenMinutesPass \/ ReplicasDie

OutboxSpec == OutboxInit /\ [][OutboxNext]_outboxVars

(* Workers poll every two seconds, the janitor every minute, time passes.    *)
(* The user need not ask again, nor for the status.                          *)
OutboxFairness ==
  /\ \A w \in PoolWorker : WF_outboxVars(Executes(w))
  /\ WF_outboxVars(JanitorStep) /\ WF_outboxVars(TenMinutesPass)
OutboxFairSpec == OutboxSpec /\ OutboxFairness

-----------------------------------------------------------------------------
(* Types; a row that waits or is worked on was enqueued; the counter of      *)
(* attempts starts from a claim.                                             *)
OutboxTypeOK ==
  /\ task \in [state : Waiting \cup Settled, attempts : Nat, told : BOOLEAN, old : BOOLEAN]
  /\ file \in [status : {"none", "pending", "processing", "done", "failed", "not_supported"},
               old : BOOLEAN]
  /\ copies \in 0 .. Cardinality(PoolWorker)
  /\ pool \in [PoolWorker -> {"idle", "begin", "delete", "write", "check", "mark",
                              "succeeded", "failed"}]
  /\ asking \in BOOLEAN /\ poller \in BOOLEAN
  /\ janitor \in {"none", "stale", "failed"}
  /\ triggers \in 0 .. MaxTriggers /\ replicaDeaths \in 0 .. MaxReplicaDeaths
  /\ task.state = "processing" => task.attempts > 0

(* "A task must never sit in processing while nobody holds it" (execute): a  *)
(* row in processing has a worker, unless a replica died.                    *)
ProcessingIsHeld ==
  task.state = "processing" /\ replicaDeaths = 0 => \E w \in PoolWorker : pool[w] # "idle"

(* A task leaves the queue and the hands of its worker again: also a crash   *)
(* or a late answer leaves no row in pending or processing for ever.         *)
TaskSettles == []<>(task.state \in Settled)

(* Retries come to an end: after the user's last request and the last death  *)
(* nothing is requeued for ever, however often the file fails.               *)
RetriesEnd == <>[](task.state \in Settled)

(* "Instead of being left in a pending limbo" (EnqueueTask): a file the user *)
(* sees pending has a row that waits for a worker or is in the hands of one. *)
PendingIsQueued == file.status = "pending" /\ ~asking => task.state \in Waiting

=============================================================================
