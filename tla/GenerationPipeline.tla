------------------------- MODULE GenerationPipeline -------------------------
(***************************************************************************)
(* The life of a generation request across the API process, PostgreSQL,    *)
(* the object store, JetStream and the workers.                            *)
(*                                                                         *)
(* The API uploads the source file, commits the row and publishes one      *)
(* event (api/generation/service.py).  The broker delivers the event, and  *)
(* delivers it again when it is NAKed or its ack_wait runs out; every      *)
(* delivery is one handler task in some worker (worker/dispatcher.py).     *)
(* Tasks, the API request and the user's DELETE interleave freely: the     *)
(* only lock is the conditional UPDATE of worker/persistence.py.           *)
(*                                                                         *)
(* A generation stands for its row, its object and its message, since each *)
(* has exactly one of them.  What can go wrong in the environment is the   *)
(* parameter Faults, so a theorem says which faults it tolerates.          *)
(***************************************************************************)
EXTENDS Naturals, FiniteSets

CONSTANTS
  Gens,                     \* generations
  BadEvents,                \* those whose event cannot be decoded or has no id
  MaxSolverCrashDeliveries, \* dispatcher._MAX_SOLVER_CRASH_DELIVERIES
  MaxDeliveries,            \* dispatcher._MAX_DELIVERIES
  MaxAckPending,            \* max_ack_pending of the durable consumer
  Faults                    \* what the environment may do in this run

FaultKinds ==
  { "api_crash",       \* the API process stops between two steps of a request
    "publish_error",   \* the event was not stored and js.publish raises
    "publish_timeout", \* the event is stored, now or later, and js.publish raises
    "db_error",        \* a local database call raises and nothing is committed
    "lost_commit",     \* a local commit takes effect and raises all the same
    "crm_error",       \* the CRM database call or commit raises
    "storage_error",   \* a retryable storage error (5xx, transport)
    "storage_denied",  \* any other storage error (a 403, say)
    "delete_error",    \* storage.delete fails: it logs and returns
    "bad_data",        \* the input does not parse, is rejected or is too large
    "algorithm_error", \* the algorithm raises
    "solver_crash",    \* a solver process dies and breaks the pool
    "worker_stop",     \* the worker dies or cancels the task (shutdown)
    "nats_loss",       \* acks, NAKs and in-progress acks may be lost
    "no_count" }       \* the delivery count of a message cannot be read

ASSUME PipelineAssumption ==
  /\ BadEvents \subseteq Gens
  /\ MaxDeliveries \in Nat \ {0}
  /\ MaxSolverCrashDeliveries \in 1 .. (MaxDeliveries - 1)
  /\ MaxAckPending \in Nat \ {0}
  /\ Faults \subseteq FaultKinds

MaxDeliver == MaxDeliveries + 1
Deliveries == 1 .. MaxDeliver

VARIABLES
  row,        \* status of the generation row
  results,    \* result trees committed under the row
  source,     \* where the input comes from
  bucket,     \* generations whose uploaded object is in the bucket
  api,        \* where the POST request stands
  msg,        \* the message, as the broker sees it
  delivered,  \* num_delivered of the message
  task,       \* where the handler task of each delivery stands
  key,        \* storage key that task deletes after its ack, or "None"
  crashes     \* solves of the generation that ended in a solver crash

dbVars     == <<row, results, source>>
brokerVars == <<msg, delivered>>
taskVars   == <<task, key, crashes>>
vars       == <<row, results, source, bucket, api, msg, delivered, task, key, crashes>>

Statuses    == {"absent", "PENDING", "SUCCESS", "FAILED", "deleted"}
ApiSteps    == {"idle", "commit", "publish", "mark", "cleanup", "over"}
ActiveApi   == {"commit", "publish", "mark", "cleanup"}
MsgStates   == {"none", "delayed", "queued", "pending", "due", "acked", "exhausted"}
\* _process runs inside _in_progress_until_done; the in-progress acks stop
\* right before the handler sends its ack or NAK.
InProgressSteps == {"snapshot", "load", "solve", "save", "fail"}
TaskSteps   == InProgressSteps \cup {"none", "unhandled", "ack", "nak", "delete", "done", "gone"}

TypeOK ==
  /\ row \in [Gens -> Statuses]
  /\ results \in [Gens -> Nat]
  /\ source \in [Gens -> {"none", "FILE", "CRM"}]
  /\ bucket \subseteq Gens
  /\ api \in [Gens -> ApiSteps]
  /\ msg \in [Gens -> MsgStates]
  /\ delivered \in [Gens -> 0 .. MaxDeliver]
  /\ task \in [Gens -> [Deliveries -> TaskSteps]]
  /\ key \in [Gens -> [Deliveries -> {"None", "key"}]]
  /\ crashes \in [Gens -> Nat]

\* A foreign event is in the stream from the start; nothing else exists yet.
Init ==
  /\ row = [g \in Gens |-> "absent"]
  /\ results = [g \in Gens |-> 0]
  /\ source = [g \in Gens |-> "none"]
  /\ bucket = {}
  /\ api = [g \in Gens |-> IF g \in BadEvents THEN "over" ELSE "idle"]
  /\ msg = [g \in Gens |-> IF g \in BadEvents THEN "queued" ELSE "none"]
  /\ delivered = [g \in Gens |-> 0]
  /\ task = [g \in Gens |-> [n \in Deliveries |-> "none"]]
  /\ key = [g \in Gens |-> [n \in Deliveries |-> "None"]]
  /\ crashes = [g \in Gens |-> 0]

May(fault) == fault \in Faults

-----------------------------------------------------------------------------
(* The API: start_generation, start_generation_from_crm, delete_generation. *)

GoApi(g, step) == api' = [api EXCEPT ![g] = step]

\* Requests refused by a validation leave no state behind, and are not steps.
\* A put_object that raises may have stored the object.
StartGeneration(g) ==
  /\ api[g] = "idle"
  /\ source' = [source EXCEPT ![g] = "FILE"]
  /\ \/ /\ bucket' = bucket \cup {g}
        /\ GoApi(g, "commit")
     \/ /\ May("storage_error") \/ May("storage_denied")
        /\ bucket' \in {bucket, bucket \cup {g}}
        /\ GoApi(g, "over")
  /\ UNCHANGED <<row, results, brokerVars, taskVars>>

StartGenerationFromCrm(g) ==
  /\ api[g] = "idle"
  /\ source' = [source EXCEPT ![g] = "CRM"]
  /\ GoApi(g, "commit")
  /\ UNCHANGED <<row, results, bucket, brokerVars, taskVars>>

\* Only the file path has an object to remove.
RemoveObjectOr(g) == IF source[g] = "FILE" THEN "cleanup" ELSE "over"

\* create_generation and commit.
CommitRow(g) ==
  /\ api[g] = "commit"
  /\ \/ /\ row' = [row EXCEPT ![g] = "PENDING"]
        /\ GoApi(g, "publish")
     \/ /\ May("db_error")
        /\ UNCHANGED row
        /\ GoApi(g, RemoveObjectOr(g))
     \/ /\ May("lost_commit")
        /\ row' = [row EXCEPT ![g] = "PENDING"]
        /\ GoApi(g, RemoveObjectOr(g))
  /\ UNCHANGED <<results, source, bucket, brokerVars, taskVars>>

\* send_event: one js.publish with a timeout.
Publish(g) ==
  /\ api[g] = "publish"
  /\ \/ /\ msg' = [msg EXCEPT ![g] = "queued"]
        /\ GoApi(g, "over")
     \/ /\ May("publish_error")
        /\ UNCHANGED msg
        /\ GoApi(g, "mark")
     \/ /\ May("publish_timeout")
        /\ \E late \in {"queued", "delayed"} : msg' = [msg EXCEPT ![g] = late]
        /\ GoApi(g, "mark")
  /\ UNCHANGED <<dbVars, bucket, delivered, taskVars>>

\* _mark_failed_to_queue: unlike the worker, it does not look at the status.
\* When it raises, the object is not removed; a row that is deleted between
\* its read and its UPDATE makes it raise.
MarkFailedToQueue(g) ==
  /\ api[g] = "mark"
  /\ \/ /\ row' = [row EXCEPT ![g] = IF @ = "deleted" THEN @ ELSE "FAILED"]
        /\ GoApi(g, RemoveObjectOr(g))
     \/ /\ May("db_error") \/ row[g] = "deleted"
        /\ UNCHANGED row
        /\ GoApi(g, "over")
     \/ /\ May("lost_commit") \/ May("crm_error")
        /\ row[g] # "deleted"
        /\ row' = [row EXCEPT ![g] = "FAILED"]
        /\ GoApi(g, "over")
  /\ UNCHANGED <<results, source, bucket, brokerVars, taskVars>>

\* storage.delete never raises: a failure leaks the object.
DeleteObject(g) ==
  \/ bucket' = bucket \ {g}
  \/ May("delete_error") /\ UNCHANGED bucket

BestEffortDelete(g) ==
  /\ api[g] = "cleanup"
  /\ DeleteObject(g)
  /\ GoApi(g, "over")
  /\ UNCHANGED <<dbVars, brokerVars, taskVars>>

ApiCrash(g) ==
  /\ May("api_crash")
  /\ api[g] \in ActiveApi
  /\ GoApi(g, "over")
  /\ UNCHANGED <<dbVars, bucket, brokerVars, taskVars>>

\* The user's DELETE: the row and, by cascade, its result tree.
DeleteGeneration(g) ==
  /\ row[g] \in {"PENDING", "SUCCESS", "FAILED"}
  /\ row' = [row EXCEPT ![g] = "deleted"]
  /\ results' = [results EXCEPT ![g] = 0]
  /\ UNCHANGED <<source, bucket, api, brokerVars, taskVars>>

-----------------------------------------------------------------------------
(* JetStream (external): a work-queue stream with one durable push consumer *)
(* per algorithm, explicit acks, ack_wait, max_deliver, max_ack_pending.    *)

GoTask(g, n, step) == task' = [task EXCEPT ![g][n] = step]

\* An event that timed out in js.publish reaches the stream after all.
LatePublish(g) ==
  /\ msg[g] = "delayed"
  /\ msg' = [msg EXCEPT ![g] = "queued"]
  /\ UNCHANGED <<dbVars, bucket, api, delivered, taskVars>>

AckPending == {g \in Gens : msg[g] \in {"pending", "due"}}

\* The next delivery starts a handler task: one that cannot decode its event,
\* or finds no id in it, acks at once.
StartDelivery(g) ==
  LET n == delivered[g] + 1 IN
  /\ delivered' = [delivered EXCEPT ![g] = n]
  /\ msg' = [msg EXCEPT ![g] = "pending"]
  /\ GoTask(g, n, IF g \in BadEvents THEN "ack" ELSE "snapshot")
  /\ UNCHANGED <<dbVars, bucket, api, key, crashes>>

\* max_ack_pending holds back new messages only.
Deliver(g) ==
  /\ msg[g] = "queued"
  /\ Cardinality(AckPending) < MaxAckPending
  /\ StartDelivery(g)

Redeliver(g) ==
  /\ msg[g] = "due"
  /\ delivered[g] < MaxDeliver
  /\ StartDelivery(g)

\* Past max_deliver the broker never delivers the message again.
Exhaust(g) ==
  /\ msg[g] = "due"
  /\ delivered[g] = MaxDeliver
  /\ msg' = [msg EXCEPT ![g] = "exhausted"]
  /\ UNCHANGED <<dbVars, bucket, api, delivered, taskVars>>

\* Mutants of HoldsMessage: the heartbeat covers the solve only; the heartbeat
\* of a task that ended with an exception goes on.
HoldsWhileSolving(g) == \E n \in Deliveries : task[g][n] \in {"solve", "ack", "nak"}
HoldsAfterError(g) == \E n \in Deliveries : task[g][n] \notin {"none", "delete", "done"}

\* In-progress acks reset the ack_wait clock of a message, and an ack or NAK
\* follows the last of them at once (module AckWaitClock), so ack_wait runs out
\* only when no task of the message is there, when NATS is lost, or while the
\* catch-all awaits its save_failure ("unhandled"), without a heartbeat.
HoldsMessage(g) ==
  \E n \in Deliveries : task[g][n] \in InProgressSteps \cup {"ack", "nak"}

AckWaitExpires(g) ==
  /\ msg[g] = "pending"
  /\ HoldsMessage(g) => May("nats_loss")
  /\ msg' = [msg EXCEPT ![g] = "due"]
  /\ UNCHANGED <<dbVars, bucket, api, delivered, taskVars>>

\* An in-progress ack also restarts the clock of a message that an earlier
\* delivery has NAKed with a delay.
InProgress(g, n) ==
  /\ task[g][n] \in InProgressSteps
  /\ msg[g] = "due"
  /\ msg' = [msg EXCEPT ![g] = "pending"]
  /\ UNCHANGED <<dbVars, bucket, api, delivered, taskVars>>

-----------------------------------------------------------------------------
(* worker/persistence.py: the conditional UPDATE, then the CRM audit row.   *)
(* Each helper returns, or raises with or without its commit in effect.     *)

\* Mutant of Claim: an UPDATE without the status condition.
ClaimUnconditional(g, status) == row' = [row EXCEPT ![g] = IF @ = "deleted" THEN @ ELSE status]

Claim(g, status) == row' = [row EXCEPT ![g] = IF @ = "PENDING" THEN status ELSE @]

\* Mutant of SaveSuccess: the result tree is written without holding the claim.
SaveSuccessUnclaimed(g) ==
  /\ Claim(g, "SUCCESS")
  /\ results' = [results EXCEPT ![g] = @ + 1]

\* The UPDATE that claims the row and the result tree are one transaction.
SaveSuccess(g) ==
  /\ Claim(g, "SUCCESS")
  /\ results' = [results EXCEPT ![g] = IF row[g] = "PENDING" THEN @ + 1 ELSE @]

SaveFailure(g) ==
  /\ Claim(g, "FAILED")
  /\ UNCHANGED results

\* A helper that does not find a PENDING row returns before any commit.
RaisesAfterCommit(g) == row[g] = "PENDING" /\ (May("lost_commit") \/ May("crm_error"))

RaisesBeforeCommit == May("db_error") /\ UNCHANGED <<row, results>>

-----------------------------------------------------------------------------
(* worker/dispatcher.py: the handler task of delivery n.                    *)

NoCount == 0

\* _delivery_count: the broker's count, or None when it cannot be read.
DeliveryCounts(n) == {n} \cup (IF May("no_count") THEN {NoCount} ELSE {})

SetKey(g, n, k) == key' = [key EXCEPT ![g][n] = k]

HasFile(g) == source[g] = "FILE"

\* file_storage_key of the row.
StorageKey(g) == IF HasFile(g) THEN "key" ELSE "None"

\* Mutants of LimitReached: off by one; no limit.
LimitReachedLate(count) == count > MaxDeliveries
LimitReachedNever(count) == FALSE

\* An unreadable count reaches no limit.
LimitReached(count) == count >= MaxDeliveries

\* _snapshot_generation, and what _process decides from the row and the count.
Snapshot(g, n) ==
  /\ task[g][n] = "snapshot"
  /\ \/ /\ row[g] \in {"absent", "deleted"}
        /\ GoTask(g, n, "ack")
        /\ UNCHANGED key
     \/ /\ row[g] \in {"SUCCESS", "FAILED"}
        /\ GoTask(g, n, "ack")
        /\ SetKey(g, n, StorageKey(g))
     \/ /\ row[g] = "PENDING"
        /\ \E count \in DeliveryCounts(n) :
             GoTask(g, n, IF LimitReached(count) THEN "fail" ELSE "load")
        /\ SetKey(g, n, StorageKey(g))
     \/ /\ May("db_error")
        /\ GoTask(g, n, "unhandled")
        /\ UNCHANGED key
  /\ UNCHANGED <<dbVars, bucket, api, brokerVars, crashes>>

\* _load_from_file: download, then parse.
LoadFromFile(g, n) ==
  \/ /\ g \in bucket
     /\ GoTask(g, n, "solve")
     /\ UNCHANGED key
  \/ /\ g \notin bucket
     /\ GoTask(g, n, "fail")
     /\ SetKey(g, n, "None")
  \/ /\ May("storage_error")
     /\ GoTask(g, n, "nak")
     /\ UNCHANGED key
  \/ /\ May("storage_denied")
     /\ GoTask(g, n, "unhandled")
     /\ UNCHANGED key
  \/ /\ g \in bucket /\ May("bad_data")
     /\ GoTask(g, n, "fail")
     /\ UNCHANGED key

\* _load_from_crm: read, pre-flight and pivot.
LoadFromCrm(g, n) ==
  /\ \/ GoTask(g, n, "solve")
     \/ May("crm_error") /\ GoTask(g, n, "nak")
     \/ May("bad_data") /\ GoTask(g, n, "fail")
  /\ UNCHANGED key

\* Loading, then the checks of size, inputs and implementation.
Load(g, n) ==
  /\ task[g][n] = "load"
  /\ IF HasFile(g) THEN LoadFromFile(g, n) ELSE LoadFromCrm(g, n)
  /\ UNCHANGED <<dbVars, bucket, api, brokerVars, crashes>>

\* Mutant of RetriesCrash: off by one.
RetriesCrashOnceMore(count) == count # NoCount /\ count <= MaxSolverCrashDeliveries

RetriesCrash(count) == count # NoCount /\ count < MaxSolverCrashDeliveries

\* _after_solver_crash: a crash is retried on the early deliveries only.
AfterSolverCrash(g, n) ==
  \E count \in DeliveryCounts(n) :
    GoTask(g, n, IF RetriesCrash(count) THEN "nak" ELSE "fail")

\* _run_algorithm, the wait for a solver slot included.
RunAlgorithm(g, n) ==
  /\ task[g][n] = "solve"
  /\ \/ /\ GoTask(g, n, "save")
        /\ UNCHANGED crashes
     \/ /\ May("algorithm_error")
        /\ GoTask(g, n, "fail")
        /\ UNCHANGED crashes
     \/ /\ May("solver_crash")
        /\ AfterSolverCrash(g, n)
        /\ crashes' = [crashes EXCEPT ![g] = @ + 1]
  /\ UNCHANGED <<dbVars, bucket, api, brokerVars, key>>

\* Anything save_success raises is transient.
PersistSuccess(g, n) ==
  /\ task[g][n] = "save"
  /\ \/ SaveSuccess(g) /\ GoTask(g, n, "ack")
     \/ RaisesAfterCommit(g) /\ SaveSuccess(g) /\ GoTask(g, n, "nak")
     \/ RaisesBeforeCommit /\ GoTask(g, n, "nak")
  /\ UNCHANGED <<source, bucket, api, brokerVars, key, crashes>>

\* save_failure inside _process: what it raises reaches the catch-all.
PersistFailure(g, n) ==
  /\ task[g][n] = "fail"
  /\ \/ SaveFailure(g) /\ GoTask(g, n, "ack")
     \/ RaisesAfterCommit(g) /\ SaveFailure(g) /\ GoTask(g, n, "unhandled")
     \/ RaisesBeforeCommit /\ GoTask(g, n, "unhandled")
  /\ UNCHANGED <<source, bucket, api, brokerVars, key, crashes>>

\* The catch-all of _handle_message: mark FAILED and ack, without a delete.
\* A save_failure that raises here ends the task, its message unanswered.
Unhandled(g, n) ==
  /\ task[g][n] = "unhandled"
  /\ SetKey(g, n, "None")
  /\ \/ SaveFailure(g) /\ GoTask(g, n, "ack")
     \/ RaisesAfterCommit(g) /\ SaveFailure(g) /\ GoTask(g, n, "gone")
     \/ RaisesBeforeCommit /\ GoTask(g, n, "gone")
  /\ UNCHANGED <<source, bucket, api, brokerVars, crashes>>

\* Mutant of AfterAck: the object is removed after a success only.
AfterAckOfSuccess(g, n) == IF key[g][n] # "None" /\ row[g] = "SUCCESS" THEN "delete" ELSE "done"

AfterAck(g, n) == IF key[g][n] # "None" THEN "delete" ELSE "done"

Settle(g, state) ==
  msg' = [msg EXCEPT ![g] = IF @ \in {"pending", "due"} THEN state ELSE @]

\* msg.ack() is not confirmed by the broker: it may get lost unnoticed, or
\* raise when the connection is closed, which skips the delete.
Ack(g, n) ==
  /\ task[g][n] = "ack"
  /\ \/ Settle(g, "acked") /\ GoTask(g, n, AfterAck(g, n))
     \/ /\ May("nats_loss")
        /\ UNCHANGED msg
        /\ \E step \in {AfterAck(g, n), "gone"} : GoTask(g, n, step)
  /\ UNCHANGED <<dbVars, bucket, api, delivered, key, crashes>>

\* Mutant of AfterNak: the cleanup of the object follows a NAK as well.
AfterNakCleanup(g, n) == IF key[g][n] # "None" THEN "delete" ELSE "done"

\* After a NAK the next delivery still needs the object.
AfterNak(g, n) == "done"

\* msg.nak(delay): the message becomes due again, whichever delivery sent it.
Nak(g, n) ==
  /\ task[g][n] = "nak"
  /\ \/ Settle(g, "due") /\ GoTask(g, n, AfterNak(g, n))
     \/ May("nats_loss") /\ UNCHANGED msg /\ GoTask(g, n, "gone")
  /\ UNCHANGED <<dbVars, bucket, api, delivered, key, crashes>>

DeleteSafely(g, n) ==
  /\ task[g][n] = "delete"
  /\ DeleteObject(g)
  /\ GoTask(g, n, "done")
  /\ UNCHANGED <<dbVars, api, brokerVars, key, crashes>>

\* The worker dies, or its shutdown cancels the task.
WorkerStops(g, n) ==
  /\ May("worker_stop")
  /\ task[g][n] \notin {"none", "done", "gone"}
  /\ GoTask(g, n, "gone")
  /\ UNCHANGED <<dbVars, bucket, api, brokerVars, key, crashes>>

-----------------------------------------------------------------------------

ApiStep(g) ==
  \/ CommitRow(g) \/ Publish(g) \/ MarkFailedToQueue(g) \/ BestEffortDelete(g)

BrokerStep(g) ==
  \/ LatePublish(g) \/ Deliver(g) \/ Redeliver(g) \/ Exhaust(g) \/ AckWaitExpires(g)

TaskStep(g, n) ==
  \/ Snapshot(g, n) \/ Load(g, n) \/ RunAlgorithm(g, n)
  \/ PersistSuccess(g, n) \/ PersistFailure(g, n) \/ Unhandled(g, n)
  \/ Ack(g, n) \/ Nak(g, n) \/ DeleteSafely(g, n)

Next ==
  \E g \in Gens :
    \/ StartGeneration(g) \/ StartGenerationFromCrm(g)
    \/ ApiStep(g) \/ ApiCrash(g) \/ DeleteGeneration(g)
    \/ BrokerStep(g)
    \/ \E n \in Deliveries : TaskStep(g, n) \/ InProgress(g, n) \/ WorkerStops(g, n)

Spec == Init /\ [][Next]_vars

\* A request or task that can take its next step takes it, and the broker
\* delivers while some worker is subscribed.  Nothing is assumed of the faults.
Fairness ==
  \A g \in Gens :
    /\ WF_vars(ApiStep(g))
    /\ WF_vars(LatePublish(g))
    /\ SF_vars(Deliver(g))
    /\ WF_vars(Redeliver(g))
    /\ WF_vars(Exhaust(g))
    /\ WF_vars(AckWaitExpires(g) /\ ~HoldsMessage(g))
    /\ \A n \in Deliveries : WF_vars(TaskStep(g, n))

FairSpec == Spec /\ Fairness
-----------------------------------------------------------------------------
(* Properties.                                                              *)

\* However the deliveries, the API's rollback and a DELETE interleave, a
\* generation never gets two result trees, a SUCCESS row always has its tree,
\* and no tree hangs under a row that is PENDING or gone (the conditional
\* UPDATE of persistence.py:19-23).
OneResultTree ==
  \A g \in Gens :
    /\ results[g] <= 1
    /\ row[g] = "SUCCESS" => results[g] = 1
    /\ row[g] \in {"absent", "PENDING", "deleted"} => results[g] = 0

\* The file of a queued generation is there for as long as its row is PENDING:
\* neither a worker's cleanup nor the API's rollback removes what a later
\* delivery still has to read (dispatcher.py:51-59).
InputKept ==
  \A g \in Gens :
    row[g] = "PENDING" /\ HasFile(g) /\ msg[g] # "none" => g \in bucket

\* While NATS is up, no two deliveries of a generation are processed at the
\* same time (dispatcher.py:322-330).
SingleRunner ==
  \A g \in Gens : \A m, n \in Deliveries :
    task[g][m] \in InProgressSteps /\ task[g][n] \in InProgressSteps => m = n

\* A generation is left PENDING by the broker's max_deliver only when the
\* last two deliveries, both past the limit, failed to record the failure
\* (dispatcher.py:131-135).
StuckOnlyAfterTwoLosses ==
  \A g \in Gens :
    row[g] = "PENDING" /\ msg[g] = "exhausted" =>
      \A n \in MaxDeliveries .. MaxDeliver :
        task[g][n] \in {"snapshot", "fail", "unhandled", "gone"}

\* No step takes a result or a failure back: a finished row changes only by
\* being deleted.
FinishedStays ==
  [][\A g \in Gens :
       row[g] \in {"SUCCESS", "FAILED"} => row'[g] \in {row[g], "deleted"}]_vars

\* Once a generation has finished and nothing works on it any more, its
\* object is gone from the bucket (local_models.py:29-31).
FileReleased ==
  \A g \in Gens :
    /\ row[g] \in {"SUCCESS", "FAILED"}
    /\ api[g] \notin ActiveApi
    /\ msg[g] \in {"none", "acked", "exhausted"}
    /\ \A n \in Deliveries : task[g][n] \in {"none", "done", "gone"}
    => g \notin bucket

\* A generation that crashes the solver every time is not solved more often
\* than _MAX_SOLVER_CRASH_DELIVERIES says (README.md:229-233).
CrashBudget == \A g \in Gens : crashes[g] <= MaxSolverCrashDeliveries

\* Whatever fails, a queued generation is decided or its message reaches
\* max_deliver: retries do not go on forever (dispatcher.py:29-36).
DecidedOrExhausted ==
  \A g \in Gens :
    row[g] = "PENDING" /\ msg[g] # "none"
      ~> row[g] # "PENDING" \/ msg[g] = "exhausted"

\* As long as the databases, the API and the workers stay up, every generation
\* is decided, whether or not its event could be published (repository.py:21-23)
\* and however often its deliveries fail.
AlwaysDecided == \A g \in Gens : row[g] = "PENDING" ~> row[g] # "PENDING"

\* The pipeline implements the lifecycle that its users see.
Lifecycle == INSTANCE GenerationLifecycle WITH status <- row, trees <- results
ImplementsLifecycle == Lifecycle!Spec
=============================================================================
