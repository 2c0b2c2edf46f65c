---------------------- MODULE GenerationPipelineProofs ----------------------
(* Theorems about GenerationPipeline, for every value of its constants. *)
EXTENDS GenerationPipeline, TLAPS

\* What the broker has handed out: a message not yet delivered has no task,
\* and the tasks are those of the deliveries made so far.
DeliveryInv(g) ==
  /\ msg[g] \in {"none", "delayed", "queued"} => delivered[g] = 0
  /\ msg[g] = "exhausted" => delivered[g] = MaxDeliver
  /\ \A n \in Deliveries : task[g][n] = "none" <=> n > delivered[g]

\* How far the request is: the row is committed before the event goes out.
RequestInv(g) ==
  /\ g \in BadEvents => api[g] = "over" /\ row[g] = "absent"
  /\ api[g] \in {"idle", "commit"} => row[g] = "absent" /\ msg[g] = "none"
  /\ api[g] = "publish" => msg[g] = "none"

\* Who may remove the object, and when.
FileInv(g) ==
  /\ HasFile(g) /\ api[g] = "commit" => g \in bucket
  /\ HasFile(g) /\ row[g] = "PENDING" /\ (msg[g] # "none" \/ api[g] = "publish") => g \in bucket
  /\ api[g] = "cleanup" => row[g] # "PENDING" \/ msg[g] = "none"
  /\ \A n \in Deliveries :
       task[g][n] = "delete" \/ (task[g][n] = "ack" /\ key[g][n] # "None") => row[g] # "PENDING"

\* OneResultTree for one generation.
ResultInv(g) ==
  /\ results[g] <= 1
  /\ row[g] = "SUCCESS" => results[g] = 1
  /\ row[g] \in {"absent", "PENDING", "deleted"} => results[g] = 0

GenInv(g) == DeliveryInv(g) /\ RequestInv(g) /\ FileInv(g) /\ ResultInv(g)

IInv == TypeOK /\ \A g \in Gens : GenInv(g)

LEMMA InitIInv == Init => IInv
<1> SUFFICES ASSUME Init PROVE IInv
  OBVIOUS
<1>1. TypeOK
  BY PipelineAssumption DEF Init, TypeOK, Statuses, ApiSteps, MsgStates, TaskSteps, InProgressSteps, MaxDeliver, Deliveries
<1>2. ASSUME NEW g \in Gens PROVE GenInv(g)
  BY PipelineAssumption
  DEF Init, GenInv, DeliveryInv, RequestInv, FileInv, ResultInv, HasFile, Deliveries, MaxDeliver
<1> QED BY <1>1, <1>2 DEF IInv

-----------------------------------------------------------------------------
(* Steps of the API request, of the user and of the broker. *)

LEMMA StartGenerationIInv ==
  ASSUME IInv, NEW g \in Gens, StartGeneration(g) PROVE IInv'
<1>1. TypeOK'
  <2>1. source' \in [Gens -> {"none", "FILE", "CRM"}]
    BY DEF IInv, TypeOK, StartGeneration
  <2>2. bucket' \subseteq Gens
    BY DEF IInv, TypeOK, StartGeneration
  <2>3. api' \in [Gens -> ApiSteps]
    BY DEF IInv, TypeOK, StartGeneration, GoApi, ApiSteps
  <2>4. UNCHANGED <<row, results, msg, delivered, task, key, crashes>>
    BY DEF StartGeneration, dbVars, brokerVars, taskVars
  <2> QED BY <2>1, <2>2, <2>3, <2>4 DEF IInv, TypeOK
<1>2. ASSUME NEW h \in Gens PROVE GenInv(h)'
  BY PipelineAssumption
  DEF IInv, TypeOK, GenInv, DeliveryInv, RequestInv, FileInv, ResultInv, HasFile, StartGeneration, GoApi,
      Deliveries, MaxDeliver, InProgressSteps, dbVars, brokerVars, taskVars
<1> QED BY <1>1, <1>2 DEF IInv

LEMMA StartGenerationFromCrmIInv ==
  ASSUME IInv, NEW g \in Gens, StartGenerationFromCrm(g) PROVE IInv'
<1>1. TypeOK'
  BY PipelineAssumption
  DEF IInv, TypeOK, GenInv, DeliveryInv, StartGenerationFromCrm, GoApi, Statuses, ApiSteps, MsgStates,
      TaskSteps, InProgressSteps, Deliveries, MaxDeliver, dbVars, brokerVars, taskVars
<1>2. ASSUME NEW h \in Gens PROVE GenInv(h)'
  BY PipelineAssumption
  DEF IInv, TypeOK, GenInv, DeliveryInv, RequestInv, FileInv, ResultInv, HasFile, StartGenerationFromCrm, GoApi,
      Deliveries, MaxDeliver, InProgressSteps, dbVars, brokerVars, taskVars
<1> QED BY <1>1, <1>2 DEF IInv

LEMMA CommitRowIInv ==
  ASSUME IInv, NEW g \in Gens, CommitRow(g) PROVE IInv'
<1>1. TypeOK'
  <2>1. row' \in [Gens -> Statuses]
    BY DEF IInv, TypeOK, CommitRow, Statuses
  <2>2. api' \in [Gens -> ApiSteps]
    BY DEF IInv, TypeOK, CommitRow, GoApi, ApiSteps, RemoveObjectOr
  <2>3. UNCHANGED <<results, source, bucket, msg, delivered, task, key, crashes>>
    BY DEF CommitRow, dbVars, brokerVars, taskVars
  <2> QED BY <2>1, <2>2, <2>3 DEF IInv, TypeOK
<1>2. ASSUME NEW h \in Gens PROVE GenInv(h)'
  BY PipelineAssumption
  DEF IInv, TypeOK, GenInv, DeliveryInv, RequestInv, FileInv, ResultInv, HasFile, CommitRow, GoApi, RemoveObjectOr,
      Deliveries, MaxDeliver, InProgressSteps, dbVars, brokerVars, taskVars
<1> QED BY <1>1, <1>2 DEF IInv

LEMMA PublishIInv ==
  ASSUME IInv, NEW g \in Gens, Publish(g) PROVE IInv'
<1>1. TypeOK'
  <2>1. msg' \in [Gens -> MsgStates]
    BY DEF IInv, TypeOK, Publish, MsgStates
  <2>2. api' \in [Gens -> ApiSteps]
    BY DEF IInv, TypeOK, Publish, GoApi, ApiSteps
  <2>3. UNCHANGED <<row, results, source, bucket, delivered, task, key, crashes>>
    BY DEF Publish, dbVars, brokerVars, taskVars
  <2> QED BY <2>1, <2>2, <2>3 DEF IInv, TypeOK
<1>2. ASSUME NEW h \in Gens PROVE GenInv(h)'
  BY PipelineAssumption
  DEF IInv, TypeOK, GenInv, DeliveryInv, RequestInv, FileInv, ResultInv, HasFile, Publish, GoApi,
      Deliveries, MaxDeliver, InProgressSteps, dbVars, brokerVars, taskVars
<1> QED BY <1>1, <1>2 DEF IInv

LEMMA MarkFailedToQueueIInv ==
  ASSUME IInv, NEW g \in Gens, MarkFailedToQueue(g) PROVE IInv'
<1>1. TypeOK'
  <2>1. row' \in [Gens -> Statuses]
    BY DEF IInv, TypeOK, MarkFailedToQueue, Statuses
  <2>2. api' \in [Gens -> ApiSteps]
    BY DEF IInv, TypeOK, MarkFailedToQueue, GoApi, ApiSteps, RemoveObjectOr
  <2>3. UNCHANGED <<results, source, bucket, msg, delivered, task, key, crashes>>
    BY DEF MarkFailedToQueue, dbVars, brokerVars, taskVars
  <2> QED BY <2>1, <2>2, <2>3 DEF IInv, TypeOK
<1>2. ASSUME NEW h \in Gens PROVE GenInv(h)'
  BY PipelineAssumption
  DEF IInv, TypeOK, GenInv, DeliveryInv, RequestInv, FileInv, ResultInv, HasFile, MarkFailedToQueue, GoApi, RemoveObjectOr,
      Deliveries, MaxDeliver, InProgressSteps, dbVars, brokerVars, taskVars
<1> QED BY <1>1, <1>2 DEF IInv

LEMMA BestEffortDeleteIInv ==
  ASSUME IInv, NEW g \in Gens, BestEffortDelete(g) PROVE IInv'
<1>1. TypeOK'
  BY PipelineAssumption
  DEF IInv, TypeOK, GenInv, DeliveryInv, BestEffortDelete, GoApi, DeleteObject, Statuses, ApiSteps, MsgStates,
      TaskSteps, InProgressSteps, Deliveries, MaxDeliver, dbVars, brokerVars, taskVars
<1>2. ASSUME NEW h \in Gens PROVE GenInv(h)'
  BY PipelineAssumption
  DEF IInv, TypeOK, GenInv, DeliveryInv, RequestInv, FileInv, ResultInv, HasFile, BestEffortDelete, GoApi, DeleteObject,
      Deliveries, MaxDeliver, InProgressSteps, dbVars, brokerVars, taskVars
<1> QED BY <1>1, <1>2 DEF IInv

LEMMA ApiCrashIInv ==
  ASSUME IInv, NEW g \in Gens, ApiCrash(g) PROVE IInv'
<1>1. TypeOK'
  BY PipelineAssumption
  DEF IInv, TypeOK, GenInv, DeliveryInv, ApiCrash, GoApi, ActiveApi, Statuses, ApiSteps, MsgStates,
      TaskSteps, InProgressSteps, Deliveries, MaxDeliver, dbVars, brokerVars, taskVars
<1>2. ASSUME NEW h \in Gens PROVE GenInv(h)'
  BY PipelineAssumption
  DEF IInv, TypeOK, GenInv, DeliveryInv, RequestInv, FileInv, ResultInv, HasFile, ApiCrash, GoApi, ActiveApi,
      Deliveries, MaxDeliver, InProgressSteps, dbVars, brokerVars, taskVars
<1> QED BY <1>1, <1>2 DEF IInv

LEMMA DeleteGenerationIInv ==
  ASSUME IInv, NEW g \in Gens, DeleteGeneration(g) PROVE IInv'
<1>1. TypeOK'
  BY PipelineAssumption
  DEF IInv, TypeOK, GenInv, DeliveryInv, DeleteGeneration, Statuses, ApiSteps, MsgStates,
      TaskSteps, InProgressSteps, Deliveries, MaxDeliver, dbVars, brokerVars, taskVars
<1>2. ASSUME NEW h \in Gens PROVE GenInv(h)'
  BY PipelineAssumption
  DEF IInv, TypeOK, GenInv, DeliveryInv, RequestInv, FileInv, ResultInv, HasFile, DeleteGeneration,
      Deliveries, MaxDeliver, InProgressSteps, dbVars, brokerVars, taskVars
<1> QED BY <1>1, <1>2 DEF IInv

LEMMA LatePublishIInv ==
  ASSUME IInv, NEW g \in Gens, LatePublish(g) PROVE IInv'
<1>1. TypeOK'
  BY PipelineAssumption
  DEF IInv, TypeOK, GenInv, DeliveryInv, LatePublish, Statuses, ApiSteps, MsgStates,
      TaskSteps, InProgressSteps, Deliveries, MaxDeliver, dbVars, brokerVars, taskVars
<1>2. ASSUME NEW h \in Gens PROVE GenInv(h)'
  BY PipelineAssumption
  DEF IInv, TypeOK, GenInv, DeliveryInv, RequestInv, FileInv, ResultInv, HasFile, LatePublish,
      Deliveries, MaxDeliver, InProgressSteps, dbVars, brokerVars, taskVars
<1> QED BY <1>1, <1>2 DEF IInv

LEMMA DeliverIInv ==
  ASSUME IInv, NEW g \in Gens, Deliver(g) PROVE IInv'
<1>1. TypeOK'
  BY PipelineAssumption
  DEF IInv, TypeOK, GenInv, DeliveryInv, Deliver, StartDelivery, GoTask, Statuses, ApiSteps, MsgStates,
      TaskSteps, InProgressSteps, Deliveries, MaxDeliver, dbVars, brokerVars, taskVars
<1>2. ASSUME NEW h \in Gens PROVE GenInv(h)'
  BY PipelineAssumption
  DEF IInv, TypeOK, GenInv, DeliveryInv, RequestInv, FileInv, ResultInv, HasFile, Deliver, StartDelivery, GoTask,
      Deliveries, MaxDeliver, InProgressSteps, dbVars, brokerVars, taskVars
<1> QED BY <1>1, <1>2 DEF IInv

LEMMA RedeliverIInv ==
  ASSUME IInv, NEW g \in Gens, Redeliver(g) PROVE IInv'
<1>1. TypeOK'
  BY PipelineAssumption
  DEF IInv, TypeOK, GenInv, DeliveryInv, Redeliver, StartDelivery, GoTask, Statuses, ApiSteps, MsgStates,
      TaskSteps, InProgressSteps, Deliveries, MaxDeliver, dbVars, brokerVars, taskVars
<1>2. ASSUME NEW h \in Gens PROVE GenInv(h)'
  BY PipelineAssumption
  DEF IInv, TypeOK, GenInv, DeliveryInv, RequestInv, FileInv, ResultInv, HasFile, Redeliver, StartDelivery, GoTask,
      Deliveries, MaxDeliver, InProgressSteps, dbVars, brokerVars, taskVars
<1> QED BY <1>1, <1>2 DEF IInv

LEMMA ExhaustIInv ==
  ASSUME IInv, NEW g \in Gens, Exhaust(g) PROVE IInv'
<1>1. TypeOK'
  BY PipelineAssumption
  DEF IInv, TypeOK, GenInv, DeliveryInv, Exhaust, Statuses, ApiSteps, MsgStates,
      TaskSteps, InProgressSteps, Deliveries, MaxDeliver, dbVars, brokerVars, taskVars
<1>2. ASSUME NEW h \in Gens PROVE GenInv(h)'
  BY PipelineAssumption
  DEF IInv, TypeOK, GenInv, DeliveryInv, RequestInv, FileInv, ResultInv, HasFile, Exhaust,
      Deliveries, MaxDeliver, InProgressSteps, dbVars, brokerVars, taskVars
<1> QED BY <1>1, <1>2 DEF IInv

LEMMA AckWaitExpiresIInv ==
  ASSUME IInv, NEW g \in Gens, AckWaitExpires(g) PROVE IInv'
<1>1. TypeOK'
  BY PipelineAssumption
  DEF IInv, TypeOK, GenInv, DeliveryInv, AckWaitExpires, Statuses, ApiSteps, MsgStates,
      TaskSteps, InProgressSteps, Deliveries, MaxDeliver, dbVars, brokerVars, taskVars
<1>2. ASSUME NEW h \in Gens PROVE GenInv(h)'
  BY PipelineAssumption
  DEF IInv, TypeOK, GenInv, DeliveryInv, RequestInv, FileInv, ResultInv, HasFile, AckWaitExpires,
      Deliveries, MaxDeliver, InProgressSteps, dbVars, brokerVars, taskVars
<1> QED BY <1>1, <1>2 DEF IInv

-----------------------------------------------------------------------------
(* Steps of the handler task of one delivery.  Each of them moves its own   *)
(* task, claims the row through persistence.py or leaves it alone, settles  *)
(* its message or leaves it alone, and removes the object only at the end.  *)

TaskMoves(g, n) ==
  \E step \in TaskSteps \ {"none"}, k \in {"None", "key"} :
    /\ task' = [task EXCEPT ![g][n] = step]
    /\ key' = [key EXCEPT ![g][n] = k]
    /\ step = "delete" \/ (step = "ack" /\ k # "None") => row'[g] # "PENDING"

HandlerStep(g, n) ==
  /\ task[g][n] # "none"
  /\ TaskMoves(g, n)
  /\ UNCHANGED <<row, results>> \/ SaveSuccess(g) \/ SaveFailure(g)
  /\ \/ UNCHANGED msg
     \/ \E state \in {"pending", "acked", "due"} : Settle(g, state)
  /\ UNCHANGED bucket \/ (task[g][n] = "delete" /\ bucket' = bucket \ {g})
  /\ crashes' \in [Gens -> Nat]
  /\ UNCHANGED <<source, api, delivered>>

LEMMA HandlerStepIInv ==
  ASSUME IInv, NEW g \in Gens, NEW n \in Deliveries, HandlerStep(g, n) PROVE IInv'
<1>1. PICK step \in TaskSteps \ {"none"}, k \in {"None", "key"} :
        /\ task' = [task EXCEPT ![g][n] = step]
        /\ key' = [key EXCEPT ![g][n] = k]
        /\ step = "delete" \/ (step = "ack" /\ k # "None") => row'[g] # "PENDING"
  BY DEF HandlerStep, TaskMoves
<1>2. row' \in [Gens -> Statuses] /\ results' \in [Gens -> Nat]
  <2>1. CASE UNCHANGED <<row, results>>
    BY <2>1 DEF IInv, TypeOK
  <2>2. CASE SaveSuccess(g)
    BY <2>2 DEF IInv, TypeOK, SaveSuccess, Claim, Statuses
  <2>3. CASE SaveFailure(g)
    BY <2>3 DEF IInv, TypeOK, SaveFailure, Claim, Statuses
  <2> QED BY <2>1, <2>2, <2>3 DEF HandlerStep
<1>3. \A h \in Gens : h # g => row'[h] = row[h] /\ results'[h] = results[h]
  BY DEF IInv, TypeOK, HandlerStep, SaveSuccess, SaveFailure, Claim
<1>4. \/ row'[g] = row[g] /\ results'[g] = results[g]
      \/ row[g] = "PENDING" /\ row'[g] = "SUCCESS" /\ results'[g] = results[g] + 1
      \/ row[g] = "PENDING" /\ row'[g] = "FAILED" /\ results'[g] = results[g]
  BY DEF IInv, TypeOK, HandlerStep, SaveSuccess, SaveFailure, Claim
<1>5. msg' \in [Gens -> MsgStates]
  BY DEF IInv, TypeOK, HandlerStep, Settle, MsgStates
<1>6. \A h \in Gens :
        \/ msg'[h] = msg[h]
        \/ msg[h] \in {"pending", "due"} /\ msg'[h] \in {"pending", "acked", "due"}
  BY DEF IInv, TypeOK, HandlerStep, Settle
<1>7. task' \in [Gens -> [Deliveries -> TaskSteps]] /\ key' \in [Gens -> [Deliveries -> {"None", "key"}]]
  BY <1>1 DEF IInv, TypeOK
<1>8. \A h \in Gens, m \in Deliveries :
        IF h = g /\ m = n THEN task'[h][m] = step /\ key'[h][m] = k
                          ELSE task'[h][m] = task[h][m] /\ key'[h][m] = key[h][m]
  BY <1>1 DEF IInv, TypeOK
<1>9. TypeOK'
  BY <1>2, <1>5, <1>7 DEF IInv, TypeOK, HandlerStep
<1>10. ASSUME NEW h \in Gens PROVE GenInv(h)'
  <2>1. DeliveryInv(h)'
    BY <1>6, <1>8 DEF IInv, GenInv, DeliveryInv, HandlerStep
  <2>2. RequestInv(h)'
    BY <1>3, <1>4, <1>6 DEF IInv, GenInv, RequestInv, HandlerStep
  <2>3. FileInv(h)'
    <3>1. \A m \in Deliveries :
            (task[h][m] = "delete" \/ (task[h][m] = "ack" /\ key[h][m] # "None")
              => row[h] # "PENDING")'
      BY <1>1, <1>3, <1>4, <1>8 DEF IInv, GenInv, FileInv
    <3>2. row[h] # "PENDING" => row'[h] # "PENDING"
      BY <1>3, <1>4
    <3>3. UNCHANGED bucket \/ (bucket' = bucket \ {g} /\ row[g] # "PENDING" /\ api[g] # "commit")
      BY DEF IInv, TypeOK, GenInv, FileInv, RequestInv, DeliveryInv, HandlerStep, Deliveries
    <3> QED BY <1>6, <3>1, <3>2, <3>3 DEF IInv, GenInv, FileInv, HasFile, HandlerStep
  <2>4. ResultInv(h)'
    BY <1>3, <1>4 DEF IInv, TypeOK, GenInv, ResultInv
  <2> QED BY <2>1, <2>2, <2>3, <2>4 DEF GenInv
<1> QED BY <1>9, <1>10 DEF IInv

\* A task that moves to one step with one key takes part in a HandlerStep.
LEMMA TaskMovesTo ==
  ASSUME IInv, NEW g \in Gens, NEW n \in Deliveries,
         NEW step \in TaskSteps \ {"none"}, GoTask(g, n, step),
         NEW k \in {"None", "key"}, SetKey(g, n, k) \/ (UNCHANGED key /\ k = key[g][n]),
         step = "delete" \/ (step = "ack" /\ k # "None") => row'[g] # "PENDING"
  PROVE  TaskMoves(g, n)
<1>1. key' = [key EXCEPT ![g][n] = k]
  BY DEF IInv, TypeOK, SetKey
<1> QED BY <1>1 DEF TaskMoves, GoTask

LEMMA SnapshotStep ==
  ASSUME IInv, NEW g \in Gens, NEW n \in Deliveries, Snapshot(g, n)
  PROVE  HandlerStep(g, n)
<1>0. key[g][n] \in {"None", "key"} /\ crashes \in [Gens -> Nat]
  BY DEF IInv, TypeOK
<1>1. TaskMoves(g, n)
  <2>1. StorageKey(g) \in {"None", "key"}
    BY DEF StorageKey
  <2>2. CASE row[g] \in {"absent", "deleted"} /\ GoTask(g, n, "ack") /\ UNCHANGED key
    BY <1>0, <2>2, TaskMovesTo DEF Snapshot, dbVars, TaskSteps, InProgressSteps
  <2>3. CASE row[g] \in {"SUCCESS", "FAILED"} /\ GoTask(g, n, "ack") /\ SetKey(g, n, StorageKey(g))
    BY <2>1, <2>3, TaskMovesTo DEF Snapshot, dbVars, TaskSteps, InProgressSteps
  <2>4. CASE \E count \in DeliveryCounts(n) :
               /\ GoTask(g, n, IF LimitReached(count) THEN "fail" ELSE "load")
               /\ SetKey(g, n, StorageKey(g))
    BY <2>1, <2>4, TaskMovesTo DEF TaskSteps, InProgressSteps
  <2>5. CASE GoTask(g, n, "unhandled") /\ UNCHANGED key
    BY <1>0, <2>5, TaskMovesTo DEF TaskSteps, InProgressSteps
  <2> QED BY <2>2, <2>3, <2>4, <2>5 DEF Snapshot
<1> QED BY <1>0, <1>1 DEF HandlerStep, Snapshot, dbVars, brokerVars

LEMMA LoadStep ==
  ASSUME IInv, NEW g \in Gens, NEW n \in Deliveries, Load(g, n)
  PROVE  HandlerStep(g, n)
<1>0. key[g][n] \in {"None", "key"} /\ crashes \in [Gens -> Nat]
  BY DEF IInv, TypeOK
<1>1. TaskMoves(g, n)
  <2>1. CASE \E step \in {"solve", "fail", "nak", "unhandled"} : GoTask(g, n, step) /\ UNCHANGED key
    BY <1>0, <2>1, TaskMovesTo DEF TaskSteps, InProgressSteps
  <2>2. CASE GoTask(g, n, "fail") /\ SetKey(g, n, "None")
    BY <2>2, TaskMovesTo DEF TaskSteps, InProgressSteps
  <2> QED BY <2>1, <2>2 DEF Load, LoadFromFile, LoadFromCrm
<1> QED BY <1>0, <1>1 DEF HandlerStep, Load, dbVars, brokerVars

LEMMA RunAlgorithmStep ==
  ASSUME IInv, NEW g \in Gens, NEW n \in Deliveries, RunAlgorithm(g, n)
  PROVE  HandlerStep(g, n)
<1>0. key[g][n] \in {"None", "key"} /\ crashes \in [Gens -> Nat]
  BY DEF IInv, TypeOK
<1>1. TaskMoves(g, n)
  <2>1. \E step \in {"save", "fail", "nak"} : GoTask(g, n, step)
    BY DEF RunAlgorithm, AfterSolverCrash
  <2> QED BY <1>0, <2>1, TaskMovesTo DEF RunAlgorithm, TaskSteps, InProgressSteps
<1>2. crashes' \in [Gens -> Nat]
  BY <1>0 DEF RunAlgorithm
<1> QED BY <1>0, <1>1, <1>2 DEF HandlerStep, RunAlgorithm, dbVars, brokerVars

LEMMA PersistSuccessStep ==
  ASSUME IInv, NEW g \in Gens, NEW n \in Deliveries, PersistSuccess(g, n)
  PROVE  HandlerStep(g, n)
<1>0. key[g][n] \in {"None", "key"} /\ crashes \in [Gens -> Nat]
  BY DEF IInv, TypeOK
<1>1. TaskMoves(g, n)
  <2>1. CASE SaveSuccess(g) /\ GoTask(g, n, "ack")
    <3>1. row'[g] # "PENDING"
      BY <2>1 DEF IInv, TypeOK, SaveSuccess, Claim
    <3> QED BY <1>0, <2>1, <3>1, TaskMovesTo DEF PersistSuccess, TaskSteps, InProgressSteps
  <2>2. CASE GoTask(g, n, "nak")
    BY <1>0, <2>2, TaskMovesTo DEF PersistSuccess, TaskSteps, InProgressSteps
  <2> QED BY <2>1, <2>2 DEF PersistSuccess
<1> QED BY <1>0, <1>1 DEF HandlerStep, PersistSuccess, RaisesBeforeCommit, brokerVars

LEMMA PersistFailureStep ==
  ASSUME IInv, NEW g \in Gens, NEW n \in Deliveries, PersistFailure(g, n)
  PROVE  HandlerStep(g, n)
<1>0. key[g][n] \in {"None", "key"} /\ crashes \in [Gens -> Nat]
  BY DEF IInv, TypeOK
<1>1. TaskMoves(g, n)
  <2>1. CASE SaveFailure(g) /\ GoTask(g, n, "ack")
    <3>1. row'[g] # "PENDING"
      BY <2>1 DEF IInv, TypeOK, SaveFailure, Claim
    <3> QED BY <1>0, <2>1, <3>1, TaskMovesTo DEF PersistFailure, TaskSteps, InProgressSteps
  <2>2. CASE GoTask(g, n, "unhandled")
    BY <1>0, <2>2, TaskMovesTo DEF PersistFailure, TaskSteps, InProgressSteps
  <2> QED BY <2>1, <2>2 DEF PersistFailure
<1> QED BY <1>0, <1>1 DEF HandlerStep, PersistFailure, RaisesBeforeCommit, brokerVars

LEMMA UnhandledStep ==
  ASSUME IInv, NEW g \in Gens, NEW n \in Deliveries, Unhandled(g, n)
  PROVE  HandlerStep(g, n)
<1>0. key[g][n] \in {"None", "key"} /\ crashes \in [Gens -> Nat]
  BY DEF IInv, TypeOK
<1>1. TaskMoves(g, n)
  <2>1. \E step \in {"ack", "gone"} : GoTask(g, n, step)
    BY DEF Unhandled
  <2> QED BY <2>1, TaskMovesTo DEF Unhandled, TaskSteps, InProgressSteps
<1> QED BY <1>0, <1>1 DEF HandlerStep, Unhandled, RaisesBeforeCommit, brokerVars

LEMMA AckStep ==
  ASSUME IInv, NEW g \in Gens, NEW n \in Deliveries, Ack(g, n)
  PROVE  HandlerStep(g, n)
<1>0. key[g][n] \in {"None", "key"} /\ crashes \in [Gens -> Nat]
  BY DEF IInv, TypeOK
<1>1. TaskMoves(g, n)
  <2>1. CASE GoTask(g, n, AfterAck(g, n))
    <3>1. AfterAck(g, n) = "delete" => row'[g] # "PENDING"
      BY DEF Ack, AfterAck, IInv, GenInv, FileInv, dbVars
    <3> QED BY <1>0, <2>1, <3>1, TaskMovesTo DEF Ack, AfterAck, TaskSteps, InProgressSteps
  <2>2. CASE GoTask(g, n, "gone")
    BY <1>0, <2>2, TaskMovesTo DEF Ack, TaskSteps, InProgressSteps
  <2> QED BY <2>1, <2>2 DEF Ack
<1> QED BY <1>0, <1>1 DEF HandlerStep, Ack, dbVars

LEMMA NakStep ==
  ASSUME IInv, NEW g \in Gens, NEW n \in Deliveries, Nak(g, n)
  PROVE  HandlerStep(g, n)
<1>0. key[g][n] \in {"None", "key"} /\ crashes \in [Gens -> Nat]
  BY DEF IInv, TypeOK
<1>1. TaskMoves(g, n)
  <2>1. \E step \in {"done", "gone"} : GoTask(g, n, step)
    BY DEF Nak, AfterNak
  <2> QED BY <1>0, <2>1, TaskMovesTo DEF Nak, TaskSteps, InProgressSteps
<1> QED BY <1>0, <1>1 DEF HandlerStep, Nak, dbVars

LEMMA DeleteSafelyStep ==
  ASSUME IInv, NEW g \in Gens, NEW n \in Deliveries, DeleteSafely(g, n)
  PROVE  HandlerStep(g, n)
<1>0. key[g][n] \in {"None", "key"} /\ crashes \in [Gens -> Nat]
  BY DEF IInv, TypeOK
<1>1. TaskMoves(g, n)
  BY <1>0, TaskMovesTo DEF DeleteSafely, TaskSteps, InProgressSteps
<1> QED BY <1>0, <1>1 DEF HandlerStep, DeleteSafely, DeleteObject, dbVars, brokerVars

LEMMA WorkerStopsStep ==
  ASSUME IInv, NEW g \in Gens, NEW n \in Deliveries, WorkerStops(g, n)
  PROVE  HandlerStep(g, n)
<1>0. key[g][n] \in {"None", "key"} /\ crashes \in [Gens -> Nat]
  BY DEF IInv, TypeOK
<1>1. TaskMoves(g, n)
  BY <1>0, TaskMovesTo DEF WorkerStops, TaskSteps, InProgressSteps
<1> QED BY <1>0, <1>1 DEF HandlerStep, WorkerStops, dbVars, brokerVars

LEMMA InProgressStep ==
  ASSUME IInv, NEW g \in Gens, NEW n \in Deliveries, InProgress(g, n)
  PROVE  HandlerStep(g, n)
<1>0. key[g][n] \in {"None", "key"} /\ crashes \in [Gens -> Nat]
  BY DEF IInv, TypeOK
<1>1. GoTask(g, n, task[g][n])
  BY DEF InProgress, GoTask, taskVars, IInv, TypeOK
<1>2. TaskMoves(g, n)
  BY <1>0, <1>1, TaskMovesTo DEF InProgress, taskVars, TaskSteps, InProgressSteps
<1>3. Settle(g, "pending")
  BY DEF InProgress, Settle, IInv, TypeOK
<1> QED BY <1>0, <1>1, <1>2, <1>3 DEF HandlerStep, InProgress, InProgressSteps, dbVars, taskVars

LEMMA TaskStepHandlerStep ==
  ASSUME IInv, NEW g \in Gens, NEW n \in Deliveries,
         TaskStep(g, n) \/ InProgress(g, n) \/ WorkerStops(g, n)
  PROVE  HandlerStep(g, n)
BY SnapshotStep, LoadStep, RunAlgorithmStep, PersistSuccessStep, PersistFailureStep,
   UnhandledStep, AckStep, NakStep, DeleteSafelyStep, InProgressStep, WorkerStopsStep
DEF TaskStep

LEMMA NextIInv == IInv /\ [Next]_vars => IInv'
<1> SUFFICES ASSUME IInv, [Next]_vars PROVE IInv'
  OBVIOUS
<1>1. ASSUME NEW g \in Gens,
             \/ StartGeneration(g) \/ StartGenerationFromCrm(g)
             \/ ApiStep(g) \/ ApiCrash(g) \/ DeleteGeneration(g)
      PROVE  IInv'
  BY <1>1, StartGenerationIInv, StartGenerationFromCrmIInv, CommitRowIInv, PublishIInv,
     MarkFailedToQueueIInv, BestEffortDeleteIInv, ApiCrashIInv, DeleteGenerationIInv
  DEF ApiStep
<1>2. ASSUME NEW g \in Gens, BrokerStep(g) PROVE IInv'
  BY <1>2, LatePublishIInv, DeliverIInv, RedeliverIInv, ExhaustIInv, AckWaitExpiresIInv
  DEF BrokerStep
<1>3. ASSUME NEW g \in Gens, NEW n \in Deliveries,
             TaskStep(g, n) \/ InProgress(g, n) \/ WorkerStops(g, n)
      PROVE  IInv'
  BY <1>3, TaskStepHandlerStep, HandlerStepIInv
<1>4. CASE UNCHANGED vars
  BY <1>4 DEF vars, IInv, TypeOK, GenInv, DeliveryInv, RequestInv, FileInv, ResultInv, HasFile
<1> QED BY <1>1, <1>2, <1>3, <1>4 DEF Next

THEOREM InductiveInvariant == Spec => []IInv
BY InitIInv, NextIInv, PTL DEF Spec

\* Every variable keeps its type, whatever fails: in particular the broker
\* never counts more than max_deliver deliveries.
THEOREM TypeCorrect == Spec => []TypeOK
BY InductiveInvariant, PTL DEF IInv

\* Two result trees, a SUCCESS without a tree or a tree without its row are
\* impossible under every fault of FaultKinds.
THEOREM ResultsAreUnique == Spec => []OneResultTree
<1>1. IInv => OneResultTree
  BY DEF IInv, GenInv, ResultInv, OneResultTree
<1> QED BY <1>1, InductiveInvariant, PTL

\* No interleaving removes the file of a queued PENDING generation.
THEOREM InputIsKept == Spec => []InputKept
<1>1. IInv => InputKept
  BY DEF IInv, GenInv, FileInv, InputKept
<1> QED BY <1>1, InductiveInvariant, PTL

-----------------------------------------------------------------------------
(* Theorems that hold while some fault is absent: each one names the fault  *)
(* it does not tolerate.                                                    *)

\* A handler step touches the task of its own delivery only.
LEMMA OneTaskMoves ==
  ASSUME IInv, NEW g \in Gens, NEW n \in Deliveries, HandlerStep(g, n)
  PROVE  \A h \in Gens, m \in Deliveries :
           h # g \/ m # n => task'[h][m] = task[h][m]
<1>1. PICK step : task' = [task EXCEPT ![g][n] = step]
  BY DEF HandlerStep, TaskMoves
<1> QED BY <1>1 DEF IInv, TypeOK

\* The task moved to the step given.
LEMMA GoTaskArrives ==
  ASSUME IInv, NEW g \in Gens, NEW n \in Deliveries, NEW step, GoTask(g, n, step)
  PROVE  task'[g][n] = step
BY DEF IInv, TypeOK, GoTask

-----------------------------------------------------------------------------
(* Without nats_loss: one runner per generation. *)

RunningSteps == InProgressSteps \cup {"nak"}

\* A task that works on a generation holds the latest delivery, and its
\* message is not waiting to be delivered again.
LeaseInv(g) ==
  \A n \in Deliveries :
    task[g][n] \in RunningSteps => n = delivered[g] /\ msg[g] \in {"pending", "acked"}

Lease == \A g \in Gens : LeaseInv(g)

LEMMA InitLease == Init => Lease
BY DEF Init, Lease, LeaseInv, RunningSteps, InProgressSteps

LEMMA RequestLease ==
  ASSUME IInv, Lease, NEW g \in Gens,
         \/ StartGeneration(g) \/ StartGenerationFromCrm(g)
         \/ ApiStep(g) \/ ApiCrash(g) \/ DeleteGeneration(g)
  PROVE  Lease'
<1>1. UNCHANGED <<task, delivered>>
  BY DEF StartGeneration, StartGenerationFromCrm, ApiStep, CommitRow, Publish,
         MarkFailedToQueue, BestEffortDelete, ApiCrash, DeleteGeneration, brokerVars, taskVars
<1>2. CASE UNCHANGED msg
  BY <1>1, <1>2 DEF Lease, LeaseInv
<1>3. CASE Publish(g)
  <2>1. \A h \in Gens : h # g => msg'[h] = msg[h]
    BY <1>3 DEF Publish, IInv, TypeOK
  <2>2. msg[g] = "none"
    BY <1>3 DEF Publish, IInv, GenInv, RequestInv
  <2> QED BY <1>1, <2>1, <2>2 DEF Lease, LeaseInv
<1> QED BY <1>2, <1>3
    DEF StartGeneration, StartGenerationFromCrm, ApiStep, CommitRow,
        MarkFailedToQueue, BestEffortDelete, ApiCrash, DeleteGeneration, brokerVars

LEMMA BrokerLease ==
  ASSUME "nats_loss" \notin Faults, IInv, Lease, NEW g \in Gens, BrokerStep(g)
  PROVE  Lease'
<1> SUFFICES ASSUME NEW h \in Gens PROVE LeaseInv(h)'
  BY DEF Lease
<1>1. CASE LatePublish(g)
  BY <1>1 DEF LatePublish, IInv, TypeOK, Lease, LeaseInv, taskVars
<1>2. CASE Exhaust(g)
  BY <1>2 DEF Exhaust, IInv, TypeOK, Lease, LeaseInv, taskVars
<1>3. CASE AckWaitExpires(g)
  BY <1>3 DEF AckWaitExpires, HoldsMessage, May, IInv, TypeOK, Lease, LeaseInv,
              RunningSteps, taskVars
<1>4. CASE Deliver(g) \/ Redeliver(g)
  <2>1. msg[g] \in {"queued", "due"} /\ StartDelivery(g)
    BY <1>4 DEF Deliver, Redeliver
  <2>2. \A n \in Deliveries : task[g][n] \notin RunningSteps
    BY <2>1 DEF Lease, LeaseInv
  <2> QED BY <2>1, <2>2 DEF StartDelivery, GoTask, IInv, TypeOK, Lease, LeaseInv
<1> QED BY <1>1, <1>2, <1>3, <1>4 DEF BrokerStep

LEMMA TaskLease ==
  ASSUME "nats_loss" \notin Faults, IInv, Lease, NEW g \in Gens, NEW n \in Deliveries,
         TaskStep(g, n) \/ InProgress(g, n) \/ WorkerStops(g, n)
  PROVE  Lease'
<1> SUFFICES ASSUME NEW h \in Gens PROVE LeaseInv(h)'
  BY DEF Lease
<1>0. /\ \A k \in Gens, m \in Deliveries : k # g \/ m # n => task'[k][m] = task[k][m]
      /\ UNCHANGED delivered
  BY TaskStepHandlerStep, OneTaskMoves DEF HandlerStep
<1> USE <1>0 DEF Lease, LeaseInv, RunningSteps, InProgressSteps
<1>1. CASE \/ Snapshot(g, n) \/ Load(g, n) \/ RunAlgorithm(g, n)
           \/ PersistSuccess(g, n) \/ PersistFailure(g, n)
  BY <1>1 DEF Snapshot, Load, RunAlgorithm, PersistSuccess, PersistFailure, brokerVars
<1>2. CASE \/ Unhandled(g, n) \/ DeleteSafely(g, n) \/ WorkerStops(g, n)
  <2>1. task'[g][n] \in {"ack", "done", "gone"}
    BY <1>2, GoTaskArrives DEF Unhandled, DeleteSafely, WorkerStops
  <2> QED BY <1>2, <2>1 DEF Unhandled, DeleteSafely, WorkerStops, brokerVars
<1>3. CASE Ack(g, n)
  <2>1. task'[g][n] \in {"delete", "done", "gone"}
    BY <1>3, GoTaskArrives DEF Ack, AfterAck
  <2>2. \A k \in Gens : msg[k] \in {"pending", "acked"} => msg'[k] \in {"pending", "acked"}
    BY <1>3 DEF Ack, Settle, IInv, TypeOK
  <2> QED BY <2>1, <2>2
<1>4. CASE Nak(g, n)
  <2>1. task'[g][n] \in {"done", "gone"}
    BY <1>4, GoTaskArrives DEF Nak, AfterNak
  <2>2. \A k \in Gens : k # g => msg'[k] = msg[k]
    BY <1>4 DEF Nak, Settle, IInv, TypeOK
  <2>3. \A m \in Deliveries : m # n => task[g][m] \notin RunningSteps
    BY <1>4 DEF Nak
  <2> QED BY <2>1, <2>2, <2>3
<1>5. CASE InProgress(g, n)
  BY <1>5 DEF InProgress
<1> QED BY <1>1, <1>2, <1>3, <1>4, <1>5 DEF TaskStep

LEMMA NextLease ==
  ASSUME "nats_loss" \notin Faults PROVE IInv /\ Lease /\ [Next]_vars => Lease'
<1> SUFFICES ASSUME IInv, Lease, [Next]_vars PROVE Lease'
  OBVIOUS
<1>1. CASE UNCHANGED vars
  BY <1>1 DEF vars, Lease, LeaseInv
<1> QED BY <1>1, RequestLease, BrokerLease, TaskLease DEF Next

\* While NATS is not lost, a generation is never processed by two deliveries
\* at once, however the workers, the databases and the storage fail.
THEOREM OneRunnerAtATime ==
  ASSUME "nats_loss" \notin Faults PROVE Spec => []SingleRunner
<1>1. Lease => SingleRunner
  BY DEF Lease, LeaseInv, RunningSteps, SingleRunner
<1> QED BY <1>1, InitLease, NextLease, InductiveInvariant, PTL DEF Spec

-----------------------------------------------------------------------------
(* Without no_count: what the delivery limit guarantees. *)

\* From delivery MaxDeliveries on, a task runs nothing and sends no NAK, and
\* it gets to its ack only after the row has been decided.
LimitInv(g) ==
  \A n \in Deliveries :
    n >= MaxDeliveries =>
      /\ task[g][n] \notin {"load", "solve", "save", "nak"}
      /\ task[g][n] \in {"ack", "delete", "done"} => row[g] # "PENDING"

Limit == \A g \in Gens : LimitInv(g)

LEMMA InitLimit == Init => Limit
BY DEF Init, Limit, LimitInv

LEMMA RequestLimit ==
  ASSUME IInv, Limit, NEW g \in Gens,
         \/ StartGeneration(g) \/ StartGenerationFromCrm(g)
         \/ ApiStep(g) \/ ApiCrash(g) \/ DeleteGeneration(g)
  PROVE  Limit'
<1> SUFFICES ASSUME NEW h \in Gens PROVE LimitInv(h)'
  BY DEF Limit
<1>1. UNCHANGED task
  BY DEF StartGeneration, StartGenerationFromCrm, ApiStep, CommitRow, Publish,
         MarkFailedToQueue, BestEffortDelete, ApiCrash, DeleteGeneration, taskVars
<1>2. CASE row[h] # "PENDING" => row'[h] # "PENDING"
  BY <1>1, <1>2 DEF Limit, LimitInv
<1>3. CASE CommitRow(g) /\ h = g
  <2>1. \A n \in Deliveries : task[g][n] = "none"
    BY <1>3 DEF CommitRow, IInv, TypeOK, GenInv, RequestInv, DeliveryInv, Deliveries
  <2> QED BY <1>1, <1>3, <2>1 DEF LimitInv
<1>4. ~(CommitRow(g) /\ h = g) => (row[h] # "PENDING" => row'[h] # "PENDING")
  BY DEF StartGeneration, StartGenerationFromCrm, ApiStep, CommitRow, Publish,
         MarkFailedToQueue, BestEffortDelete, ApiCrash, DeleteGeneration, dbVars, IInv, TypeOK
<1> QED BY <1>2, <1>3, <1>4

LEMMA BrokerLimit ==
  ASSUME IInv, Limit, NEW g \in Gens, BrokerStep(g) PROVE Limit'
<1> SUFFICES ASSUME NEW h \in Gens PROVE LimitInv(h)'
  BY DEF Limit
<1>1. UNCHANGED row
  BY DEF BrokerStep, LatePublish, Deliver, Redeliver, Exhaust, AckWaitExpires,
         StartDelivery, dbVars
<1>2. CASE UNCHANGED task
  BY <1>1, <1>2 DEF Limit, LimitInv
<1>3. CASE StartDelivery(g)
  <2>1. g \in BadEvents => row[g] # "PENDING"
    BY DEF IInv, GenInv, RequestInv
  <2> QED BY <1>1, <1>3, <2>1 DEF StartDelivery, GoTask, IInv, TypeOK, Limit, LimitInv
<1> QED BY <1>2, <1>3
    DEF BrokerStep, LatePublish, Deliver, Redeliver, Exhaust, AckWaitExpires, taskVars

LEMMA TaskLimit ==
  ASSUME "no_count" \notin Faults, IInv, Limit, NEW g \in Gens, NEW n \in Deliveries,
         TaskStep(g, n) \/ InProgress(g, n) \/ WorkerStops(g, n)
  PROVE  Limit'
<1> SUFFICES ASSUME NEW h \in Gens PROVE LimitInv(h)'
  BY DEF Limit
<1>0. HandlerStep(g, n)
  BY TaskStepHandlerStep
<1>1. /\ \A k \in Gens, m \in Deliveries : k # g \/ m # n => task'[k][m] = task[k][m]
      /\ \A k \in Gens : row[k] # "PENDING" => row'[k] # "PENDING"
  <2>1. \A k \in Gens, m \in Deliveries : k # g \/ m # n => task'[k][m] = task[k][m]
    BY <1>0, OneTaskMoves
  <2>2. CASE UNCHANGED row
    BY <2>1, <2>2
  <2>3. CASE SaveSuccess(g) \/ SaveFailure(g)
    BY <2>1, <2>3 DEF SaveSuccess, SaveFailure, Claim, IInv, TypeOK
  <2> QED BY <1>0, <2>2, <2>3 DEF HandlerStep
<1>2. SUFFICES
        n >= MaxDeliveries =>
          /\ task'[g][n] \notin {"load", "solve", "save", "nak"}
          /\ task'[g][n] \in {"ack", "delete", "done"} => row'[g] # "PENDING"
  BY <1>1, <1>2 DEF Limit, LimitInv
<1> SUFFICES ASSUME n >= MaxDeliveries
             PROVE  /\ task'[g][n] \notin {"load", "solve", "save", "nak"}
                    /\ task'[g][n] \in {"ack", "delete", "done"} => row'[g] # "PENDING"
  OBVIOUS
<1>3. /\ task[g][n] \notin {"load", "solve", "save", "nak"}
      /\ task[g][n] \in {"ack", "delete", "done"} => row[g] # "PENDING"
  BY DEF Limit, LimitInv
<1>4. CASE Snapshot(g, n)
  <2>1. \A count \in DeliveryCounts(n) : LimitReached(count)
    BY DEF DeliveryCounts, May, LimitReached
  <2> QED BY <1>4, <2>1, GoTaskArrives DEF Snapshot, dbVars
<1>5. CASE PersistFailure(g, n) \/ Unhandled(g, n)
  <2>1. \/ task'[g][n] = "ack" /\ SaveFailure(g)
        \/ task'[g][n] \in {"unhandled", "gone"}
    BY <1>5, GoTaskArrives DEF PersistFailure, Unhandled
  <2> QED BY <2>1 DEF SaveFailure, Claim, IInv, TypeOK
<1>6. CASE Ack(g, n) \/ DeleteSafely(g, n) \/ WorkerStops(g, n)
  <2>1. task'[g][n] \in {"delete", "done", "gone"}
    BY <1>6, GoTaskArrives DEF Ack, AfterAck, DeleteSafely, WorkerStops
  <2> QED BY <1>1, <1>3, <1>6, <2>1, GoTaskArrives DEF Ack, DeleteSafely, WorkerStops
<1>7. CASE InProgress(g, n)
  BY <1>7 DEF InProgress, InProgressSteps, taskVars, Limit, LimitInv
<1>8. ~(Load(g, n) \/ RunAlgorithm(g, n) \/ PersistSuccess(g, n) \/ Nak(g, n))
  BY <1>3 DEF Load, RunAlgorithm, PersistSuccess, Nak
<1> QED BY <1>4, <1>5, <1>6, <1>7, <1>8 DEF TaskStep

LEMMA NextLimit ==
  ASSUME "no_count" \notin Faults PROVE IInv /\ Limit /\ [Next]_vars => Limit'
<1> SUFFICES ASSUME IInv, Limit, [Next]_vars PROVE Limit'
  OBVIOUS
<1>1. CASE UNCHANGED vars
  BY <1>1 DEF vars, Limit, LimitInv
<1> QED BY <1>1, RequestLimit, BrokerLimit, TaskLimit DEF Next

\* With a readable delivery count, a generation that max_deliver leaves
\* PENDING has lost both of its deliveries past the limit.
THEOREM StuckNeedsTwoLosses ==
  ASSUME "no_count" \notin Faults PROVE Spec => []StuckOnlyAfterTwoLosses
<1>1. IInv /\ Limit => StuckOnlyAfterTwoLosses
  <2> SUFFICES ASSUME IInv, Limit, NEW g \in Gens, row[g] = "PENDING", msg[g] = "exhausted",
                      NEW n \in MaxDeliveries .. MaxDeliver
               PROVE  task[g][n] \in {"snapshot", "fail", "unhandled", "gone"}
    BY DEF StuckOnlyAfterTwoLosses
  <2>1. n \in Deliveries /\ n >= MaxDeliveries
    BY PipelineAssumption DEF Deliveries, MaxDeliver
  <2>2. delivered[g] = MaxDeliver /\ n <= MaxDeliver
    BY PipelineAssumption DEF IInv, GenInv, DeliveryInv, MaxDeliver
  <2>3. task[g][n] # "none"
    BY <2>1, <2>2, PipelineAssumption DEF IInv, GenInv, DeliveryInv, Deliveries, MaxDeliver
  <2>4. task[g][n] \in TaskSteps
    BY <2>1 DEF IInv, TypeOK
  <2> QED BY <2>1, <2>3, <2>4 DEF Limit, LimitInv, TaskSteps, InProgressSteps
<1> QED BY <1>1, InitLimit, NextLimit, InductiveInvariant, PTL DEF Spec

-----------------------------------------------------------------------------
(* Without nats_loss, worker_stop, db_error and no_count: the crash budget. *)

\* Each delivery counts one crash at most, one that may still solve has not
\* counted its own, and the crash that uses up the budget leads to "fail", from
\* where the row is decided before the message is answered.
BudgetInv(g) ==
  /\ crashes[g] <= delivered[g] /\ crashes[g] <= MaxSolverCrashDeliveries
  /\ \A n \in Deliveries :
       /\ task[g][n] \in {"snapshot", "load", "solve"} => crashes[g] < delivered[g]
       /\ task[g][n] \in {"load", "solve"} => crashes[g] < MaxSolverCrashDeliveries
  /\ row[g] = "PENDING" =>
       \/ crashes[g] < MaxSolverCrashDeliveries
       \/ \E n \in Deliveries : task[g][n] = "fail"

Budget == \A g \in Gens : BudgetInv(g)

\* The faults that make a worker lose what it was about to record.
Losses == {"nats_loss", "worker_stop", "db_error", "no_count"}

LEMMA InitBudget == Init => Budget
BY PipelineAssumption DEF Init, Budget, BudgetInv

LEMMA RequestBudget ==
  ASSUME IInv, Budget, NEW g \in Gens,
         \/ StartGeneration(g) \/ StartGenerationFromCrm(g)
         \/ ApiStep(g) \/ ApiCrash(g) \/ DeleteGeneration(g)
  PROVE  Budget'
<1> SUFFICES ASSUME NEW h \in Gens PROVE BudgetInv(h)'
  BY DEF Budget
<1>1. UNCHANGED <<task, delivered, crashes>>
  BY DEF StartGeneration, StartGenerationFromCrm, ApiStep, CommitRow, Publish,
         MarkFailedToQueue, BestEffortDelete, ApiCrash, DeleteGeneration, taskVars, brokerVars
<1>2. CASE row'[h] = "PENDING" => row[h] = "PENDING"
  BY <1>1, <1>2 DEF Budget, BudgetInv
<1>3. CASE CommitRow(g) /\ h = g
  <2>1. delivered[g] = 0 /\ crashes[g] \in Nat
    BY <1>3 DEF CommitRow, IInv, TypeOK, GenInv, RequestInv, DeliveryInv
  <2>2. crashes[g] < MaxSolverCrashDeliveries
    BY <2>1, PipelineAssumption DEF Budget, BudgetInv
  <2> QED BY <1>1, <1>3, <2>2 DEF Budget, BudgetInv
<1>4. ~(CommitRow(g) /\ h = g) => (row'[h] = "PENDING" => row[h] = "PENDING")
  BY DEF StartGeneration, StartGenerationFromCrm, ApiStep, CommitRow, Publish,
         MarkFailedToQueue, BestEffortDelete, ApiCrash, DeleteGeneration, dbVars, IInv, TypeOK
<1> QED BY <1>2, <1>3, <1>4

LEMMA BrokerBudget ==
  ASSUME IInv, Lease, Budget, NEW g \in Gens, BrokerStep(g) PROVE Budget'
<1> SUFFICES ASSUME NEW h \in Gens PROVE BudgetInv(h)'
  BY DEF Budget
<1>1. UNCHANGED <<row, crashes>>
  BY DEF BrokerStep, LatePublish, Deliver, Redeliver, Exhaust, AckWaitExpires,
         StartDelivery, dbVars, taskVars
<1>2. CASE UNCHANGED <<task, delivered>>
  BY <1>1, <1>2 DEF Budget, BudgetInv
<1>3. CASE StartDelivery(g) /\ msg[g] \in {"queued", "due"}
  <2>1. delivered' = [delivered EXCEPT ![g] = delivered[g] + 1] /\ delivered[g] \in Nat /\ crashes[g] \in Nat
    BY <1>3, PipelineAssumption DEF StartDelivery, IInv, TypeOK, MaxDeliver
  <2>2. CASE h = g
    <3>1. \A n \in Deliveries : task[g][n] \notin RunningSteps
      BY <1>3 DEF Lease, LeaseInv
    <3>2. \A n \in Deliveries : task'[g][n] \notin {"load", "solve"}
      BY <1>3, <3>1 DEF StartDelivery, GoTask, IInv, TypeOK, RunningSteps, InProgressSteps
    <3>3. row[g] = "PENDING" => crashes[g] < MaxSolverCrashDeliveries
      BY <3>1 DEF Budget, BudgetInv, RunningSteps, InProgressSteps
    <3>4. crashes[g] < delivered'[g] /\ crashes[g] <= delivered'[g]
      BY <2>1 DEF Budget, BudgetInv, IInv, TypeOK
    <3> QED BY <1>1, <2>2, <3>2, <3>3, <3>4, PipelineAssumption DEF Budget, BudgetInv
  <2>3. CASE h # g
    BY <1>1, <1>3, <2>1, <2>3 DEF StartDelivery, GoTask, IInv, TypeOK, Budget, BudgetInv
  <2> QED BY <2>2, <2>3
<1> QED BY <1>2, <1>3
    DEF BrokerStep, LatePublish, Deliver, Redeliver, Exhaust, AckWaitExpires, taskVars

LEMMA TaskBudget ==
  ASSUME Losses \cap Faults = {}, IInv, Lease, Budget, NEW g \in Gens, NEW n \in Deliveries,
         TaskStep(g, n) \/ InProgress(g, n) \/ WorkerStops(g, n)
  PROVE  Budget'
<1> SUFFICES ASSUME NEW h \in Gens PROVE BudgetInv(h)'
  BY DEF Budget
<1> DEFINE M == MaxSolverCrashDeliveries
<1>0. HandlerStep(g, n)
  BY TaskStepHandlerStep
<1>1. /\ \A k \in Gens, m \in Deliveries : k # g \/ m # n => task'[k][m] = task[k][m]
      /\ \A k \in Gens : row'[k] = "PENDING" => row[k] = "PENDING"
      /\ UNCHANGED delivered
  <2>1. \A k \in Gens, m \in Deliveries : k # g \/ m # n => task'[k][m] = task[k][m]
    BY <1>0, OneTaskMoves
  <2>2. CASE UNCHANGED row
    BY <1>0, <2>1, <2>2 DEF HandlerStep
  <2>3. CASE SaveSuccess(g) \/ SaveFailure(g)
    BY <1>0, <2>1, <2>3 DEF HandlerStep, SaveSuccess, SaveFailure, Claim, IInv, TypeOK
  <2> QED BY <1>0, <2>2, <2>3 DEF HandlerStep
<1>2. crashes[g] \in Nat /\ delivered[g] \in Nat /\ M \in Nat /\ n \in Nat
  BY PipelineAssumption DEF IInv, TypeOK, MaxDeliver, Deliveries
<1>3. CASE h # g
  <2>1. crashes'[h] = crashes[h]
    BY <1>3 DEF TaskStep, Snapshot, Load, RunAlgorithm, PersistSuccess, PersistFailure, Unhandled, Ack, Nak,
       DeleteSafely, InProgress, WorkerStops, taskVars, IInv, TypeOK
  <2>2. \A m \in Deliveries : task'[h][m] = task[h][m]
    BY <1>1, <1>3
  <2> QED BY <1>1, <2>1, <2>2 DEF Budget, BudgetInv
<1>4. ASSUME h = g, UNCHANGED crashes, task[g][n] # "fail",
             \/ task'[g][n] \notin {"snapshot", "load", "solve"}
             \/ task'[g][n] = task[g][n]
             \/ task[g][n] = "load"
             \/ task[g][n] = "snapshot" /\ row[g] = "PENDING"
      PROVE  BudgetInv(h)'
  <2>1. task[g][n] = "snapshot" /\ row[g] = "PENDING" => crashes[g] < M
    BY DEF Budget, BudgetInv, Lease, LeaseInv, RunningSteps, InProgressSteps
  <2>2. /\ task'[g][n] \in {"snapshot", "load", "solve"} => crashes[g] < delivered[g]
        /\ task'[g][n] \in {"load", "solve"} => crashes[g] < M
    BY <1>4, <2>1 DEF Budget, BudgetInv
  <2>3. row'[g] = "PENDING" => crashes[g] < M \/ \E m \in Deliveries : task'[g][m] = "fail"
    BY <1>1, <1>4 DEF Budget, BudgetInv
  <2> QED BY <1>1, <1>4, <2>2, <2>3 DEF Budget, BudgetInv
<1>5. CASE h = g /\ Snapshot(g, n)
  <2>1. task[g][n] = "snapshot" /\ UNCHANGED crashes
    BY <1>5 DEF Snapshot
  <2>2. row[g] = "PENDING" \/ task'[g][n] \in {"ack", "unhandled"}
    BY <1>5, GoTaskArrives DEF Snapshot
  <2> QED BY <1>4, <1>5, <2>1, <2>2
<1>6. CASE h = g /\ Load(g, n)
  BY <1>4, <1>6 DEF Load
<1>7. CASE h = g /\ RunAlgorithm(g, n)
  <2>1. task[g][n] = "solve" /\ crashes[g] < delivered[g] /\ crashes[g] < M /\ n = delivered[g]
    BY <1>7 DEF RunAlgorithm, Budget, BudgetInv, Lease, LeaseInv, RunningSteps, InProgressSteps
  <2>2. CASE UNCHANGED crashes
    <3>1. task'[g][n] \in {"save", "fail", "nak"}
      BY <1>7, GoTaskArrives DEF RunAlgorithm, AfterSolverCrash
    <3> QED BY <1>4, <1>7, <2>1, <2>2, <3>1
  <2>3. CASE AfterSolverCrash(g, n) /\ crashes' = [crashes EXCEPT ![g] = @ + 1]
    <3>1. crashes'[g] = crashes[g] + 1
      BY <2>3 DEF IInv, TypeOK
    <3>2. \/ task'[g][n] = "nak" /\ n < M
          \/ task'[g][n] = "fail"
      BY <2>3, GoTaskArrives DEF AfterSolverCrash, DeliveryCounts, May, Losses, RetriesCrash
    <3>3. \A m \in Deliveries : task'[g][m] \notin {"snapshot", "load", "solve"}
      BY <1>1, <2>1, <3>2 DEF Lease, LeaseInv, RunningSteps, InProgressSteps
    <3>4. crashes'[g] <= delivered'[g] /\ crashes'[g] <= M
      BY <1>1, <1>2, <2>1, <3>1
    <3>5. crashes'[g] < M \/ task'[g][n] = "fail"
      BY <1>2, <2>1, <3>1, <3>2
    <3> QED BY <1>7, <3>3, <3>4, <3>5 DEF BudgetInv
  <2> QED BY <1>7, <2>2, <2>3 DEF RunAlgorithm
<1>8. CASE h = g /\ PersistFailure(g, n)
  <2>1. SaveFailure(g) /\ UNCHANGED crashes /\ task'[g][n] \in {"ack", "unhandled"}
    BY <1>8, GoTaskArrives DEF PersistFailure, RaisesBeforeCommit, May, Losses
  <2>2. row'[g] # "PENDING"
    BY <2>1 DEF SaveFailure, Claim, IInv, TypeOK
  <2> QED BY <1>1, <1>8, <2>1, <2>2 DEF Budget, BudgetInv
<1>9. CASE h = g /\ (PersistSuccess(g, n) \/ Unhandled(g, n) \/ Ack(g, n) \/ Nak(g, n) \/ DeleteSafely(g, n))
  <2>1. task[g][n] # "fail" /\ UNCHANGED crashes
    BY <1>9 DEF PersistSuccess, Unhandled, Ack, Nak, DeleteSafely
  <2>2. task'[g][n] \in {"ack", "nak", "gone", "done", "delete"}
    BY <1>9, GoTaskArrives DEF PersistSuccess, Unhandled, Ack, Nak, DeleteSafely, AfterAck, AfterNak
  <2> QED BY <1>4, <1>9, <2>1, <2>2
<1>10. CASE h = g /\ InProgress(g, n)
  BY <1>1, <1>10 DEF InProgress, taskVars, dbVars, Budget, BudgetInv
<1>11. ~ WorkerStops(g, n)
  BY DEF WorkerStops, May, Losses
<1> QED BY <1>3, <1>5, <1>6, <1>7, <1>8, <1>9, <1>10, <1>11 DEF TaskStep

LEMMA NextBudget ==
  ASSUME Losses \cap Faults = {} PROVE IInv /\ Lease /\ Budget /\ [Next]_vars => Budget'
<1> SUFFICES ASSUME IInv, Lease, Budget, [Next]_vars PROVE Budget'
  OBVIOUS
<1>1. CASE UNCHANGED vars
  BY <1>1 DEF vars, Budget, BudgetInv
<1> QED BY <1>1, RequestBudget, BrokerBudget, TaskBudget DEF Next

\* A generation whose solver crashes every time is solved at most
\* _MAX_SOLVER_CRASH_DELIVERIES times, whatever else makes the broker deliver it
\* again in between, as long as no worker loses what it was about to record.
THEOREM CrashesAreBounded ==
  ASSUME Losses \cap Faults = {} PROVE Spec => []CrashBudget
<1>1. "nats_loss" \notin Faults
  BY DEF Losses
<1>2. Budget => CrashBudget
  BY DEF Budget, BudgetInv, CrashBudget
<1> QED BY <1>1, <1>2, InitBudget, NextBudget, InitLease, NextLease, InductiveInvariant, PTL DEF Spec

-----------------------------------------------------------------------------
(* Without the faults that stop a cleanup: the object is released. *)

\* The faults after which the code gives the object up, or which stop whoever
\* was about to remove it.
Leaks == Losses \cup {"api_crash", "lost_commit", "crm_error", "storage_denied", "delete_error"}

Decided(g) == row[g] \in {"SUCCESS", "FAILED"}
KeySteps == {"load", "solve", "save", "fail", "ack"}

\* A task is about to remove the object.
Removes(g, n) == task[g][n] = "delete" \/ (task[g][n] = "ack" /\ key[g][n] = "key")

\* The message is held until it is answered and comes back for as long as it is
\* not acked, a task that knows no key has none to remove, and a finished
\* generation whose object is there has somebody who will remove it.
ReleaseInv(g) ==
  /\ g \in bucket => HasFile(g) /\ api[g] # "idle"
  /\ api[g] \in {"publish", "mark"} => row[g] # "absent"
  /\ msg[g] = "pending" => HoldsMessage(g)
  /\ msg[g] = "due" => delivered[g] < MaxDeliver
  /\ msg[g] # "exhausted"
  /\ \A n \in Deliveries :
       /\ task[g][n] # "unhandled"
       /\ task[g][n] \in KeySteps /\ key[g][n] = "None" =>
            g \notin bucket \/ row[g] \in {"absent", "deleted"}
  /\ g \in bucket /\ Decided(g) =>
       \/ api[g] \in ActiveApi
       \/ msg[g] \in {"delayed", "queued", "pending", "due"}
       \/ \E n \in Deliveries : Removes(g, n)

Release == \A g \in Gens : ReleaseInv(g)

LEMMA InitRelease == Init => Release
BY DEF Init, Release, ReleaseInv, Decided

LEMMA RequestRelease ==
  ASSUME Leaks \cap Faults = {}, IInv, Release, NEW g \in Gens,
         \/ StartGeneration(g) \/ StartGenerationFromCrm(g)
         \/ ApiStep(g) \/ ApiCrash(g) \/ DeleteGeneration(g)
  PROVE  Release'
<1> SUFFICES ASSUME NEW h \in Gens PROVE ReleaseInv(h)'
  BY DEF Release
<1>0. UNCHANGED <<task, key, delivered>>
  BY DEF StartGeneration, StartGenerationFromCrm, ApiStep, CommitRow, Publish,
         MarkFailedToQueue, BestEffortDelete, ApiCrash, DeleteGeneration, taskVars, brokerVars
<1> USE <1>0 DEF IInv, TypeOK, Release, ReleaseInv, HoldsMessage, HasFile, Decided, Removes
<1>1. api[g] \in {"idle", "commit"} => \A n \in Deliveries : task[g][n] = "none"
  BY DEF GenInv, RequestInv, DeliveryInv, Deliveries
<1>2. CASE StartGeneration(g)
  <2>1. row[g] = "absent"
    BY <1>2 DEF StartGeneration, GenInv, RequestInv
  <2>2. UNCHANGED <<row, msg>> /\ source'[g] = "FILE" /\ bucket' \subseteq bucket \cup {g}
    BY <1>2 DEF StartGeneration, brokerVars
  <2>3. CASE h = g
    <3>1. api'[g] \in {"commit", "over"} /\ msg[g] = "none"
      BY <1>2 DEF StartGeneration, GoApi, GenInv, RequestInv
    <3> QED BY <1>1, <2>1, <2>2, <2>3, <3>1 DEF KeySteps
  <2>4. CASE h # g
    <3>1. source'[h] = source[h] /\ api'[h] = api[h] /\ (h \in bucket' <=> h \in bucket)
      BY <1>2, <2>4 DEF StartGeneration, GoApi
    <3> QED BY <2>2, <3>1
  <2> QED BY <2>3, <2>4
<1>3. CASE StartGenerationFromCrm(g)
  <2>1. g \notin bucket /\ UNCHANGED <<row, msg, bucket>> /\ \A k \in Gens \ {g} : source'[k] = source[k] /\ api'[k] = api[k]
    BY <1>3 DEF StartGenerationFromCrm, GoApi, brokerVars, GenInv, RequestInv, FileInv
  <2>2. api'[g] = "commit" /\ row[g] = "absent" /\ msg[g] = "none"
    BY <1>3 DEF StartGenerationFromCrm, GoApi, GenInv, RequestInv
  <2>3. CASE h = g
    BY <1>1, <2>1, <2>2, <2>3 DEF KeySteps
  <2>4. CASE h # g
    BY <2>1, <2>4
  <2> QED BY <2>3, <2>4
<1>4. CASE CommitRow(g)
  <2>1. /\ row' = [row EXCEPT ![g] = "PENDING"] /\ api' = [api EXCEPT ![g] = "publish"]
        /\ UNCHANGED <<source, bucket, msg>> /\ api[g] = "commit"
    BY <1>4 DEF CommitRow, GoApi, May, Leaks, Losses, brokerVars
  <2> QED BY <1>1, <2>1 DEF KeySteps
<1>5. CASE Publish(g)
  <2>1. /\ \E m \in {"queued", "delayed", "none"}, a \in {"over", "mark"} :
             /\ msg' = [msg EXCEPT ![g] = m] /\ api' = [api EXCEPT ![g] = a]
             /\ m = "none" => a = "mark"
        /\ UNCHANGED <<row, source, bucket>>
    <3>1. msg[g] = "none" /\ UNCHANGED <<row, source, bucket>>
      BY <1>5 DEF Publish, GenInv, RequestInv, dbVars
    <3>2. UNCHANGED msg => msg' = [msg EXCEPT ![g] = "none"]
      BY <3>1
    <3> QED BY <1>5, <3>1, <3>2 DEF Publish, GoApi
  <2>2. api[g] = "publish" /\ api'[g] \in {"over", "mark"} /\ msg'[g] \in {"queued", "delayed", "none"}
    BY <1>5, <2>1 DEF Publish
  <2>3. msg'[g] = "none" => api'[g] = "mark"
    BY <2>1
  <2>4. CASE h = g
    BY <2>1, <2>2, <2>3, <2>4 DEF ActiveApi
  <2>5. CASE h # g
    BY <2>1, <2>5
  <2> QED BY <2>4, <2>5
<1>6. CASE MarkFailedToQueue(g)
  <2>1. /\ \/ row' = [row EXCEPT ![g] = IF @ = "deleted" THEN @ ELSE "FAILED"] /\ GoApi(g, RemoveObjectOr(g))
           \/ row[g] = "deleted" /\ UNCHANGED row /\ GoApi(g, "over")
        /\ UNCHANGED <<source, bucket, msg>>
    BY <1>6 DEF MarkFailedToQueue, May, Leaks, Losses, brokerVars
  <2>2. CASE h # g
    BY <2>1, <2>2 DEF GoApi
  <2>3. CASE h = g
    <3>1. \/ row'[g] = "deleted" /\ row[g] = "deleted" /\ api'[g] \in {"cleanup", "over"}
          \/ row[g] # "deleted" /\ row'[g] = "FAILED" /\ api'[g] = RemoveObjectOr(g)
      BY <2>1 DEF GoApi, RemoveObjectOr
    <3>2. row[g] # "absent"
      BY <1>6 DEF MarkFailedToQueue
    <3>3. api'[g] \in {"cleanup", "over"} /\ (HasFile(g) /\ row[g] # "deleted" => api'[g] = "cleanup")
      BY <3>1 DEF RemoveObjectOr
    <3> QED BY <2>1, <2>3, <3>1, <3>2, <3>3 DEF ActiveApi
  <2> QED BY <2>2, <2>3
<1>7. CASE BestEffortDelete(g)
  <2>1. bucket' = bucket \ {g} /\ UNCHANGED <<row, source, msg>> /\ \A k \in Gens \ {g} : api'[k] = api[k]
    BY <1>7 DEF BestEffortDelete, DeleteObject, GoApi, May, Leaks, Losses, dbVars, brokerVars
  <2>2. api'[g] = "over"
    BY <1>7 DEF BestEffortDelete, GoApi
  <2>3. CASE h = g
    BY <2>1, <2>2, <2>3
  <2>4. CASE h # g
    BY <2>1, <2>4
  <2> QED BY <2>3, <2>4
<1>8. CASE DeleteGeneration(g)
  BY <1>8 DEF DeleteGeneration, brokerVars
<1>9. ~ ApiCrash(g)
  BY DEF ApiCrash, May, Leaks
<1> QED BY <1>2, <1>3, <1>4, <1>5, <1>6, <1>7, <1>8, <1>9 DEF ApiStep

\* A generation of which nothing changes keeps its part of the invariant.
LEMMA ReleaseFrame ==
  ASSUME NEW h \in Gens, ReleaseInv(h), UNCHANGED source,
         row'[h] = row[h], api'[h] = api[h], msg'[h] = msg[h], delivered'[h] = delivered[h],
         h \in bucket' => h \in bucket,
         \A n \in Deliveries : task'[h][n] = task[h][n] /\ key'[h][n] = key[h][n]
  PROVE  ReleaseInv(h)'
BY DEF ReleaseInv, HasFile, HoldsMessage, Decided, Removes

LEMMA BrokerRelease ==
  ASSUME Leaks \cap Faults = {}, IInv, Release, NEW g \in Gens, BrokerStep(g)
  PROVE  Release'
<1> SUFFICES ASSUME NEW h \in Gens PROVE ReleaseInv(h)'
  BY DEF Release
<1>0. UNCHANGED <<row, source, bucket, api, key>> /\ ReleaseInv(h) /\ ReleaseInv(g)
  BY DEF BrokerStep, LatePublish, Deliver, Redeliver, Exhaust, AckWaitExpires,
         StartDelivery, dbVars, taskVars, Release
<1>1. CASE LatePublish(g)
  <2>1. msg' = [msg EXCEPT ![g] = "queued"] /\ msg[g] = "delayed" /\ UNCHANGED <<task, delivered>>
    BY <1>1 DEF LatePublish, taskVars
  <2>2. CASE h = g
    BY <1>0, <2>1, <2>2 DEF IInv, TypeOK, ReleaseInv, HasFile, HoldsMessage, Decided, Removes
  <2>3. CASE h # g
    BY <1>0, <2>1, <2>3, ReleaseFrame DEF IInv, TypeOK
  <2> QED BY <2>2, <2>3
<1>2. CASE Deliver(g) \/ Redeliver(g)
  <2>1. /\ msg[g] \in {"queued", "due"} /\ msg' = [msg EXCEPT ![g] = "pending"]
        /\ delivered' = [delivered EXCEPT ![g] = delivered[g] + 1]
        /\ GoTask(g, delivered[g] + 1, IF g \in BadEvents THEN "ack" ELSE "snapshot")
    BY <1>2 DEF Deliver, Redeliver, StartDelivery
  <2>2. delivered[g] + 1 \in Deliveries /\ task[g][delivered[g] + 1] = "none"
    <3>1. delivered[g] \in 0 .. MaxDeliver /\ MaxDeliver \in Nat /\ MaxDeliver >= 1
      BY PipelineAssumption DEF IInv, TypeOK, MaxDeliver
    <3>2. delivered[g] < MaxDeliver
      BY <1>0, <2>1, <3>1 DEF IInv, GenInv, DeliveryInv, ReleaseInv
    <3>3. delivered[g] + 1 \in Deliveries /\ delivered[g] + 1 > delivered[g]
      BY <3>1, <3>2 DEF Deliveries
    <3> QED BY <3>3 DEF IInv, GenInv, DeliveryInv
  <2>3. \A k \in Gens, m \in Deliveries : k # g \/ m # delivered[g] + 1 => task'[k][m] = task[k][m]
    BY <2>1, <2>2 DEF GoTask, IInv, TypeOK
  <2>4. task'[g][delivered[g] + 1] = IF g \in BadEvents THEN "ack" ELSE "snapshot"
    BY <2>1, <2>2, GoTaskArrives
  <2>5. CASE h = g
    <3>1. HoldsMessage(g)' /\ msg'[g] = "pending"
      BY <2>1, <2>2, <2>4 DEF HoldsMessage, InProgressSteps, IInv, TypeOK
    <3>2. g \in BadEvents => row[g] = "absent"
      BY DEF IInv, GenInv, RequestInv
    <3>3. \A n \in Deliveries :
            /\ task'[g][n] # "unhandled"
            /\ task'[g][n] \in KeySteps /\ key'[g][n] = "None" =>
                 g \notin bucket' \/ row'[g] \in {"absent", "deleted"}
      BY <1>0, <2>3, <2>4, <3>2 DEF ReleaseInv, KeySteps
    <3> QED BY <1>0, <2>5, <3>1, <3>3 DEF ReleaseInv, HasFile, Decided
  <2>6. CASE h # g
    BY <1>0, <2>1, <2>3, <2>6, ReleaseFrame DEF IInv, TypeOK
  <2> QED BY <2>5, <2>6
<1>3. ~ Exhaust(g)
  BY <1>0, PipelineAssumption DEF Exhaust, ReleaseInv, MaxDeliver
<1>4. ~ AckWaitExpires(g)
  BY <1>0 DEF AckWaitExpires, ReleaseInv, May, Leaks, Losses
<1> QED BY <1>1, <1>2, <1>3, <1>4 DEF BrokerStep

LEMMA TaskRelease ==
  ASSUME Leaks \cap Faults = {}, IInv, Lease, Limit, Release, NEW g \in Gens, NEW n \in Deliveries,
         TaskStep(g, n) \/ InProgress(g, n) \/ WorkerStops(g, n)
  PROVE  Release'
<1> SUFFICES ASSUME NEW h \in Gens PROVE ReleaseInv(h)'
  BY DEF Release
<1>0. HandlerStep(g, n) /\ ReleaseInv(h) /\ ReleaseInv(g)
  BY TaskStepHandlerStep DEF Release
<1>1. /\ \A k \in Gens, m \in Deliveries :
           k # g \/ m # n => task'[k][m] = task[k][m] /\ key'[k][m] = key[k][m]
      /\ UNCHANGED <<source, api, delivered>>
  <2>1. PICK k \in {"None", "key"} : key' = [key EXCEPT ![g][n] = k]
    BY <1>0 DEF HandlerStep, TaskMoves
  <2>2. \A k1 \in Gens, m \in Deliveries : k1 # g \/ m # n => key'[k1][m] = key[k1][m]
    BY <2>1 DEF IInv, TypeOK
  <2> QED BY <1>0, <2>2, OneTaskMoves DEF HandlerStep
<1>2. /\ \A k \in Gens \ {g} : row'[k] = row[k] /\ msg'[k] = msg[k]
      /\ row'[g] = row[g] \/ (row[g] = "PENDING" /\ row'[g] \in {"SUCCESS", "FAILED"})
      /\ bucket' \subseteq bucket
  BY <1>0 DEF HandlerStep, SaveSuccess, SaveFailure, Claim, Settle, IInv, TypeOK
<1>3. CASE h # g
  BY <1>0, <1>1, <1>2, <1>3, ReleaseFrame
\* What is left to show of g, whichever step its task takes.
<1>4. ASSUME h = g, task'[g][n] # "unhandled",
             task'[g][n] \in KeySteps /\ key'[g][n] = "None" =>
               g \notin bucket' \/ row'[g] \in {"absent", "deleted"},
             msg'[g] = "pending" => HoldsMessage(g)',
             msg'[g] # "exhausted" /\ (msg'[g] = "due" => delivered[g] < MaxDeliver),
             g \in bucket' /\ Decided(g)' =>
               \/ api[g] \in ActiveApi
               \/ msg'[g] \in {"delayed", "queued", "pending", "due"}
               \/ \E m \in Deliveries : Removes(g, m)'
      PROVE  ReleaseInv(h)'
  <2>1. \A m \in Deliveries :
          /\ task'[g][m] # "unhandled"
          /\ task'[g][m] \in KeySteps /\ key'[g][m] = "None" =>
               g \notin bucket' \/ row'[g] \in {"absent", "deleted"}
    BY <1>0, <1>1, <1>2, <1>4 DEF ReleaseInv
  <2>2. /\ g \in bucket' => HasFile(g)' /\ api'[g] # "idle"
        /\ api'[g] \in {"publish", "mark"} => row'[g] # "absent"
    BY <1>0, <1>1, <1>2 DEF ReleaseInv, HasFile
  <2> QED BY <1>1, <1>4, <2>1, <2>2 DEF ReleaseInv
<1> USE DEF Leaks, Losses, May
\* A step before the answer that leaves the row and the message alone.
<1>5. ASSUME h = g, UNCHANGED <<row, msg, bucket>>, task[g][n] \notin {"ack", "delete"},
             task'[g][n] \in InProgressSteps \cup {"ack", "nak"},
             task'[g][n] \in KeySteps /\ key'[g][n] = "None" =>
               g \notin bucket \/ row[g] \in {"absent", "deleted"}
      PROVE  ReleaseInv(h)'
  <2>1. HoldsMessage(g)'
    BY <1>5 DEF HoldsMessage
  <2>2. \A m \in Deliveries : Removes(g, m) => Removes(g, m)'
    BY <1>1, <1>5 DEF Removes
  <2>3. g \in bucket /\ Decided(g) =>
          \/ api[g] \in ActiveApi
          \/ msg[g] \in {"delayed", "queued", "pending", "due"}
          \/ \E m \in Deliveries : Removes(g, m)'
    BY <1>0, <2>2 DEF ReleaseInv
  <2>4. (Decided(g))' <=> Decided(g)
    BY <1>5 DEF Decided
  <2>5. task'[g][n] # "unhandled"
    BY <1>5 DEF InProgressSteps
  <2> QED BY <1>0, <1>4, <1>5, <2>1, <2>3, <2>4, <2>5 DEF ReleaseInv
<1>6. CASE h = g /\ Snapshot(g, n)
  <2>1. /\ UNCHANGED <<row, msg, bucket>> /\ task[g][n] = "snapshot"
        /\ \/ row[g] \in {"absent", "deleted"} /\ GoTask(g, n, "ack")
           \/ SetKey(g, n, StorageKey(g)) /\ \E step \in {"ack", "fail", "load"} : GoTask(g, n, step)
    BY <1>6 DEF Snapshot, dbVars, brokerVars
  <2>2. /\ task'[g][n] \in {"ack", "fail", "load"}
        /\ row[g] \in {"absent", "deleted"} \/ key'[g][n] = StorageKey(g)
    BY <2>1, GoTaskArrives DEF SetKey, IInv, TypeOK
  <2>3. StorageKey(g) = "None" => g \notin bucket
    BY <1>0 DEF StorageKey, ReleaseInv
  <2> QED BY <1>5, <1>6, <2>1, <2>2, <2>3 DEF InProgressSteps
<1>7. CASE h = g /\ Load(g, n)
  <2>1. /\ UNCHANGED <<row, msg, bucket>> /\ task[g][n] = "load"
        /\ UNCHANGED key \/ g \notin bucket
        /\ \E step \in {"solve", "fail", "nak"} : GoTask(g, n, step)
    BY <1>7 DEF Load, LoadFromFile, LoadFromCrm, dbVars, brokerVars
  <2>2. task'[g][n] \in {"solve", "fail", "nak"}
    BY <2>1, GoTaskArrives
  <2>3. key'[g][n] = "None" => g \notin bucket \/ row[g] \in {"absent", "deleted"}
    BY <1>0, <2>1 DEF ReleaseInv, KeySteps
  <2> QED BY <1>5, <1>7, <2>1, <2>2, <2>3 DEF InProgressSteps
<1>8. CASE h = g /\ RunAlgorithm(g, n)
  <2>1. /\ UNCHANGED <<row, msg, bucket, key>> /\ task[g][n] = "solve"
        /\ \E step \in {"save", "fail", "nak"} : GoTask(g, n, step)
    BY <1>8 DEF RunAlgorithm, AfterSolverCrash, dbVars, brokerVars
  <2>2. task'[g][n] \in {"save", "fail", "nak"}
    BY <2>1, GoTaskArrives
  <2>3. key'[g][n] = "None" => g \notin bucket \/ row[g] \in {"absent", "deleted"}
    BY <1>0, <2>1 DEF ReleaseInv, KeySteps
  <2> QED BY <1>5, <1>8, <2>1, <2>2, <2>3 DEF InProgressSteps
<1>9. CASE h = g /\ (PersistSuccess(g, n) \/ PersistFailure(g, n))
  <2>1. UNCHANGED <<bucket, msg, key>> /\ task[g][n] \in {"save", "fail"} /\ task'[g][n] = "ack"
    BY <1>9, GoTaskArrives
    DEF PersistSuccess, PersistFailure, RaisesAfterCommit, RaisesBeforeCommit, brokerVars
  <2>2. key[g][n] = "None" => g \notin bucket \/ row[g] \in {"absent", "deleted"}
    BY <1>0, <2>1 DEF ReleaseInv, KeySteps
  <2>3. key[g][n] \in {"None", "key"}
    BY DEF IInv, TypeOK
  <2>4. HoldsMessage(g)'
    BY <2>1 DEF HoldsMessage
  <2>5. g \in bucket' /\ Decided(g)' => Removes(g, n)'
    BY <1>2, <2>1, <2>2, <2>3 DEF Decided, Removes
  <2>6. task'[g][n] # "unhandled" /\ (key'[g][n] = "None" => g \notin bucket' \/ row'[g] \in {"absent", "deleted"})
    BY <1>2, <2>1, <2>2
  <2> QED BY <1>0, <1>4, <1>9, <2>1, <2>4, <2>5, <2>6 DEF ReleaseInv
<1>10. CASE h = g /\ Ack(g, n)
  <2>1. /\ UNCHANGED <<row, bucket, key>> /\ task[g][n] = "ack" /\ task'[g][n] = AfterAck(g, n)
        /\ msg'[g] = IF msg[g] \in {"pending", "due"} THEN "acked" ELSE msg[g]
    BY <1>10, GoTaskArrives DEF Ack, Settle, dbVars, IInv, TypeOK
  <2>2. key[g][n] = "None" => g \notin bucket \/ row[g] \in {"absent", "deleted"}
    BY <1>0, <2>1 DEF ReleaseInv, KeySteps
  <2>3. key[g][n] \in {"None", "key"} /\ task'[g][n] \in {"delete", "done"}
    BY <2>1 DEF AfterAck, IInv, TypeOK
  <2>4. g \in bucket' /\ Decided(g)' => Removes(g, n)'
    BY <2>1, <2>2 DEF Decided, Removes, AfterAck
  <2> QED BY <1>0, <1>4, <1>10, <2>1, <2>3, <2>4 DEF ReleaseInv, KeySteps
<1>11. CASE h = g /\ Nak(g, n)
  <2>1. /\ UNCHANGED <<row, bucket, key>> /\ task[g][n] = "nak" /\ task'[g][n] = "done"
        /\ msg'[g] = IF msg[g] \in {"pending", "due"} THEN "due" ELSE msg[g]
    BY <1>11, GoTaskArrives DEF Nak, AfterNak, Settle, dbVars, IInv, TypeOK
  <2>2. delivered[g] < MaxDeliver
    <3>1. n = delivered[g] /\ ~(n >= MaxDeliveries)
      BY <2>1 DEF Lease, LeaseInv, RunningSteps, Limit, LimitInv
    <3>2. n \in Nat /\ MaxDeliveries \in Nat
      BY PipelineAssumption DEF Deliveries, MaxDeliver
    <3> QED BY <3>1, <3>2 DEF MaxDeliver
  <2>3. \A m \in Deliveries : Removes(g, m) => Removes(g, m)'
    BY <1>1, <2>1 DEF Removes
  <2>4. g \in bucket' /\ Decided(g)' =>
          \/ api[g] \in ActiveApi
          \/ msg'[g] \in {"delayed", "queued", "pending", "due"}
          \/ \E m \in Deliveries : Removes(g, m)'
    BY <1>0, <2>1, <2>3 DEF ReleaseInv, Decided
  <2> QED BY <1>0, <1>4, <1>11, <2>1, <2>2, <2>4 DEF ReleaseInv, KeySteps
<1>12. CASE h = g /\ DeleteSafely(g, n)
  <2>1. bucket' = bucket \ {g} /\ UNCHANGED <<row, msg>> /\ task[g][n] = "delete" /\ task'[g][n] = "done"
    BY <1>12, GoTaskArrives DEF DeleteSafely, DeleteObject, dbVars, brokerVars
  <2>2. msg[g] = "pending" => HoldsMessage(g)'
    <3>1. ASSUME msg[g] = "pending" PROVE HoldsMessage(g)'
      <4>1. PICK m \in Deliveries : task[g][m] \in InProgressSteps \cup {"ack", "nak"}
        BY <1>0, <3>1 DEF ReleaseInv, HoldsMessage
      <4>2. task'[g][m] = task[g][m]
        BY <1>1, <2>1, <4>1 DEF InProgressSteps
      <4> QED BY <4>1, <4>2 DEF HoldsMessage
    <3> QED BY <3>1
  <2> QED BY <1>0, <1>4, <1>12, <2>1, <2>2 DEF ReleaseInv, KeySteps
<1>13. ~ InProgress(g, n)
  BY DEF InProgress, Lease, LeaseInv, RunningSteps
<1>14. ~ Unhandled(g, n)
  BY <1>0 DEF Unhandled, ReleaseInv
<1>15. ~ WorkerStops(g, n)
  BY DEF WorkerStops
<1> QED BY <1>3, <1>6, <1>7, <1>8, <1>9, <1>10, <1>11, <1>12, <1>13, <1>14, <1>15 DEF TaskStep

LEMMA NextRelease ==
  ASSUME Leaks \cap Faults = {}
  PROVE  IInv /\ Lease /\ Limit /\ Release /\ [Next]_vars => Release'
<1> SUFFICES ASSUME IInv, Lease, Limit, Release, [Next]_vars PROVE Release'
  OBVIOUS
<1>1. CASE UNCHANGED vars
  BY <1>1 DEF vars, Release, ReleaseInv, HasFile, HoldsMessage, Decided, Removes
<1> QED BY <1>1, RequestRelease, BrokerRelease, TaskRelease DEF Next

\* Without a fault that makes the code give the object up, a finished
\* generation on which nobody works has no object in the bucket: the message
\* that is not acked comes back, and the ack is followed by the delete.
THEOREM FilesAreReleased ==
  ASSUME Leaks \cap Faults = {} PROVE Spec => []FileReleased
<1>1. "nats_loss" \notin Faults /\ "no_count" \notin Faults
  BY DEF Leaks, Losses
<1>2. Release => FileReleased
  BY DEF Release, ReleaseInv, FileReleased, Decided, Removes
<1> QED BY <1>1, <1>2, InitRelease, NextRelease, InitLease, NextLease, InitLimit, NextLimit,
           InductiveInvariant, PTL DEF Spec

-----------------------------------------------------------------------------
(* Without publish_timeout: the pipeline implements GenerationLifecycle. *)

\* When js.publish raises only for an event that is not in the stream, the
\* row that the API marks FAILED has never been handed to a worker.
TimelyInv(g) ==
  /\ api[g] = "mark" => msg[g] = "none"
  /\ api[g] \in {"publish", "mark"} => row[g] \in {"PENDING", "deleted"}

Timely == \A g \in Gens : TimelyInv(g)

LEMMA InitTimely == Init => Timely
BY DEF Init, Timely, TimelyInv

\* A generation with a task has a message, and its request is past Publish.
LEMMA TaskAfterPublish ==
  ASSUME IInv, NEW g \in Gens, NEW n \in Deliveries, task[g][n] # "none"
  PROVE  msg[g] \notin {"none", "delayed", "queued"} /\ api[g] # "publish"
BY DEF IInv, TypeOK, GenInv, DeliveryInv, RequestInv, Deliveries

LEMMA NextTimely ==
  ASSUME "publish_timeout" \notin Faults PROVE IInv /\ Timely /\ [Next]_vars => Timely'
<1> SUFFICES ASSUME IInv, Timely, [Next]_vars, NEW h \in Gens PROVE TimelyInv(h)'
  BY DEF Timely
<1>1. ASSUME NEW g \in Gens,
             \/ StartGeneration(g) \/ StartGenerationFromCrm(g)
             \/ ApiStep(g) \/ ApiCrash(g) \/ DeleteGeneration(g)
      PROVE  TimelyInv(h)'
  <2>1. CASE StartGeneration(g) \/ StartGenerationFromCrm(g)
    BY <2>1 DEF StartGeneration, StartGenerationFromCrm, GoApi, brokerVars, IInv, TypeOK, Timely, TimelyInv
  <2>2. CASE CommitRow(g)
    BY <2>2 DEF CommitRow, GoApi, RemoveObjectOr, brokerVars, IInv, TypeOK, Timely, TimelyInv
  <2>3. CASE Publish(g)
    BY <2>3 DEF Publish, GoApi, May, dbVars, IInv, TypeOK, GenInv, RequestInv, Timely, TimelyInv
  <2>4. CASE MarkFailedToQueue(g)
    BY <2>4 DEF MarkFailedToQueue, GoApi, RemoveObjectOr, brokerVars, IInv, TypeOK, Timely, TimelyInv
  <2>5. CASE BestEffortDelete(g) \/ ApiCrash(g)
    BY <2>5 DEF BestEffortDelete, ApiCrash, GoApi, brokerVars, dbVars, IInv, TypeOK, Timely, TimelyInv
  <2>6. CASE DeleteGeneration(g)
    BY <2>6 DEF DeleteGeneration, brokerVars, IInv, TypeOK, Timely, TimelyInv
  <2> QED BY <1>1, <2>1, <2>2, <2>3, <2>4, <2>5, <2>6 DEF ApiStep
<1>2. ASSUME NEW g \in Gens, BrokerStep(g) PROVE TimelyInv(h)'
  <2>1. UNCHANGED <<row, api>> /\ (msg[h] = "none" => msg'[h] = "none")
    BY <1>2 DEF BrokerStep, LatePublish, Deliver, Redeliver, Exhaust, AckWaitExpires,
                StartDelivery, dbVars, IInv, TypeOK
  <2> QED BY <2>1 DEF Timely, TimelyInv
<1>3. ASSUME NEW g \in Gens, NEW n \in Deliveries,
             TaskStep(g, n) \/ InProgress(g, n) \/ WorkerStops(g, n)
      PROVE  TimelyInv(h)'
  <2>1. HandlerStep(g, n)
    BY <1>3, TaskStepHandlerStep
  <2>2. api[g] \notin {"publish", "mark"}
    BY <2>1, TaskAfterPublish DEF HandlerStep, Timely, TimelyInv
  <2>3. h # g => row'[h] = row[h] /\ msg'[h] = msg[h]
    BY <2>1 DEF HandlerStep, SaveSuccess, SaveFailure, Claim, Settle, IInv, TypeOK
  <2> QED BY <2>1, <2>2, <2>3 DEF HandlerStep, Timely, TimelyInv
<1>4. CASE UNCHANGED vars
  BY <1>4 DEF vars, Timely, TimelyInv
<1> QED BY <1>1, <1>2, <1>3, <1>4 DEF Next

LEMMA RequestRefines ==
  ASSUME IInv, Timely, NEW g \in Gens,
         \/ StartGeneration(g) \/ StartGenerationFromCrm(g)
         \/ ApiStep(g) \/ ApiCrash(g) \/ DeleteGeneration(g)
  PROVE  [Lifecycle!Next]_(Lifecycle!vars)
<1>1. CASE UNCHANGED <<row, results>>
  BY <1>1 DEF Lifecycle!vars
<1>2. CASE CommitRow(g) /\ ~UNCHANGED <<row, results>>
  <2>1. /\ row[g] = "absent" /\ results[g] = 0
        /\ row' = [row EXCEPT ![g] = "PENDING"] /\ results' = results
    BY <1>2 DEF CommitRow, IInv, GenInv, RequestInv, ResultInv
  <2>2. results' = [results EXCEPT ![g] = 0]
    BY <2>1 DEF IInv, TypeOK
  <2> QED BY <2>1, <2>2 DEF Lifecycle!Next, Lifecycle!Create, Lifecycle!Move
<1>3. CASE MarkFailedToQueue(g) /\ ~UNCHANGED <<row, results>>
  <2>1. row[g] = "PENDING"
    <3>1. row[g] \in {"PENDING", "deleted"}
      BY <1>3 DEF MarkFailedToQueue, Timely, TimelyInv
    <3>2. row[g] = "deleted" => UNCHANGED <<row, results>>
      BY <1>3 DEF MarkFailedToQueue, IInv, TypeOK
    <3> QED BY <1>3, <3>1, <3>2
  <2>2. row' = [row EXCEPT ![g] = "FAILED"] /\ results' = results
    BY <1>3, <2>1 DEF MarkFailedToQueue
  <2>3. results' = [results EXCEPT ![g] = 0]
    BY <2>1, <2>2 DEF IInv, TypeOK, GenInv, ResultInv
  <2> QED BY <2>1, <2>2, <2>3 DEF Lifecycle!Next, Lifecycle!Fail, Lifecycle!Move
<1>4. CASE DeleteGeneration(g)
  BY <1>4 DEF DeleteGeneration, Lifecycle!Next, Lifecycle!Delete, Lifecycle!Move
<1> QED BY <1>1, <1>2, <1>3, <1>4
    DEF StartGeneration, StartGenerationFromCrm, ApiStep, Publish, BestEffortDelete,
        ApiCrash, dbVars

LEMMA HandlerRefines ==
  ASSUME IInv, NEW g \in Gens, NEW n \in Deliveries, HandlerStep(g, n)
  PROVE  [Lifecycle!Next]_(Lifecycle!vars)
<1>1. CASE UNCHANGED <<row, results>>
  BY <1>1 DEF Lifecycle!vars
<1>2. CASE row[g] # "PENDING"
  <2>1. UNCHANGED <<row, results>>
    BY <1>2 DEF HandlerStep, SaveSuccess, SaveFailure, Claim, IInv, TypeOK
  <2> QED BY <2>1 DEF Lifecycle!vars
<1>3. CASE SaveSuccess(g) /\ row[g] = "PENDING"
  <2>1. results[g] = 0
    BY <1>3 DEF IInv, GenInv, ResultInv
  <2>2. row' = [row EXCEPT ![g] = "SUCCESS"] /\ results' = [results EXCEPT ![g] = 1]
    BY <1>3, <2>1 DEF SaveSuccess, Claim, IInv, TypeOK
  <2> QED BY <1>3, <2>2 DEF Lifecycle!Next, Lifecycle!Succeed, Lifecycle!Move
<1>4. CASE SaveFailure(g) /\ row[g] = "PENDING"
  <2>1. results' = results /\ results[g] = 0
    BY <1>4 DEF SaveFailure, IInv, GenInv, ResultInv
  <2>2. row' = [row EXCEPT ![g] = "FAILED"] /\ results' = [results EXCEPT ![g] = 0]
    BY <1>4, <2>1 DEF SaveFailure, Claim, IInv, TypeOK
  <2> QED BY <1>4, <2>2 DEF Lifecycle!Next, Lifecycle!Fail, Lifecycle!Move
<1> QED BY <1>1, <1>2, <1>3, <1>4 DEF HandlerStep

LEMMA NextRefines == IInv /\ Timely /\ [Next]_vars => [Lifecycle!Next]_(Lifecycle!vars)
<1> SUFFICES ASSUME IInv, Timely, [Next]_vars PROVE [Lifecycle!Next]_(Lifecycle!vars)
  OBVIOUS
<1>1. ASSUME NEW g \in Gens, BrokerStep(g) PROVE [Lifecycle!Next]_(Lifecycle!vars)
  BY <1>1 DEF BrokerStep, LatePublish, Deliver, Redeliver, Exhaust, AckWaitExpires,
              StartDelivery, dbVars, Lifecycle!vars
<1>2. CASE UNCHANGED vars
  BY <1>2 DEF vars, Lifecycle!vars
<1> QED BY <1>1, <1>2, RequestRefines, TaskStepHandlerStep, HandlerRefines DEF Next

\* While js.publish raises only for events that were not stored, the pipeline
\* implements the lifecycle: decided once, with its tree or with none.
THEOREM Refinement ==
  ASSUME "publish_timeout" \notin Faults PROVE Spec => ImplementsLifecycle
<1>1. Init => Lifecycle!Init
  BY DEF Init, Lifecycle!Init
<1> QED BY <1>1, InitTimely, NextTimely, NextRefines, InductiveInvariant, PTL
    DEF Spec, ImplementsLifecycle, Lifecycle!Spec

\* ... and no result or failure is ever taken back.
THEOREM FinishedIsFinal ==
  ASSUME "publish_timeout" \notin Faults PROVE Spec => FinishedStays
<1>1. ASSUME IInv, Timely, [Next]_vars, NEW g \in Gens, row[g] \in {"SUCCESS", "FAILED"}
      PROVE  row'[g] \in {row[g], "deleted"}
  <2>1. [Lifecycle!Next]_(Lifecycle!vars)
    BY <1>1, NextRefines
  <2>2. row \in [Gens -> Statuses]
    BY <1>1 DEF IInv, TypeOK
  <2> QED BY <1>1, <2>1, <2>2
      DEF Lifecycle!Next, Lifecycle!vars, Lifecycle!Create, Lifecycle!Succeed,
          Lifecycle!Fail, Lifecycle!Delete, Lifecycle!Move
<1>2. IInv /\ Timely /\ [Next]_vars =>
        [\A g \in Gens : row[g] \in {"SUCCESS", "FAILED"} => row'[g] \in {row[g], "deleted"}]_vars
  BY <1>1
<1> QED BY <1>2, InitTimely, NextTimely, InductiveInvariant, PTL DEF Spec, FinishedStays
=============================================================================
