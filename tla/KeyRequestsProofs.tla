-------------------------- MODULE KeyRequestsProofs --------------------------
(***************************************************************************)
(* Proofs about KeyRequests, for every number of requests, deliveries,     *)
(* communities, generations and keys, and every size of the pool.          *)
(*                                                                         *)
(* The properties relate what a request or a delivery has done to rows     *)
(* that others go on changing.  Forward collects what no step takes back:  *)
(* a row that exists keeps its community, a decided generation stays       *)
(* decided, a deleted key stays deleted.  With it, each part of the        *)
(* inductive invariant IInv is shown for the request that moves, and       *)
(* carried over for the others (Frame).                                    *)
(***************************************************************************)
EXTENDS KeyRequests, TLAPS

\* Steps of a handler, and those after it has found or created what it names.
Working == {"commit", "read", "read_iterations", "read_consumers", "copy",
            "delete", "log", "publish", "mark", "mark_log"}
Reached == Working \ {"commit", "read"}
Reading == {"read_iterations", "read_consumers", "copy"}

\* The generation is decided, or it is gone.
Past(g) == row[g] \notin {"none", "PENDING"}
Reported(r) == \E o \in Ops : <<o, r>> \in done
Ended(t) == <<"succeeded", t>> \in done \/ <<"failed", t>> \in done

Named(r) == req[r].id \in IF req[r].op \in {"start", "delete_generation"}
                          THEN Generations ELSE Keys
Owned(r) ==
  /\ scope[r] \in Subscribed /\ req[r].id \in Generations \cup Keys
  /\ req[r].id \in Generations => owner[req[r].id] = scope[r]
  /\ req[r].id \in Keys => keyOwner[req[r].id] = scope[r]

HandlerInv ==
  \A r \in Requests :
    /\ pc[r] \in Working => scope[r] \in Subscribed /\ Named(r)
    /\ pc[r] = "commit" => req[r].op = "start" /\ row[req[r].id] = "none"
    /\ pc[r] = "read" => req[r].op # "start"
    /\ pc[r] \in {"publish", "mark", "mark_log"} => req[r].op = "start"
    /\ pc[r] = "mark_log" => <<"queue_failed", r>> \in done
    /\ pc[r] = "idle" => ~ Reported(r)
    /\ r \in saved => pc[r] \in {"log", "close", "closed", "stopped"}

\* No two requests create the same generation.
UniqueInv ==
  \A r, q \in Requests :
    /\ r # q /\ req[r].op = "start" /\ req[q].op = "start"
    /\ req[r].id = req[q].id
    => req[r].id = Nobody

OwnerInv ==
  /\ \A g \in Generations : row[g] = "none" => owner[g] = Nobody
  /\ \A k \in Keys : keyOwner[k] \in {Nobody, owner[GenerationOf[k]]}

OwnedInv ==
  \A r \in Requests : pc[r] \in Reached \/ Reported(r) => Owned(r)

TreeInv ==
  \A k \in Keys :
    /\ tree[k] \in {{}, Parts}
    /\ tree[k] # {} => Past(GenerationOf[k])

CopyInv ==
  \A r \in Requests : pc[r] \in Reading \/ r \in saved =>
    /\ req[r].op = "save" /\ req[r].id \in Keys
    /\ Past(GenerationOf[req[r].id])
    /\ pc[r] = "read_iterations" => copy[r] = {"key"}
    /\ pc[r] = "read_consumers" => copy[r] = {"key", "iterations"}
    /\ pc[r] = "copy" \/ r \in saved => copy[r] = Parts \/ tree[req[r].id] = {}

OutcomeInv ==
  /\ \A t \in Tasks : task[t] \in {"audit", "emit"} => Ended(t)
  /\ \A t \in Tasks : Ended(t) => Past(JobOf[t])
  /\ \A t, u \in Tasks : Ended(t) /\ Ended(u) /\ JobOf[t] = JobOf[u] => t = u
  /\ \A g \in hints : Past(g)
  /\ audit \subseteq done

IInv ==
  /\ TypeOK
  /\ HandlerInv
  /\ UniqueInv
  /\ OwnerInv
  /\ OwnedInv
  /\ TreeInv
  /\ CopyInv
  /\ OutcomeInv

Acts(r) ==
  \/ \E o \in Ops, h \in Communities \cup {Nobody} : \E x \in Targets(o) : Admit(r, o, x, h)
  \/ Step(r) \/ Raises(r) \/ ApiStops(r)

Works(t) == Save(t) \/ AuditOutcome(t) \/ Emit(t)

\* The steps that change more than what a client was told.
Moves == (\E r \in Requests : Acts(r)) \/ (\E t \in Tasks : Works(t))

-----------------------------------------------------------------------------
(* Types.                                                                   *)

LEMMA InitIInv == Init => IInv
<1> SUFFICES ASSUME Init PROVE IInv
  OBVIOUS
<1> USE RequestsAssumption
<1>1. TypeOK
  BY DEF Init, TypeOK, RequestSteps, Ops, Parts
<1>2. HandlerInv
  BY DEF Init, HandlerInv, Working, Reported
<1>3. UniqueInv
  BY DEF Init, UniqueInv
<1>4. OwnerInv
  BY DEF Init, OwnerInv
<1>5. OwnedInv
  BY DEF Init, OwnedInv, Reached, Working, Reported
<1>6. TreeInv
  BY DEF Init, TreeInv
<1>7. CopyInv
  BY DEF Init, CopyInv, Reading
<1>8. OutcomeInv
  BY DEF Init, OutcomeInv, Ended
<1> QED BY <1>1, <1>2, <1>3, <1>4, <1>5, <1>6, <1>7, <1>8 DEF IInv

\* A step is one of a request or one of a delivery, or a 504.
LEMMA NextCases ==
  ASSUME Next
  PROVE  Moves \/ \E r \in Requests : Timeout(r)
BY DEF Next, Moves, Acts, Works

LEMMA MovesCases ==
  ASSUME Moves
  PROVE  (\E r \in Requests : Acts(r)) \/ (\E t \in Tasks : Works(t))
BY DEF Moves

LEMMA TypeStep ==
  ASSUME TypeOK, HandlerInv, [Next]_vars
  PROVE  TypeOK'
<1> USE RequestsAssumption DEF TypeOK
<1>1. ASSUME NEW r \in Requests, NEW o \in Ops, NEW h \in Communities \cup {Nobody},
             NEW x \in Targets(o), Admit(r, o, x, h)
      PROVE  TypeOK'
  <2>1. x \in Generations \cup Keys
    BY <1>1 DEF Targets
  <2>2. Resolved(h) \in Communities \cup {Nobody}
    BY <1>1 DEF Resolved
  <2>3. FirstStep(o) \in RequestSteps /\ "close" \in RequestSteps
    BY DEF FirstStep, RequestSteps
  <2>4. pc' \in [Requests -> RequestSteps] /\ conn' \subseteq Requests
    BY <1>1, <2>3 DEF Admit, Go, Return
  <2>5. req' \in [Requests -> [op : Ops, id : Generations \cup Keys \cup {Nobody}]]
    <3>1. [op |-> o, id |-> x] \in [op : Ops, id : Generations \cup Keys \cup {Nobody}]
      BY <2>1
    <3>2. req' = req \/ req' = [req EXCEPT ![r] = [op |-> o, id |-> x]]
      BY <1>1 DEF Admit
    <3> QED BY <3>1, <3>2
  <2>6. scope' \in [Requests -> Communities \cup {Nobody}]
    <3>1. scope' = scope \/ scope' = [scope EXCEPT ![r] = Resolved(h)]
      BY <1>1 DEF Admit
    <3> QED BY <2>2, <3>1
  <2>7. result' \in [Requests -> {"none", "success", "error"}]
    BY <1>1 DEF Admit, Return
  <2> QED BY <1>1, <2>4, <2>5, <2>6, <2>7 DEF Admit, local, crm, worker
<1>2. ASSUME NEW r \in Requests, Step(r) \/ Raises(r) \/ Timeout(r) \/ ApiStops(r)
      PROVE  TypeOK'
  <2>1. RequestSteps = {"idle", "commit", "read", "read_iterations", "read_consumers",
                        "copy", "delete", "log", "publish", "mark", "mark_log",
                        "close", "closed", "stopped"}
    BY DEF RequestSteps
  <2>2. CASE CommitRow(r)
    <3>1. <<"start", r>> \in Actions \X (Requests \cup Tasks)
      BY DEF Actions, OwnActions, Ops
    <3>2. row' \in [Generations -> {"none", "PENDING", "SUCCESS", "FAILED", "gone"}]
      BY <2>2 DEF CommitRow
    <3>3. owner' \in [Generations -> Communities \cup {Nobody}]
      BY <2>2 DEF CommitRow
    <3>4. /\ pc' \in [Requests -> RequestSteps] /\ cut' \subseteq Requests
          /\ result' \in [Requests -> {"none", "success", "error"}]
      BY <2>1, <2>2 DEF CommitRow, Committed, Cut, Return, Go
    <3> QED BY <2>2, <3>1, <3>2, <3>3, <3>4 DEF CommitRow, crm, worker
  <2>3. CASE Log(r)
    BY <2>1, <2>3 DEF Log, Logged, Return, Go, local, crm, worker
  <2>4. CASE Publish(r)
    <3>1. req[r].id \in Generations
      BY <2>4 DEF Publish, HandlerInv, Working, Named
    <3> QED BY <2>1, <2>4, <3>1 DEF Publish, Return, Go, crm, worker
  <2>5. CASE MarkFailed(r)
    <3>1. <<"queue_failed", r>> \in Actions \X (Requests \cup Tasks)
      BY DEF Actions
    <3>2. row' \in [Generations -> {"none", "PENDING", "SUCCESS", "FAILED", "gone"}]
      BY <2>5 DEF MarkFailed
    <3>3. pc' \in [Requests -> RequestSteps] /\ result' \in [Requests -> {"none", "success", "error"}]
      BY <2>1, <2>5 DEF MarkFailed, Return, Go
    <3> QED BY <2>5, <3>1, <3>2, <3>3 DEF MarkFailed, crm, worker
  <2>6. CASE MarkLog(r)
    <3>1. <<"queue_failed", r>> \in Actions \X (Requests \cup Tasks)
      BY DEF Actions
    <3> QED BY <2>1, <2>6, <3>1 DEF MarkLog, Return, Go, local, worker
  <2>7. CASE Read(r)
    <3>1. pc' \in [Requests -> RequestSteps] /\ result' \in [Requests -> {"none", "success", "error"}]
      BY <2>1, <2>7 DEF Read, Return, Go
    <3>2. copy' \in [Requests -> SUBSET Parts]
      BY <2>7 DEF Read, Parts
    <3> QED BY <2>7, <3>1, <3>2 DEF Read, local, crm, worker
  <2>8. CASE ReadIterations(r)
    BY <2>1, <2>8 DEF ReadIterations, ReadChildren, Go, local, crm, worker, Parts
  <2>9. CASE ReadConsumers(r)
    BY <2>1, <2>9 DEF ReadConsumers, ReadChildren, Go, local, crm, worker, Parts
  <2>10. CASE SaveCopy(r)
    <3>1. {<<"save", q>> : q \in staged \cap {r}} \cup {<<"save", r>>}
             \subseteq Actions \X (Requests \cup Tasks)
      BY DEF Actions, OwnActions, Ops
    <3>2. /\ pc' \in [Requests -> RequestSteps] /\ cut' \subseteq Requests
          /\ result' \in [Requests -> {"none", "success", "error"}]
      BY <2>1, <2>10 DEF SaveCopy, Committed, Cut, Return, Go
    <3> QED BY <2>10, <3>1, <3>2 DEF SaveCopy, local, worker
  <2>11. CASE Delete(r)
    <3>1. <<req[r].op, r>> \in Actions \X (Requests \cup Tasks)
      BY DEF Actions, OwnActions
    <3>2. row' \in [Generations -> {"none", "PENDING", "SUCCESS", "FAILED", "gone"}]
      BY <2>11 DEF Delete
    <3>3. tree' \in [Keys -> SUBSET Parts]
      BY <2>11 DEF Delete
    <3>4. /\ pc' \in [Requests -> RequestSteps] /\ cut' \subseteq Requests
          /\ result' \in [Requests -> {"none", "success", "error"}]
      BY <2>1, <2>11 DEF Delete, Committed, Cut, Return, Go
    <3> QED BY <2>11, <3>1, <3>2, <3>3, <3>4 DEF Delete, crm, worker
  <2>12. CASE Close(r)
    BY <2>1, <2>12 DEF Close, Ends, Go, local, crm, worker
  <2>13. CASE PoolTimeout(r)
    BY <2>1, <2>13 DEF PoolTimeout, Return, Go, local, crm, worker
  <2>14. CASE Raises(r)
    BY <2>1, <2>14 DEF Raises, Cut, Return, Go, local, crm, worker
  <2>15. CASE ApiStops(r)
    BY <2>1, <2>15 DEF ApiStops, Ends, Go, local, crm, worker
  <2>16. CASE Timeout(r)
    BY <2>16 DEF Timeout, local, crm, worker
  <2> QED BY <1>2, <2>2, <2>3, <2>4, <2>5, <2>6, <2>7, <2>8, <2>9, <2>10, <2>11,
             <2>12, <2>13, <2>14, <2>15, <2>16 DEF Step
<1>3. ASSUME NEW t \in Tasks, Works(t)
      PROVE  TypeOK'
  <2>1. /\ JobOf[t] \in Generations
        /\ \A a \in {"succeeded", "failed"} : <<a, t>> \in Actions \X (Requests \cup Tasks)
        /\ Outcome(t) \in {"succeeded", "failed"}
    BY DEF Actions, Outcome
  <2>2. CASE Save(t)
    <3>1. keyOwner' \in [Keys -> Communities \cup {Nobody}]
      <4>1. \/ keyOwner' = keyOwner
            \/ keyOwner' = [k \in Keys |-> IF k \in KeysOf(JobOf[t])
                                           THEN owner[JobOf[t]] ELSE keyOwner[k]]
        BY <2>2 DEF Save, SaveSuccess, SaveFailure, SaveNothing
      <4>2. owner[JobOf[t]] \in Communities \cup {Nobody}
        BY <2>1
      <4> QED BY <4>1, <4>2
    <3>2. tree' \in [Keys -> SUBSET Parts]
      BY <2>2 DEF Save, SaveSuccess, SaveFailure, SaveNothing
    <3>3. row' \in [Generations -> {"none", "PENDING", "SUCCESS", "FAILED", "gone"}]
      BY <2>2 DEF Save, SaveSuccess, SaveFailure, SaveNothing
    <3>4. done' \subseteq Actions \X (Requests \cup Tasks)
      BY <2>1, <2>2 DEF Save, SaveSuccess, SaveFailure, SaveNothing
    <3>5. task' \in [Tasks -> {"idle", "audit", "emit", "over"}]
      BY <2>2 DEF Save, SaveSuccess, SaveFailure, SaveNothing
    <3>6. UNCHANGED <<owner, queued, hints, crm, request>>
      BY <2>2 DEF Save, SaveSuccess, SaveFailure, SaveNothing
    <3> QED BY <3>1, <3>2, <3>3, <3>4, <3>5, <3>6 DEF crm, request
  <2>3. CASE AuditOutcome(t)
    <3>1. task' \in [Tasks -> {"idle", "audit", "emit", "over"}]
      <4>1. \E s \in {"emit", "over"} : task' = [task EXCEPT ![t] = s]
        BY <2>3 DEF AuditOutcome
      <4> QED BY <4>1
    <3>2. audit' \subseteq Actions \X (Requests \cup Tasks)
      BY <2>1, <2>3 DEF AuditOutcome
    <3> QED BY <2>3, <3>1, <3>2 DEF AuditOutcome, local, request
  <2>4. CASE Emit(t)
    BY <2>1, <2>4 DEF Emit, local, crm, request
  <2> QED BY <1>3, <2>2, <2>3, <2>4 DEF Works
<1>4. CASE UNCHANGED vars
  BY <1>4 DEF vars, local, crm, request, worker
<1> QED BY <1>1, <1>2, <1>3, <1>4, NextCases, MovesCases DEF Acts

-----------------------------------------------------------------------------
(* What no step takes back, and what a step of one leaves to the others.    *)

Forward ==
  /\ \A g \in Generations : row[g] # "none" => row'[g] # "none" /\ owner'[g] = owner[g]
  /\ \A g \in Generations : Past(g) => row'[g] \notin {"none", "PENDING"}
  /\ \A k \in Keys : keyOwner[k] # Nobody => keyOwner'[k] = keyOwner[k]
  /\ \A k \in Keys : Past(GenerationOf[k]) /\ tree[k] = {} => tree'[k] = {}
  /\ done \subseteq done'

Frame(r) ==
  /\ pc'[r] = pc[r] /\ req'[r] = req[r] /\ scope'[r] = scope[r] /\ copy'[r] = copy[r]
  /\ r \in saved' <=> r \in saved
  /\ \A a \in Actions : <<a, r>> \in done' <=> <<a, r>> \in done

\* A row that exists keeps its community, a decided generation stays decided,
\* a key keeps its community, a deleted key stays deleted, and what was done is
\* remembered.
LEMMA ForwardStep ==
  ASSUME IInv, Moves
  PROVE  Forward
<1> USE RequestsAssumption DEF IInv, Past
<1>1. ASSUME NEW r \in Requests, Acts(r)
      PROVE  Forward
  <2>1. CASE CommitRow(r)
    <3>1. row[req[r].id] = "none" /\ req[r].id \in Generations
      BY <2>1 DEF CommitRow, HandlerInv, Working, Named
    <3> QED BY <2>1, <3>1 DEF CommitRow, Forward, TypeOK
  <2>2. CASE MarkFailed(r)
    BY <2>2 DEF MarkFailed, Forward, TypeOK
  <2>3. CASE Delete(r)
    BY <2>3 DEF Delete, Forward, TypeOK
  <2>4. CASE ~ (CommitRow(r) \/ MarkFailed(r) \/ Delete(r))
    <3>1. UNCHANGED <<row, owner, tree, keyOwner>> /\ done \subseteq done'
      BY <1>1, <2>4 DEF Acts, Step, Admit, Log, Publish, MarkLog, Read, ReadIterations,
           ReadConsumers, ReadChildren, SaveCopy, Close, Ends, PoolTimeout, Raises, ApiStops, local
    <3> QED BY <3>1 DEF Forward
  <2> QED BY <2>1, <2>2, <2>3, <2>4
<1>2. ASSUME NEW t \in Tasks, Works(t)
      PROVE  Forward
  <2>1. CASE Save(t)
    <3>1. JobOf[t] \in Generations
      OBVIOUS
    <3>2. CASE SaveSuccess(t, JobOf[t])
      <4>1. \A k \in Keys : keyOwner[k] # Nobody => keyOwner'[k] = keyOwner[k]
        BY <3>2 DEF SaveSuccess, KeysOf, OwnerInv, TypeOK
      <4>2. \A k \in Keys : row[GenerationOf[k]] # "PENDING" => tree'[k] = tree[k]
        BY <3>2 DEF SaveSuccess, KeysOf, TypeOK
      <4> QED BY <2>1, <3>1, <3>2, <4>1, <4>2 DEF Save, SaveSuccess, Forward, TypeOK
    <3>3. CASE SaveFailure(t, JobOf[t])
      BY <2>1, <3>1, <3>3 DEF Save, SaveFailure, Forward, TypeOK
    <3>4. CASE SaveNothing(t, JobOf[t])
      BY <2>1, <3>4 DEF Save, SaveNothing, Forward
    <3> QED BY <2>1, <3>2, <3>3, <3>4 DEF Save
  <2>2. CASE AuditOutcome(t) \/ Emit(t)
    BY <2>2 DEF AuditOutcome, Emit, local, Forward
  <2> QED BY <1>2, <2>1, <2>2 DEF Works
<1> QED BY <1>1, <1>2, MovesCases

LEMMA RequestFrame ==
  ASSUME IInv, NEW q \in Requests, Acts(q), NEW r \in Requests, r # q
  PROVE  Frame(r)
<1> USE DEF Frame, IInv, TypeOK
<1>1. CASE \E o \in Ops, h \in Communities \cup {Nobody} : \E x \in Targets(o) : Admit(q, o, x, h)
  BY <1>1 DEF Admit, Return, Go, local, crm
<1>2. CASE CommitRow(q) \/ MarkFailed(q) \/ Delete(q) \/ SaveCopy(q)
  BY <1>2 DEF CommitRow, MarkFailed, Delete, SaveCopy, Committed, Return, Go, crm
<1>3. CASE Read(q) \/ ReadIterations(q) \/ ReadConsumers(q)
  BY <1>3 DEF Read, ReadIterations, ReadConsumers, ReadChildren, Return, Go, crm
<1>4. CASE Log(q) \/ Publish(q) \/ MarkLog(q) \/ PoolTimeout(q) \/ Close(q) \/ Raises(q) \/ ApiStops(q)
  BY <1>4 DEF Log, Logged, Publish, MarkLog, PoolTimeout, Close, Ends, Raises, ApiStops, Return, Go, crm
<1> QED BY <1>1, <1>2, <1>3, <1>4 DEF Acts, Step

LEMMA TaskFrame ==
  ASSUME IInv, NEW t \in Tasks, Works(t), NEW r \in Requests
  PROVE  Frame(r)
<1>1. r # t
  BY RequestsAssumption
<1>2. /\ UNCHANGED <<pc, req, scope, copy, saved>>
      /\ done' \in {done, done \cup {<<"succeeded", t>>}, done \cup {<<"failed", t>>}}
  BY DEF Works, Save, SaveSuccess, SaveFailure, SaveNothing, AuditOutcome, Emit, crm, request
<1> QED BY <1>1, <1>2 DEF Frame

-----------------------------------------------------------------------------
(* The parts of the invariant.                                              *)

\* While a request is about to create a generation, nobody else touches its id.
LEMMA StillNone ==
  ASSUME IInv, NEW r \in Requests, pc[r] = "commit", Moves, pc'[r] = "commit"
  PROVE  row'[req[r].id] = "none"
<1> DEFINE g == req[r].id
<1> USE RequestsAssumption DEF IInv
<1>1. g \in Generations /\ row[g] = "none" /\ req[r].op = "start" /\ g # Nobody
  BY DEF HandlerInv, Working, Named
<1>2. ASSUME NEW q \in Requests, Acts(q)
      PROVE  row'[g] = "none"
  <2>1. CASE q = r
    BY <1>1, <1>2, <2>1 DEF Acts, Step, Admit, CommitRow, Log, Logged, Publish, MarkFailed, MarkLog, Read,
       ReadIterations, ReadConsumers, ReadChildren, SaveCopy, Delete, Close, Ends, PoolTimeout, Raises, ApiStops,
       Committed, Return, Go, local, TypeOK
  <2>2. CASE q # r
    <3>1. CASE CommitRow(q) \/ MarkFailed(q)
      <4>1. req[q].op = "start"
        BY <3>1 DEF CommitRow, MarkFailed, HandlerInv
      <4>2. req[q].id # g
        BY <1>1, <2>2, <4>1 DEF UniqueInv
      <4> QED BY <1>1, <3>1, <4>2 DEF CommitRow, MarkFailed, TypeOK
    <3>2. CASE Delete(q)
      <4>1. Owned(q)
        BY <3>2 DEF Delete, OwnedInv, Reached, Working
      <4>2. req[q].id # g
        BY <1>1, <4>1 DEF Owned, OwnerInv
      <4> QED BY <1>1, <3>2, <4>2 DEF Delete, TypeOK
    <3>3. CASE ~ (CommitRow(q) \/ MarkFailed(q) \/ Delete(q))
      <4>1. UNCHANGED row
        BY <1>2, <3>3 DEF Acts, Step, Admit, Log, Publish, MarkLog, Read, ReadIterations,
             ReadConsumers, ReadChildren, SaveCopy, Close, Ends, PoolTimeout, Raises, ApiStops, local
      <4> QED BY <1>1, <4>1
    <3> QED BY <3>1, <3>2, <3>3
  <2> QED BY <2>1, <2>2
<1>3. ASSUME NEW t \in Tasks, Works(t)
      PROVE  row'[g] = "none"
  BY <1>1, <1>3 DEF Works, Save, SaveSuccess, SaveFailure, SaveNothing, AuditOutcome, Emit, local, TypeOK
<1> QED BY <1>2, <1>3, MovesCases

\* The part of HandlerInv that concerns one request.
Handled(r) ==
  /\ pc[r] \in Working => scope[r] \in Subscribed /\ Named(r)
  /\ pc[r] = "read" => req[r].op # "start"
  /\ pc[r] \in {"publish", "mark", "mark_log"} => req[r].op = "start"
  /\ pc[r] = "mark_log" => <<"queue_failed", r>> \in done
  /\ pc[r] = "idle" => ~ Reported(r)
  /\ r \in saved => pc[r] \in {"log", "close", "closed", "stopped"}

LEMMA HandlerMoves ==
  ASSUME IInv, NEW r \in Requests, Acts(r)
  PROVE  Handled(r)' /\ (pc'[r] = "commit" => req'[r].op = "start" /\ (pc[r] # "commit" => row'[req'[r].id] = "none"))
<1> USE RequestsAssumption DEF IInv, TypeOK
<1>0. Handled(r)
  BY DEF HandlerInv, Handled
<1> USE DEF Handled, Named, Reported, Working
<1>1. ASSUME NEW o \in Ops, NEW h \in Communities \cup {Nobody}, NEW x \in Targets(o), Admit(r, o, x, h)
      PROVE  Handled(r)' /\ (pc'[r] = "commit" => req'[r].op = "start" /\ row'[req'[r].id] = "none")
  <2>1. CASE HasFeature(Resolved(h))
    <3>1. /\ pc'[r] = FirstStep(o) /\ req'[r] = [op |-> o, id |-> x]
          /\ scope'[r] = Resolved(h) /\ UNCHANGED <<row, done, saved>> /\ pc[r] = "idle"
      BY <1>1, <2>1 DEF Admit, Go, local, crm
    <3>2. Resolved(h) \in Subscribed
      BY <2>1 DEF HasFeature, Visible
    <3>3. /\ o = "start" => x \in Generations /\ row[x] = "none"
          /\ o = "delete_generation" => x \in Generations
          /\ o \notin {"start", "delete_generation"} => x \in Keys
      BY <1>1 DEF Targets
    <3> QED BY <1>0, <3>1, <3>2, <3>3 DEF FirstStep
  <2>2. CASE ~ HasFeature(Resolved(h))
    BY <1>0, <1>1, <2>2 DEF Admit, Return, Go, local, crm
  <2> QED BY <2>1, <2>2
<1>2. CASE CommitRow(r) \/ MarkFailed(r)
  BY <1>0, <1>2 DEF CommitRow, MarkFailed, Committed, Return, Go, crm
<1>3. CASE SaveCopy(r) \/ Delete(r)
  BY <1>0, <1>3 DEF Delete, SaveCopy, Committed, Return, Go, crm
<1>4. CASE Read(r)
  BY <1>0, <1>4 DEF Read, Return, Go, crm
<1>5. CASE ReadIterations(r) \/ ReadConsumers(r)
  BY <1>0, <1>5 DEF ReadIterations, ReadConsumers, ReadChildren, Go, crm
<1>6. CASE Log(r) \/ Publish(r)
  <2>1. /\ pc[r] \in {"log", "publish"} /\ UNCHANGED <<req, scope, done, saved>>
        /\ pc'[r] \in {"publish", "mark", "close"}
        /\ pc'[r] # "close" => req[r].op = "start"
    BY <1>0, <1>6 DEF Log, Logged, Publish, Return, Go, crm
  <2>2. r \in saved => req[r].op = "save"
    BY DEF CopyInv
  <2> QED BY <1>0, <2>1, <2>2
<1>7. CASE MarkLog(r) \/ PoolTimeout(r) \/ Close(r) \/ Raises(r) \/ ApiStops(r)
  BY <1>0, <1>7 DEF MarkLog, PoolTimeout, Close, Ends, Raises, ApiStops, Return, Go, crm
<1> QED BY <1>1, <1>2, <1>3, <1>4, <1>5, <1>6, <1>7 DEF Acts, Step

LEMMA HandlerStep ==
  ASSUME IInv, Moves
  PROVE  HandlerInv'
<1> SUFFICES ASSUME NEW r \in Requests
             PROVE  /\ Handled(r)'
                    /\ pc'[r] = "commit" => req'[r].op = "start" /\ row'[req'[r].id] = "none"
  BY DEF HandlerInv, Handled
<1>0. Handled(r) /\ (pc[r] = "commit" => req[r].op = "start")
  BY DEF IInv, HandlerInv, Handled
<1>1. CASE Acts(r)
  <2>1. pc[r] = "commit" => pc'[r] # "commit"
    BY <1>1, RequestsAssumption DEF Acts, Step, Admit, CommitRow, Log, Logged, Publish, MarkFailed, MarkLog,
       Read, ReadIterations, ReadConsumers, ReadChildren, SaveCopy, Delete, Close, Ends, PoolTimeout, Raises, ApiStops,
       Committed, Return, Go, IInv, TypeOK
  <2> QED BY <1>1, <2>1, HandlerMoves
<1>2. CASE Frame(r)
  <2>1. Handled(r)'
    BY <1>0, <1>2 DEF Handled, Frame, Named, Reported, Actions, OwnActions
  <2>2. pc'[r] = "commit" => row'[req'[r].id] = "none"
    BY <1>2, StillNone DEF Frame
  <2> QED BY <1>0, <1>2, <2>1, <2>2 DEF Frame
<1> QED BY <1>1, <1>2, MovesCases, RequestFrame, TaskFrame

LEMMA UniqueStep ==
  ASSUME IInv, Moves
  PROVE  UniqueInv'
<1> USE RequestsAssumption DEF IInv, TypeOK
<1>1. ASSUME NEW r \in Requests, NEW o \in Ops, NEW h \in Communities \cup {Nobody},
             NEW x \in Targets(o), Admit(r, o, x, h), HasFeature(Resolved(h))
      PROVE  UniqueInv'
  <2>1. req' = [req EXCEPT ![r] = [op |-> o, id |-> x]]
    BY <1>1 DEF Admit
  <2>2. o = "start" => \A q \in Requests : req[q].id # x
    BY <1>1 DEF Targets
  <2> QED BY <2>1, <2>2 DEF UniqueInv
<1>2. CASE UNCHANGED req
  BY <1>2 DEF UniqueInv
<1>3. ASSUME NEW r \in Requests, Acts(r), req' # req
      PROVE  \E o \in Ops, h \in Communities \cup {Nobody} : \E x \in Targets(o) :
               Admit(r, o, x, h) /\ HasFeature(Resolved(h))
  BY <1>3 DEF Acts, Step, Admit, CommitRow, Log, Publish, MarkFailed, MarkLog,
     Read, ReadIterations, ReadConsumers, ReadChildren, SaveCopy, Delete, Close, Ends, PoolTimeout, Raises, ApiStops
<1>4. ASSUME NEW t \in Tasks, Works(t)
      PROVE  UNCHANGED req
  BY <1>4 DEF Works, Save, AuditOutcome, Emit, request
<1> QED BY <1>1, <1>2, <1>3, <1>4, MovesCases

LEMMA OwnerStep ==
  ASSUME IInv, Moves
  PROVE  OwnerInv'
<1> USE RequestsAssumption DEF IInv
<1>1. CASE UNCHANGED <<owner, keyOwner>>
  BY <1>1, ForwardStep DEF OwnerInv, Forward, TypeOK
<1>2. ASSUME NEW r \in Requests, CommitRow(r)
      PROVE  OwnerInv'
  <2>1. req[r].id \in Generations /\ row[req[r].id] = "none"
    BY <1>2 DEF CommitRow, HandlerInv, Working, Named
  <2>2. \A k \in Keys : GenerationOf[k] = req[r].id => keyOwner[k] = Nobody
    BY <2>1 DEF OwnerInv
  <2> QED BY <1>2, <2>1, <2>2 DEF CommitRow, OwnerInv, TypeOK
<1>3. ASSUME NEW t \in Tasks, SaveSuccess(t, JobOf[t]), UNCHANGED owner
      PROVE  OwnerInv'
  BY <1>3, ForwardStep DEF SaveSuccess, OwnerInv, Forward, KeysOf, TypeOK
<1>4. ASSUME NEW r \in Requests, Acts(r), ~ CommitRow(r)
      PROVE  UNCHANGED <<owner, keyOwner>>
  BY <1>4 DEF Acts, Step, Admit, Log, Publish, MarkFailed, MarkLog, Read, ReadIterations,
     ReadConsumers, ReadChildren, SaveCopy, Delete, Close, Ends, PoolTimeout, Raises, ApiStops, local
<1>5. ASSUME NEW t \in Tasks, Works(t)
      PROVE  UNCHANGED <<owner, keyOwner>> \/ (SaveSuccess(t, JobOf[t]) /\ UNCHANGED owner)
  BY <1>5 DEF Works, Save, SaveFailure, SaveNothing, AuditOutcome, Emit, local
<1> QED BY <1>1, <1>2, <1>3, <1>4, <1>5, MovesCases

LEMMA OwnedMoves ==
  ASSUME IInv, Moves, NEW r \in Requests, Acts(r), pc'[r] \in Reached \/ Reported(r)'
  PROVE  Owned(r)'
<1> USE RequestsAssumption DEF IInv, TypeOK
<1>1. ASSUME Owned(r), UNCHANGED <<req, scope>>
      PROVE  Owned(r)'
  <2>1. scope[r] \in Subscribed /\ scope[r] # Nobody
    BY <1>1 DEF Owned
  <2>2. req[r].id \in Generations => owner'[req[r].id] = scope[r]
    BY <1>1, <2>1, ForwardStep DEF Owned, OwnerInv, Forward
  <2>3. req[r].id \in Keys => keyOwner'[req[r].id] = scope[r]
    BY <1>1, <2>1, ForwardStep DEF Owned, Forward
  <2> QED BY <1>1, <2>1, <2>2, <2>3 DEF Owned
<1>2. CASE CommitRow(r)
  <2>1. scope[r] \in Subscribed /\ req[r].id \in Generations
    BY <1>2 DEF CommitRow, HandlerInv, Working, Named
  <2> QED BY <1>2, <2>1 DEF CommitRow, Owned
<1>3. CASE Read(r)
  <2>1. UNCHANGED <<done, req, scope, owner, keyOwner>>
    BY <1>3 DEF Read, local
  <2>2. CASE Reported(r)
    BY <1>1, <2>1, <2>2 DEF OwnedInv
  <2>3. CASE Found(r)
    <3>1. scope[r] \in Subscribed /\ Named(r)
      BY <1>3 DEF Read, HandlerInv, Working
    <3>2. req[r].op # "start"
      BY <1>3 DEF Read, HandlerInv
    <3> QED BY <2>1, <2>3, <3>1, <3>2 DEF Found, Visible, Named, Owned, Ops
  <2>4. CASE ~ Found(r) /\ ~ Reported(r)
    BY <1>3, <2>1, <2>4 DEF Read, Return, Go, Reached, Working, Reported
  <2> QED BY <2>2, <2>3, <2>4
<1>4. ASSUME NEW o \in Ops, NEW h \in Communities \cup {Nobody}, NEW x \in Targets(o), Admit(r, o, x, h)
      PROVE  FALSE
  <2>1. pc'[r] \notin Reached
    BY <1>4 DEF Admit, Return, Go, FirstStep, Reached, Working
  <2>2. ~ Reported(r) /\ UNCHANGED done
    BY <1>4 DEF Admit, HandlerInv
  <2> QED BY <2>1, <2>2 DEF Reported
<1>5. CASE pc[r] \in Reached \/ Reported(r)
  <2>1. UNCHANGED <<req, scope>>
    BY <1>4 DEF Acts, Step, CommitRow, Log, Publish, MarkFailed, MarkLog,
       Read, ReadIterations, ReadConsumers, ReadChildren, SaveCopy, Delete, Close, Ends, PoolTimeout, Raises, ApiStops
  <2> QED BY <1>1, <1>5, <2>1 DEF OwnedInv
<1>6. CASE pc[r] \notin Reached /\ ~ Reported(r) /\ ~ CommitRow(r) /\ ~ Read(r)
  <2>1. pc[r] \in {"commit", "read", "idle", "close", "closed", "stopped"}
    BY <1>6 DEF Reached, Working, RequestSteps
  <2>2. Close(r) \/ Raises(r) \/ ApiStops(r)
    BY <1>4, <1>6, <2>1 DEF Acts, Step, Log, Publish, MarkFailed, MarkLog,
       ReadIterations, ReadConsumers, SaveCopy, Delete, PoolTimeout
  <2>3. pc'[r] \in {"close", "closed", "stopped"} /\ UNCHANGED done
    BY <2>2 DEF Close, Ends, Raises, ApiStops, Return, Go
  <2> QED BY <1>6, <2>3 DEF Reached, Working, Reported
<1> QED BY <1>2, <1>3, <1>5, <1>6

LEMMA OwnedStep ==
  ASSUME IInv, Moves
  PROVE  OwnedInv'
<1> SUFFICES ASSUME NEW r \in Requests, pc'[r] \in Reached \/ Reported(r)'
             PROVE  Owned(r)'
  BY DEF OwnedInv
<1>1. CASE Acts(r)
  BY <1>1, OwnedMoves
<1>2. CASE Frame(r)
  <2>1. Owned(r) /\ scope[r] # Nobody
    BY <1>2, RequestsAssumption DEF Frame, IInv, OwnedInv, Owned, Reported, Actions, OwnActions
  <2>2. req[r].id \in Generations => owner'[req[r].id] = scope[r]
    BY <2>1, ForwardStep DEF Owned, IInv, OwnerInv, Forward
  <2>3. req[r].id \in Keys => keyOwner'[req[r].id] = scope[r]
    BY <2>1, ForwardStep DEF Owned, Forward
  <2> QED BY <1>2, <2>1, <2>2, <2>3 DEF Frame, Owned
<1> QED BY <1>1, <1>2, MovesCases, RequestFrame, TaskFrame

LEMMA TreeStep ==
  ASSUME IInv, Moves
  PROVE  TreeInv'
<1> USE RequestsAssumption DEF IInv
<1>0. \A k \in Keys : Past(GenerationOf[k]) => Past(GenerationOf[k])'
  BY ForwardStep DEF Forward, Past
<1>1. CASE UNCHANGED tree
  BY <1>0, <1>1 DEF TreeInv
<1>2. ASSUME NEW r \in Requests, Delete(r)
      PROVE  TreeInv'
  <2>1. \A k \in Keys : tree'[k] = {} \/ tree'[k] = tree[k]
    BY <1>2 DEF Delete
  <2> QED BY <1>0, <2>1 DEF TreeInv
<1>3. ASSUME NEW t \in Tasks, SaveSuccess(t, JobOf[t])
      PROVE  TreeInv'
  <2>1. \A k \in Keys \ KeysOf(JobOf[t]) : tree'[k] = tree[k]
    BY <1>3 DEF SaveSuccess
  <2>2. \A k \in KeysOf(JobOf[t]) : tree'[k] = Parts
    BY <1>3 DEF SaveSuccess, KeysOf
  <2>3. \A k \in KeysOf(JobOf[t]) : Past(GenerationOf[k])'
    BY <1>3 DEF SaveSuccess, KeysOf, Past, TypeOK
  <2> QED BY <1>0, <2>1, <2>2, <2>3 DEF TreeInv
<1>4. ASSUME NEW r \in Requests, Acts(r), ~ Delete(r)
      PROVE  UNCHANGED tree
  BY <1>4 DEF Acts, Step, Admit, CommitRow, Log, Publish, MarkFailed, MarkLog, Read,
     ReadIterations, ReadConsumers, ReadChildren, SaveCopy, Close, Ends, PoolTimeout, Raises, ApiStops, local
<1>5. ASSUME NEW t \in Tasks, Works(t)
      PROVE  UNCHANGED tree \/ SaveSuccess(t, JobOf[t])
  BY <1>5 DEF Works, Save, SaveFailure, SaveNothing, AuditOutcome, Emit, local
<1> QED BY <1>1, <1>2, <1>3, <1>4, <1>5, MovesCases

\* The part of CopyInv that concerns one request.
Copied(r) ==
  /\ req[r].op = "save" /\ req[r].id \in Keys
  /\ Past(GenerationOf[req[r].id])
  /\ pc[r] = "read_iterations" => copy[r] = {"key"}
  /\ pc[r] = "read_consumers" => copy[r] = {"key", "iterations"}
  /\ pc[r] = "copy" \/ r \in saved => copy[r] = Parts \/ tree[req[r].id] = {}

\* What was copied stays whole, or torn from a key that stays deleted.
LEMMA CopyKept ==
  ASSUME IInv, Moves, NEW r \in Requests, Copied(r), UNCHANGED <<req[r], copy[r]>>,
         pc'[r] = pc[r] \/ pc'[r] \notin Reading, r \in saved' <=> r \in saved
  PROVE  Copied(r)'
<1> DEFINE k == req[r].id
<1>1. k \in Keys /\ GenerationOf[k] \in Generations /\ Past(GenerationOf[k])
  BY RequestsAssumption DEF Copied
<1>2. Past(GenerationOf[k])' /\ (tree[k] = {} => tree'[k] = {})
  BY <1>1, ForwardStep DEF Forward, Past
<1> QED BY <1>1, <1>2 DEF Copied, Reading

LEMMA CopyMoves ==
  ASSUME IInv, Moves, NEW r \in Requests, Acts(r), pc'[r] \in Reading \/ r \in saved'
  PROVE  Copied(r)'
<1> USE RequestsAssumption DEF IInv, TypeOK
<1>0. pc[r] \in Reading \/ r \in saved => Copied(r)
  BY DEF CopyInv, Copied
<1>1. CASE Read(r)
  <2>1. r \notin saved /\ UNCHANGED <<row, tree, req, saved>> /\ pc[r] = "read"
    BY <1>1 DEF Read, HandlerInv, local, crm
  <2>2. /\ Found(r) /\ req[r].op = "save"
        /\ pc'[r] = "read_iterations" /\ copy'[r] = {"key"}
    BY <1>1, <2>1 DEF Read, Return, Go, Reading
  <2>3. req[r].id \in Keys /\ tree[req[r].id] # {}
    BY <2>1, <2>2 DEF Found, HandlerInv, Working, Named
  <2>4. Past(GenerationOf[req[r].id])
    BY <2>3 DEF TreeInv
  <2> QED BY <2>1, <2>2, <2>3, <2>4 DEF Copied, Past
<1>2. CASE ReadIterations(r) \/ ReadConsumers(r)
  <2>1. /\ pc[r] \in {"read_iterations", "read_consumers"}
        /\ UNCHANGED <<row, tree, req, saved>>
    BY <1>2 DEF ReadIterations, ReadConsumers, ReadChildren, local, crm
  <2>2. Copied(r) /\ r \notin saved
    BY <1>0, <2>1 DEF Reading, HandlerInv
  <2>3. tree[req[r].id] = {} \/ tree[req[r].id] = Parts
    BY <2>2 DEF Copied, TreeInv
  <2>4. CASE tree[req[r].id] = {}
    <3>1. pc'[r] = "copy"
      BY <1>2, <2>4 DEF ReadIterations, ReadConsumers, ReadChildren, Go
    <3> QED BY <2>1, <2>2, <2>4, <3>1 DEF Copied, Past
  <2>5. CASE tree[req[r].id] = Parts
    <3>1. CASE ReadIterations(r)
      <4>1. pc'[r] = "read_consumers"
        BY <2>5, <3>1 DEF ReadIterations, ReadChildren, Go, Parts
      <4>2. copy'[r] = {"key"} \cup (Parts \cap {"iterations"})
        BY <2>2, <2>5, <3>1 DEF ReadIterations, ReadChildren, Copied
      <4>3. copy'[r] = {"key", "iterations"}
        BY <4>2 DEF Parts
      <4> QED BY <2>1, <2>2, <4>1, <4>3 DEF Copied, Past
    <3>2. CASE ReadConsumers(r)
      <4>1. pc'[r] = "copy"
        BY <3>2 DEF ReadConsumers, ReadChildren, Go
      <4>2. copy'[r] = {"key", "iterations"} \cup (Parts \cap {"consumers"})
        BY <2>2, <2>5, <3>2 DEF ReadConsumers, ReadChildren, Copied
      <4>3. copy'[r] = Parts
        BY <4>2 DEF Parts
      <4> QED BY <2>1, <2>2, <4>1, <4>3 DEF Copied, Past
    <3> QED BY <1>2, <3>1, <3>2
  <2> QED BY <2>3, <2>4, <2>5
<1>3. CASE SaveCopy(r)
  <2>1. /\ pc[r] = "copy" /\ pc'[r] \in {"log", "close"} /\ UNCHANGED <<row, tree, req, copy>>
    BY <1>3 DEF SaveCopy, Committed, Return, Go, local
  <2>2. Copied(r)
    BY <1>0, <2>1 DEF Reading
  <2> QED BY <2>1, <2>2 DEF Copied, Past
<1>4. CASE ~ (Read(r) \/ ReadIterations(r) \/ ReadConsumers(r) \/ SaveCopy(r))
  <2>1. pc'[r] \notin Reading /\ UNCHANGED saved
    BY <1>4 DEF Acts, Step, Admit, FirstStep, CommitRow, Log, Logged, Publish, MarkFailed, MarkLog,
       Delete, Close, Ends, PoolTimeout, Raises, ApiStops, Committed, Return, Go, crm, Reading
  <2>2. r \in saved /\ Copied(r) /\ pc[r] # "idle"
    BY <1>0, <2>1 DEF HandlerInv
  <2>3. UNCHANGED <<req[r], copy[r]>>
    BY <1>4, <2>2 DEF Acts, Step, Admit, CommitRow, Log, Publish, MarkFailed, MarkLog,
       Delete, Close, Ends, PoolTimeout, Raises, ApiStops
  <2> QED BY <2>1, <2>2, <2>3, CopyKept
<1> QED BY <1>1, <1>2, <1>3, <1>4

LEMMA CopyStep ==
  ASSUME IInv, Moves
  PROVE  CopyInv'
<1> SUFFICES ASSUME NEW r \in Requests, pc'[r] \in Reading \/ r \in saved'
             PROVE  Copied(r)'
  BY DEF CopyInv, Copied
<1>1. CASE Acts(r)
  BY <1>1, CopyMoves
<1>2. CASE Frame(r)
  <2>1. Copied(r)
    BY <1>2 DEF Frame, IInv, CopyInv, Copied
  <2> QED BY <1>2, <2>1, CopyKept DEF Frame
<1> QED BY <1>1, <1>2, MovesCases, RequestFrame, TaskFrame

LEMMA OutcomeStep ==
  ASSUME IInv, Moves
  PROVE  OutcomeInv'
<1> USE RequestsAssumption DEF IInv, TypeOK
<1>0. \A g \in Generations : Past(g) => Past(g)'
  BY ForwardStep DEF Forward, Past
<1>1. ASSUME NEW r \in Requests, Acts(r)
      PROVE  OutcomeInv'
  <2>1. \A t \in Tasks : t # r
    OBVIOUS
  <2>2. /\ UNCHANGED <<task, hints>>
        /\ done \subseteq done' /\ \A d \in done' \ done : d[2] = r
    BY <1>1 DEF Acts, Step, Admit, CommitRow, Log, Publish, MarkFailed, MarkLog, Read, ReadIterations,
       ReadConsumers, ReadChildren, SaveCopy, Delete, Close, Ends, PoolTimeout, Raises, ApiStops, worker
  <2>3. \A t \in Tasks : Ended(t)' <=> Ended(t)
    BY <2>1, <2>2 DEF Ended
  <2>4. audit' \subseteq done'
    <3>1. CASE MarkLog(r)
      BY <2>2, <3>1 DEF MarkLog, HandlerInv, OutcomeInv
    <3>2. CASE SaveCopy(r)
      BY <3>2 DEF SaveCopy, OutcomeInv
    <3>3. CASE ~ (MarkLog(r) \/ SaveCopy(r))
      <4>1. UNCHANGED audit
        BY <1>1, <3>3 DEF Acts, Step, Admit, CommitRow, Log, Publish, MarkFailed, Read, ReadIterations,
           ReadConsumers, ReadChildren, Delete, Close, Ends, PoolTimeout, Raises, ApiStops, crm
      <4> QED BY <2>2, <4>1 DEF OutcomeInv
    <3> QED BY <3>1, <3>2, <3>3
  <2> QED BY <1>0, <2>2, <2>3, <2>4 DEF OutcomeInv
<1>2. ASSUME NEW t \in Tasks, Works(t)
      PROVE  OutcomeInv'
  <2>1. CASE Save(t)
    <3>1. UNCHANGED <<hints, audit>> /\ done \subseteq done'
      BY <2>1 DEF Save, SaveSuccess, SaveFailure, SaveNothing, crm
    <3>2. \A u \in Tasks : u # t => (Ended(u)' <=> Ended(u)) /\ task'[u] = task[u]
      BY <2>1 DEF Save, SaveSuccess, SaveFailure, SaveNothing, Ended
    <3>3. CASE SaveNothing(t, JobOf[t])
      BY <1>0, <2>1, <3>1, <3>2, <3>3 DEF Save, SaveNothing, OutcomeInv, Ended
    <3>4. CASE SaveSuccess(t, JobOf[t]) \/ SaveFailure(t, JobOf[t])
      <4>1. ~ Past(JobOf[t]) /\ Past(JobOf[t])' /\ Ended(t)'
        BY <3>4 DEF SaveSuccess, SaveFailure, Past, Ended
      <4>2. \A u \in Tasks : Ended(u) => JobOf[u] # JobOf[t]
        BY <4>1 DEF OutcomeInv
      <4> QED BY <1>0, <3>1, <3>2, <4>1, <4>2 DEF OutcomeInv
    <3> QED BY <2>1, <3>3, <3>4 DEF Save
  <2>2. CASE AuditOutcome(t)
    <3>1. UNCHANGED <<done, hints, row>> /\ \A u \in Tasks : task'[u] \in {"audit", "emit"} => Ended(u)
      BY <2>2 DEF AuditOutcome, OutcomeInv, local
    <3>2. <<Outcome(t), t>> \in done
      BY <2>2 DEF AuditOutcome, OutcomeInv, Outcome, Ended
    <3>3. audit' \subseteq audit \cup {<<Outcome(t), t>>}
      BY <2>2 DEF AuditOutcome
    <3>4. audit' \subseteq done'
      BY <3>1, <3>2, <3>3 DEF OutcomeInv
    <3> QED BY <3>1, <3>4 DEF OutcomeInv, Ended, Past
  <2>3. CASE Emit(t)
    <3>1. UNCHANGED <<done, audit, row>> /\ hints' \subseteq hints \cup {JobOf[t]}
      BY <2>3 DEF Emit, crm, local
    <3>2. Past(JobOf[t])
      BY <2>3 DEF Emit, OutcomeInv
    <3>3. \A u \in Tasks : task'[u] \in {"audit", "emit"} => Ended(u)
      BY <2>3 DEF Emit, OutcomeInv
    <3> QED BY <3>1, <3>2, <3>3 DEF OutcomeInv, Ended, Past
  <2> QED BY <1>2, <2>1, <2>2, <2>3 DEF Works
<1> QED BY <1>1, <1>2, MovesCases

LEMMA IInvStep ==
  ASSUME IInv, [Next]_vars
  PROVE  IInv'
<1>1. CASE Moves
  <2>1. TypeOK'
    BY TypeStep DEF IInv
  <2> QED BY <1>1, <2>1, HandlerStep, UniqueStep, OwnerStep, OwnedStep, TreeStep, CopyStep, OutcomeStep DEF IInv
<1>2. CASE (\E r \in Requests : Timeout(r)) \/ UNCHANGED vars
  <2>1. UNCHANGED <<row, owner, tree, keyOwner, hints, saved, audit, done, pc, req, scope, copy, task>>
    BY <1>2 DEF Timeout, vars, local, crm, request, worker
  <2>2. TypeOK'
    BY TypeStep DEF IInv
  <2>3. HandlerInv' /\ UniqueInv'
    BY <2>1 DEF IInv, HandlerInv, UniqueInv, Named, Reported
  <2>4. OwnerInv' /\ OwnedInv' /\ TreeInv'
    BY <2>1 DEF IInv, OwnerInv, OwnedInv, Owned, Reported, TreeInv, Past
  <2>5. CopyInv' /\ OutcomeInv'
    BY <2>1 DEF IInv, CopyInv, OutcomeInv, Past, Ended
  <2> QED BY <2>2, <2>3, <2>4, <2>5 DEF IInv
<1> QED BY <1>1, <1>2, NextCases

LEMMA IInvHolds == Spec => []IInv
BY InitIInv, IInvStep, PTL DEF Spec

-----------------------------------------------------------------------------
(* What a client is told.                                                   *)

\* The write of an operation is there, and nobody takes it back.
Wrote(r) ==
  LET o == req[r].op  x == req[r].id IN
  /\ Named(r)
  /\ o = "start" => row[x] # "none"
  /\ o = "save" => r \in saved
  /\ o = "delete_key" => tree[x] = {} /\ Past(GenerationOf[x])
  /\ o = "delete_generation" => row[x] = "gone" /\ \A k \in KeysOf(x) : tree[k] = {}

\* All that a success promises, and all that an error does.
Settled(r) == Wrote(r) /\ (req[r].op = "start" => req[r].id \in queued)
Reverted(r) ==
  <<req[r].op, r>> \in done =>
    /\ req[r].op = "start" /\ Named(r)
    /\ row[req[r].id] \in {"FAILED", "gone"}

\* A handler past its commit has written, one before it has not, and its result
\* and the answer say which.
Answered(r) ==
  /\ result[r] # "none" => pc[r] = "close"
  /\ answer[r] \in {"success", "error"} => pc[r] = "closed"
  /\ pc[r] \in {"commit", "log"} /\ req[r].op = "start" => r \in conn
  /\ pc[r] \in {"log", "publish"} => Wrote(r)
  /\ pc[r] = "close" => result[r] # "none"
  /\ "success" \in {result[r], answer[r]} => Settled(r)
  /\ "error" \in {result[r], answer[r]} => Reverted(r) \/ r \in cut
  /\ answer[r] = "timeout" /\ pc[r] = "closed" => Settled(r) \/ Reverted(r) \/ r \in cut
  /\ pc[r] \in Reading \cup {"commit", "read", "delete"} => ~ Reported(r)
  /\ pc[r] = "mark_log" => Reverted(r)
  /\ pc[r] = "delete" =>
       \/ req[r].op = "delete_key" /\ Past(GenerationOf[req[r].id])
       \/ req[r].op = "delete_generation"

AnswerInv == \A r \in Requests : Answered(r)

LEMMA InitAnswer == Init => AnswerInv
BY DEF Init, AnswerInv, Answered, Reading

\* A deleted generation stays deleted, one that failed is not taken up again,
\* and an event stays in the stream.
Stays(g) ==
  /\ row[g] = "gone" => row'[g] = "gone"
  /\ row[g] = "FAILED" => row'[g] \in {"FAILED", "gone"}

LEMMA GoneStays ==
  ASSUME IInv, Moves
  PROVE  (\A g \in Generations : Stays(g)) /\ queued \subseteq queued'
<1> USE DEF IInv, Stays
<1>1. ASSUME NEW r \in Requests, Acts(r)
      PROVE  (\A g \in Generations : Stays(g)) /\ queued \subseteq queued'
  <2>1. CASE CommitRow(r)
    BY <2>1 DEF CommitRow, HandlerInv, TypeOK
  <2>2. CASE MarkFailed(r) \/ Delete(r)
    BY <2>2 DEF MarkFailed, Delete, TypeOK
  <2>3. CASE ~ (CommitRow(r) \/ MarkFailed(r) \/ Delete(r))
    BY <1>1, <2>3 DEF Acts, Step, Admit, Log, Publish, MarkLog, Read, ReadIterations,
       ReadConsumers, ReadChildren, SaveCopy, Close, Ends, PoolTimeout, Raises, ApiStops, local
  <2> QED BY <2>1, <2>2, <2>3
<1>2. ASSUME NEW t \in Tasks, Works(t)
      PROVE  (\A g \in Generations : Stays(g)) /\ queued \subseteq queued'
  BY <1>2 DEF Works, Save, SaveSuccess, SaveFailure, SaveNothing, AuditOutcome, Emit, local, TypeOK
<1> QED BY <1>1, <1>2, MovesCases

LEMMA RevertedKept ==
  ASSUME IInv, Moves, NEW r \in Requests, Reverted(r), req'[r] = req[r],
         <<req[r].op, r>> \in done' <=> <<req[r].op, r>> \in done
  PROVE  Reverted(r)'
BY GoneStays DEF Reverted, Named, Stays

LEMMA WroteKept ==
  ASSUME IInv, Moves, NEW r \in Requests, Wrote(r), req'[r] = req[r], r \in saved => r \in saved'
  PROVE  Wrote(r)'
<1> DEFINE x == req[r].id
<1> USE RequestsAssumption
<1>1. Named(r)'
  BY DEF Wrote, Named
<1>2. req[r].op = "start" => row'[x] # "none"
  BY ForwardStep DEF Wrote, Named, Forward
<1>3. req[r].op = "delete_key" => tree'[x] = {} /\ Past(GenerationOf[x])'
  BY ForwardStep DEF Wrote, Named, Forward, Past, Ops
<1>4. req[r].op = "delete_generation" => row'[x] = "gone" /\ \A k \in KeysOf(x) : tree'[k] = {}
  BY ForwardStep, GoneStays DEF Wrote, Named, Forward, Past, KeysOf, Stays
<1> QED BY <1>1, <1>2, <1>3, <1>4 DEF Wrote

LEMMA SettledKept ==
  ASSUME IInv, Moves, NEW r \in Requests, Settled(r), req'[r] = req[r], r \in saved => r \in saved'
  PROVE  Settled(r)'
BY WroteKept, GoneStays DEF Settled

LEMMA AnswerFrame ==
  ASSUME IInv, Moves, NEW r \in Requests, Answered(r), Frame(r), UNCHANGED <<result[r], answer[r]>>,
         r \in conn' <=> r \in conn, r \in cut => r \in cut'
  PROVE  Answered(r)'
<1>1. (Wrote(r) => Wrote(r)') /\ (Settled(r) => Settled(r)')
  BY WroteKept, SettledKept DEF Frame
<1>2. Reported(r)' <=> Reported(r)
  BY DEF Frame, Reported, Actions, OwnActions
<1>3. Reverted(r) => Reverted(r)'
  BY RevertedKept DEF Frame, Actions, OwnActions, IInv, TypeOK
<1>4. pc[r] = "delete" /\ req[r].op = "delete_key" /\ Past(GenerationOf[req[r].id])
        => Past(GenerationOf[req[r].id])'
  <2>1. pc[r] = "delete" /\ req[r].op = "delete_key" => GenerationOf[req[r].id] \in Generations
    BY RequestsAssumption DEF IInv, HandlerInv, Working, Named
  <2> QED BY <2>1, ForwardStep DEF Forward, Past, Frame
<1> QED BY <1>1, <1>2, <1>3, <1>4 DEF Answered, Frame, Past

\* Where a handler goes when a commit has taken effect.
LEMMA CommittedMoves ==
  ASSUME IInv, NEW r \in Requests, NEW next, Committed(r, next)
  PROVE  \/ pc'[r] = next /\ UNCHANGED result
         \/ pc'[r] = "close" /\ result'[r] = "error" /\ r \in cut'
BY DEF Committed, Cut, Return, Go, IInv, TypeOK

LEMMA AnswerMoves ==
  ASSUME IInv, IInv', Moves, NEW r \in Requests, Answered(r), Acts(r)
  PROVE  Answered(r)'
<1> USE RequestsAssumption DEF IInv, TypeOK
<1>0. /\ Wrote(r) /\ req' = req /\ saved \subseteq saved' => Wrote(r)'
      /\ Settled(r) /\ req' = req /\ saved \subseteq saved' => Settled(r)'
      /\ Reverted(r) /\ req' = req /\ done' = done => Reverted(r)'
  BY WroteKept, SettledKept, RevertedKept
<1>00. pc[r] \notin {"close", "closed", "stopped"} => result[r] = "none" /\ answer[r] \in {"none", "timeout"}
  BY DEF Answered
<1>000. ~ Reported(r) => Reverted(r)
  BY DEF Reported, Reverted
<1>1. ASSUME NEW o \in Ops, NEW h \in Communities \cup {Nobody}, NEW x \in Targets(o), Admit(r, o, x, h)
      PROVE  Answered(r)'
  <2>1. ~ Reported(r)' /\ Reverted(r)'
    <3>1. ~ Reported(r) /\ UNCHANGED done
      BY <1>1 DEF Admit, HandlerInv
    <3>2. req'[r].op \in Ops
      OBVIOUS
    <3> QED BY <3>1, <3>2 DEF Reported, Reverted
  <2>2. result[r] = "none" /\ answer'[r] \in {"none", "timeout"} /\ pc[r] = "idle"
    BY <1>1, <1>00 DEF Admit
  <2>3. \/ pc'[r] \in {"commit", "read"} /\ result'[r] = "none"
        \/ pc'[r] = "close" /\ result'[r] = "error"
    BY <1>1, <2>2 DEF Admit, Return, Go, FirstStep
  <2>4. r \in conn'
    BY <1>1 DEF Admit
  <2> QED BY <2>1, <2>2, <2>3, <2>4 DEF Answered, Reading
<1>2. CASE CommitRow(r)
  <2>1. pc[r] = "commit" /\ UNCHANGED <<req, answer, conn>> /\ Committed(r, "log")
    BY <1>2 DEF CommitRow
  <2>2. Wrote(r)'
    BY <1>2, <2>1 DEF CommitRow, HandlerInv, Working, Wrote, Named
  <2>3. r \in conn'
    BY <2>1 DEF HandlerInv, Answered
  <2> QED BY <1>00, <2>1, <2>2, <2>3, CommittedMoves DEF Answered, Reading
<1>3. CASE Log(r) \/ (PoolTimeout(r) /\ pc[r] = "log")
  <2>1. /\ UNCHANGED <<req, saved, done, answer, queued>> /\ Wrote(r)
        /\ pc[r] = "log" /\ result[r] = "none" /\ answer[r] \in {"none", "timeout"}
    BY <1>3 DEF Log, PoolTimeout, local, crm, Answered
  <2>2. \/ pc'[r] = "publish" /\ result'[r] = "none"
        \/ pc'[r] = "close" /\ result'[r] = "success" /\ req[r].op # "start"
    <3>1. CASE Log(r)
      BY <2>1, <3>1 DEF Log, Logged, Return, Go
    <3>2. CASE PoolTimeout(r) /\ pc[r] = "log"
      <4>1. pc'[r] = "close" /\ result'[r] = "success" /\ r \notin conn
        BY <3>2 DEF PoolTimeout, Return, Go
      <4> QED BY <3>2, <4>1 DEF Answered
    <3> QED BY <1>3, <3>1, <3>2
  <2>3. Wrote(r)' /\ (req[r].op # "start" => Settled(r)')
    BY <1>0, <2>1 DEF Settled
  <2> QED BY <2>1, <2>2, <2>3 DEF Answered, Reading
<1>4. CASE Publish(r)
  <2>1. /\ UNCHANGED <<req, saved, done, answer>> /\ Wrote(r) /\ result[r] = "none"
        /\ answer[r] \in {"none", "timeout"}
    BY <1>4 DEF Publish, crm, Answered
  <2>2. \/ pc'[r] = "mark" /\ result'[r] = "none"
        \/ pc'[r] = "close" /\ result'[r] = "success" /\ req[r].id \in queued'
    BY <1>4, <2>1 DEF Publish, Return, Go
  <2>3. req[r].id \in queued' => Settled(r)'
    BY <1>0, <2>1 DEF Settled
  <2> QED BY <2>1, <2>2, <2>3 DEF Answered, Reading
<1>5. CASE MarkFailed(r) \/ MarkLog(r) \/ (PoolTimeout(r) /\ pc[r] = "mark_log")
  <2>1. /\ UNCHANGED <<req, answer>> /\ answer[r] \in {"none", "timeout"} /\ result[r] = "none"
        /\ req[r].op = "start" /\ Named(r)
    BY <1>5 DEF MarkFailed, MarkLog, PoolTimeout, Answered, HandlerInv, Working
  <2>2. \/ pc'[r] = "mark_log" /\ result'[r] = "none"
        \/ pc'[r] = "close" /\ result'[r] = "error"
    BY <1>5, <2>1 DEF MarkFailed, MarkLog, PoolTimeout, Return, Go
  <2>3. Reverted(r)'
    <3>1. CASE MarkFailed(r)
      <4>1. row'[req[r].id] \in {"FAILED", "gone"}
        BY <2>1, <3>1 DEF MarkFailed, Named
      <4> QED BY <2>1, <4>1 DEF Reverted, Named
    <3>2. CASE MarkLog(r) \/ (PoolTimeout(r) /\ pc[r] = "mark_log")
      <4>1. Reverted(r) /\ done' = done
        BY <3>2 DEF MarkLog, PoolTimeout, Answered
      <4> QED BY <1>0, <2>1, <4>1
    <3> QED BY <1>5, <3>1, <3>2
  <2> QED BY <2>1, <2>2, <2>3 DEF Answered, Reading
<1>6. CASE Read(r)
  <2>1. /\ UNCHANGED <<row, tree, req, done, answer>> /\ ~ Reported(r) /\ Reverted(r)'
        /\ answer[r] \in {"none", "timeout"} /\ result[r] = "none"
    BY <1>0, <1>000, <1>6 DEF Read, local, Answered
  <2>2. CASE pc'[r] = "delete" /\ result'[r] = "none"
    <3>1. Found(r) /\ req[r].op # "save" /\ req[r].op # "start" /\ Named(r)
      <4>1. pc[r] = "read" /\ Found(r) /\ req[r].op # "save"
        BY <1>6, <2>2 DEF Read, Return, Go
      <4> QED BY <4>1 DEF HandlerInv, Working
    <3>2. CASE req[r].op = "delete_key"
      <4>1. Past(GenerationOf[req[r].id])
        BY <3>1, <3>2 DEF Found, Named, TreeInv
      <4> QED BY <2>1, <2>2, <3>2, <4>1 DEF Answered, Reading, Reported, Past
    <3>3. CASE req[r].op = "delete_generation"
      BY <2>1, <2>2, <3>3 DEF Answered, Reading, Reported
    <3> QED BY <3>1, <3>2, <3>3 DEF Ops
  <2>3. CASE (pc'[r] = "read_iterations" /\ result'[r] = "none") \/ (pc'[r] = "close" /\ result'[r] = "error")
    BY <2>1, <2>3 DEF Answered, Reading, Reported
  <2> QED BY <1>6, <2>1, <2>2, <2>3 DEF Read, Return, Go
<1>7. CASE ReadIterations(r) \/ ReadConsumers(r)
  <2>1. /\ UNCHANGED <<done, answer, result>> /\ result[r] = "none" /\ ~ Reported(r)
        /\ answer[r] \in {"none", "timeout"} /\ pc'[r] \in {"read_consumers", "copy"}
    BY <1>7 DEF ReadIterations, ReadConsumers, ReadChildren, Go, Answered, Reading
  <2> QED BY <2>1 DEF Answered, Reading, Reported
<1>8. CASE SaveCopy(r)
  <2>1. /\ UNCHANGED <<req, answer>> /\ answer[r] \in {"none", "timeout"} /\ result[r] = "none"
        /\ Committed(r, "log") /\ r \in saved' /\ req[r].op = "save" /\ req[r].id \in Keys
    BY <1>8 DEF SaveCopy, Answered, CopyInv, Reading
  <2>2. Wrote(r)'
    BY <2>1 DEF Wrote, Named
  <2> QED BY <2>1, <2>2, CommittedMoves DEF Answered, Reading
<1>9. CASE Delete(r)
  <2>1. /\ UNCHANGED <<req, answer>> /\ answer[r] \in {"none", "timeout"} /\ result[r] = "none"
        /\ Committed(r, "log") /\ Named(r)
    <3>1. pc[r] = "delete" /\ Committed(r, "log") /\ UNCHANGED <<req, answer>>
      BY <1>9 DEF Delete
    <3>2. Named(r)
      BY <3>1 DEF HandlerInv, Working
    <3> QED BY <1>00, <3>1, <3>2
  <2>2. CASE req[r].op = "delete_key" /\ Past(GenerationOf[req[r].id])
    <3>1. tree'[req[r].id] = {} /\ UNCHANGED row /\ req[r].id \in Keys
      BY <1>9, <2>1, <2>2 DEF Delete, Named
    <3>2. Wrote(r)'
      BY <2>1, <2>2, <3>1 DEF Wrote, Named, Past
    <3> QED BY <2>1, <2>2, <3>2, CommittedMoves DEF Answered, Reading
  <2>3. CASE req[r].op = "delete_generation"
    <3>1. /\ row'[req[r].id] = "gone" /\ \A k \in KeysOf(req[r].id) : tree'[k] = {}
          /\ req[r].id \in Generations
      BY <1>9, <2>1, <2>3 DEF Delete, Named, KeysOf
    <3>2. Wrote(r)'
      BY <2>1, <2>3, <3>1 DEF Wrote, Named, KeysOf
    <3> QED BY <2>1, <2>3, <3>2, CommittedMoves DEF Answered, Reading
  <2> QED BY <1>9, <2>2, <2>3 DEF Delete, Answered
<1>10. CASE Close(r)
  <2>1. /\ UNCHANGED <<req, saved, done, queued, cut>> /\ pc[r] = "close"
        /\ pc'[r] = "closed" /\ result'[r] = "none"
        /\ answer'[r] = IF answer[r] = "none" THEN result[r] ELSE answer[r]
    BY <1>10 DEF Close, Ends, Go, local, crm
  <2>2. answer[r] \in {"none", "timeout"} /\ result[r] \in {"success", "error"}
    BY <2>1 DEF Answered
  <2>3. (result[r] = "success" => Settled(r)') /\ (result[r] = "error" => Reverted(r)' \/ r \in cut')
    BY <1>0, <2>1 DEF Answered
  <2> QED BY <2>1, <2>2, <2>3 DEF Answered, Reading
<1>11. CASE Raises(r)
  <2>1. /\ UNCHANGED <<req, done, answer>> /\ answer[r] \in {"none", "timeout"}
        /\ pc'[r] = "close" /\ result'[r] = "error"
    BY <1>11 DEF Raises, Return, Go, Answered
  <2>2. Reverted(r) \/ r \in cut'
    BY <1>000, <1>11 DEF Raises, Cut, Answered, Reading
  <2> QED BY <1>0, <2>1, <2>2 DEF Answered, Reading
<1>12. CASE ApiStops(r)
  <2>1. /\ UNCHANGED answer /\ pc'[r] = "stopped" /\ result'[r] = "none"
        /\ answer[r] \in {"none", "timeout"}
    BY <1>12 DEF ApiStops, Ends, Running, Go, Answered
  <2> QED BY <2>1 DEF Answered, Reading
<1> QED BY <1>1, <1>2, <1>3, <1>4, <1>5, <1>6, <1>7, <1>8, <1>9, <1>10, <1>11, <1>12
       DEF Acts, Step, PoolTimeout

LEMMA OthersAnswers ==
  ASSUME IInv, NEW r \in Requests,
         (\E q \in Requests : q # r /\ Acts(q)) \/ (\E t \in Tasks : Works(t))
  PROVE  UNCHANGED <<result[r], answer[r]>> /\ (r \in conn' <=> r \in conn) /\ cut \subseteq cut'
<1> USE DEF IInv, TypeOK
<1>1. ASSUME NEW q \in Requests, q # r, Acts(q)
      PROVE  UNCHANGED <<result[r], answer[r]>> /\ (r \in conn' <=> r \in conn) /\ cut \subseteq cut'
  BY <1>1 DEF Acts, Step, Admit, CommitRow, Log, Logged, Publish, MarkFailed, MarkLog, Read, ReadIterations,
     ReadConsumers, ReadChildren, SaveCopy, Delete, Close, Ends, PoolTimeout, Raises, ApiStops,
     Committed, Cut, Return
<1>2. ASSUME NEW t \in Tasks, Works(t)
      PROVE  UNCHANGED <<result[r], answer[r]>> /\ (r \in conn' <=> r \in conn) /\ cut \subseteq cut'
  BY <1>2 DEF Works, Save, AuditOutcome, Emit, request
<1> QED BY <1>1, <1>2

\* A 504 says nothing yet: its handler has not ended.
LEMMA TimeoutAnswers ==
  ASSUME IInv, NEW r \in Requests, Answered(r), NEW q \in Requests, Timeout(q)
  PROVE  Answered(r)'
<1>1. UNCHANGED <<row, tree, saved, queued, done, pc, req, conn, result, cut>>
  BY DEF Timeout, local, crm
<1>2. \/ answer'[r] = answer[r]
      \/ answer'[r] = "timeout" /\ pc[r] # "closed"
  BY DEF Timeout, Running, IInv, TypeOK
<1>3. /\ Wrote(r)' <=> Wrote(r)
      /\ Settled(r)' <=> Settled(r)
      /\ Reverted(r)' <=> Reverted(r)
      /\ Reported(r)' <=> Reported(r)
  BY <1>1 DEF Wrote, Settled, Reverted, Reported, Named, Past
<1> QED BY <1>1, <1>2, <1>3 DEF Answered, Past

LEMMA AnswerStep ==
  ASSUME IInv, IInv', AnswerInv, [Next]_vars
  PROVE  AnswerInv'
<1>1. CASE UNCHANGED vars
  <2>1. UNCHANGED <<row, tree, saved, queued, done, pc, req, conn, result, answer, cut>>
    BY <1>1 DEF vars, local, crm, request
  <2> QED BY <2>1 DEF AnswerInv, Answered, Settled, Reverted, Wrote, Named, Past, Reported
<1>2. ASSUME Moves, NEW r \in Requests
      PROVE  Answered(r)'
  <2>1. Answered(r)
    BY DEF AnswerInv
  <2>2. CASE Acts(r)
    BY <1>2, <2>1, <2>2, AnswerMoves
  <2>3. CASE (\E q \in Requests : q # r /\ Acts(q)) \/ (\E t \in Tasks : Works(t))
    <3>1. Frame(r)
      BY <2>3, RequestFrame, TaskFrame
    <3> QED BY <1>2, <2>1, <2>3, <3>1, OthersAnswers, AnswerFrame
  <2> QED BY <1>2, <2>2, <2>3, MovesCases
<1>3. ASSUME NEW q \in Requests, Timeout(q), NEW r \in Requests
      PROVE  Answered(r)'
  BY <1>3, TimeoutAnswers DEF AnswerInv
<1> QED BY <1>1, <1>2, <1>3, NextCases DEF AnswerInv

-----------------------------------------------------------------------------
(* The properties.                                                          *)

\* A request changes nothing outside its community, whatever the others do
\* meanwhile: what it named was found with its own id_community, or was given
\* it, and neither a row nor a key changes hands (OwnedInv, OwnerInv).
THEOREM RequestsAreIsolated == Spec => []Isolated
<1>1. IInv => Isolated
  <2> SUFFICES ASSUME IInv, NEW r \in Requests, Reported(r)
               PROVE  scope[r] \in Subscribed /\ Written(r) \subseteq {scope[r], Nobody}
    BY DEF Isolated, Reported
  <2>1. Owned(r)
    BY DEF IInv, OwnedInv
  <2>2. req[r].id \in Generations \cup Keys
    BY <2>1 DEF Owned
  <2>3. CASE req[r].id \in Generations
    <3>1. \A k \in KeysOf(req[r].id) : keyOwner[k] \in {Nobody, scope[r]}
      BY <2>1, <2>3 DEF IInv, OwnerInv, Owned, KeysOf
    <3> QED BY <2>1, <2>3, <3>1 DEF Written, Owned
  <2>4. CASE req[r].id \notin Generations
    BY <2>1, <2>2, <2>4 DEF Written, Owned
  <2> QED BY <2>1, <2>3, <2>4 DEF Owned
<1> QED BY <1>1, IInvHolds, PTL

\* The audit log and the hub are told only of what was committed, and of one
\* outcome for each generation, however many deliveries of it end together: an
\* UPDATE that counts a row has left PENDING behind for good (OutcomeInv).
THEOREM ReportsHold == Spec => []ReportsAreTrue
<1>1. IInv => ReportsAreTrue
  <2> SUFFICES ASSUME IInv PROVE ReportsAreTrue
    OBVIOUS
  <2>1. NoFalseAudit /\ HintAfterCommit
    BY DEF IInv, OutcomeInv, NoFalseAudit, HintAfterCommit, Past
  <2>2. \A t \in Tasks : {<<"succeeded", t>>, <<"failed", t>>} \cap audit # {} => Ended(t)
    BY DEF IInv, OutcomeInv, Ended
  <2>3. OneOutcomeAudited
    BY <2>2 DEF IInv, OutcomeInv, OneOutcomeAudited
  <2> QED BY <2>1, <2>3 DEF ReportsAreTrue
<1> QED BY <1>1, IInvHolds, PTL

\* A copy of a key in the CRM lacks rows only if the key was deleted: the rows
\* of a key appear together, and once they are gone no delivery writes them
\* again (TreeInv, CopyInv).
THEOREM CopiesAreTornOnlyByDeletes == Spec => []TornOnlyByDelete
<1>1. IInv => TornOnlyByDelete
  BY DEF IInv, TypeOK, CopyInv, TornOnlyByDelete
<1> QED BY <1>1, IInvHolds, PTL

\* What a client is told stays true: a success names a write that nobody takes
\* back, an error one that was not made or a generation that has failed for
\* good, and after a 504 the handler goes on until one of the two holds.  The
\* handlers go on after their commits and may fail there; the requests of which
\* nobody can tell any more are those in cut (AnswerInv).
THEOREM AnswersAreTrue == Spec => []AnswerIsTrue
<1>1. IInv /\ AnswerInv => AnswerIsTrue
  <2> SUFFICES ASSUME IInv, AnswerInv, NEW r \in Requests
               PROVE  /\ answer[r] = "success" => Kept(r)
                      /\ answer[r] = "error" => Undone(r) \/ r \in cut
                      /\ answer[r] = "timeout" /\ pc[r] = "closed" => Undone(r) \/ r \in cut \/ Kept(r)
    BY DEF AnswerIsTrue
  <2>1. req[r].op \in {"start", "save", "delete_key", "delete_generation"}
    BY DEF IInv, TypeOK, Ops
  <2>2. Settled(r) => Kept(r)
    BY <2>1 DEF Settled, Wrote, Kept
  <2>3. Reverted(r) => Undone(r)
    BY DEF Reverted, Undone
  <2> QED BY <2>2, <2>3 DEF AnswerInv, Answered
<1>2. Spec => []AnswerInv
  BY IInvHolds, InitAnswer, AnswerStep, PTL DEF Spec
<1> QED BY <1>1, <1>2, IInvHolds, PTL
=============================================================================
