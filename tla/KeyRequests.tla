----------------------------- MODULE KeyRequests -----------------------------
(***************************************************************************)
(* What a community's requests and the worker do to the two databases: the *)
(* local one (generations and their keys) and the CRM (saved keys and the  *)
(* audit log).  No transaction spans both, and every request carries one   *)
(* session for each, closed when it ends.                                  *)
(*                                                                         *)
(* Sessions run at the database's default isolation, so each statement     *)
(* sees what is committed when it starts.  A key is read by three of them: *)
(* its row, its iterations, their consumers.  A result has one step per    *)
(* commit; a flush and the commit after it are one, since nobody else sees *)
(* what is flushed.  Object storage and the retries of the worker are      *)
(* GenerationPipeline's subject.                                           *)
(***************************************************************************)
EXTENDS Naturals, FiniteSets

CONSTANTS
  Requests,      \* requests to the API
  Slow,          \* requests that may take longer than TIMEOUT_SECONDS
  Tasks,         \* deliveries whose handler is about to save a result
  JobOf,         \* the generation a delivery is of
  Communities,   \* rows of the community table
  Subscribed,    \* communities with an active subscription to the feature
  Generations,   \* ids of generations
  Early,         \* generations that may exist before the requests
  Keys,          \* ids of generated keys
  GenerationOf,  \* the generation a key is the result of
  CrmPool,       \* connections of the CRM engine: pool_size + max_overflow
  MaxCut,        \* bound: requests that fail after their commit
  Nobody         \* no community: a header that is absent or unknown

ASSUME RequestsAssumption ==
  /\ IsFiniteSet(Requests) /\ Slow \subseteq Requests
  /\ Requests \cap Tasks = {}
  /\ JobOf \in [Tasks -> Generations]
  /\ Early \subseteq Generations
  /\ Subscribed \subseteq Communities
  /\ Nobody \notin Communities \cup Generations \cup Keys
  /\ GenerationOf \in [Keys -> Generations]
  /\ Keys \cap Generations = {}
  /\ CrmPool \in Nat \ {0} /\ MaxCut \in Nat

VARIABLES
  row,       \* generation.status, or that there is no row (yet, or any more)
  owner,     \* generation.id_community
  tree,      \* the rows of a generated key
  keyOwner,  \* allocation_key_generated.id_community
  queued,    \* generations whose event is in the stream
  saved,     \* requests whose copy of a key is in the CRM
  audit,     \* rows of the audit log: the action and who logged it
  done,      \* business writes that were committed, named like audit rows
  hints,     \* generations announced as finished
  pc,        \* where a request stands
  req,       \* its operation and the id it names
  scope,     \* its current_internal_community_id
  conn,      \* requests whose CRM session holds a connection
  staged,    \* requests with an audit row in their CRM session
  copy,      \* the rows of the key that the request has read
  result,    \* what its handler returns
  answer,    \* what its client was told, if it was told
  cut,       \* requests whose commit took effect and raised, or whose mark failed
  task       \* where a handler task stands

local   == <<row, owner, tree, keyOwner, queued>>
crm     == <<saved, audit>>
request == <<pc, req, scope, conn, staged, copy, result, answer, cut>>
worker  == <<task, hints>>
vars    == <<local, crm, done, request, worker>>

Parts == {"key", "iterations", "consumers"}
Ops == {"start", "save", "delete_key", "delete_generation"}
RequestSteps ==
  {"idle", "commit", "read", "read_iterations", "read_consumers", "copy",
   "delete", "log", "publish", "mark", "mark_log", "close", "closed", "stopped"}

\* AuditActions of a request's own write, and of the others.
OwnActions == Ops
Actions == OwnActions \cup {"queue_failed", "succeeded", "failed"}

Init ==
  /\ row \in [Generations -> {"none", "PENDING"}]
  /\ \A g \in Generations \ Early : row[g] = "none"
  /\ owner \in [Generations -> Communities \cup {Nobody}]
  /\ \A g \in Generations : owner[g] = Nobody <=> row[g] = "none"
  /\ queued = {g \in Generations : row[g] = "PENDING"}
  /\ tree = [k \in Keys |-> {}]
  /\ keyOwner = [k \in Keys |-> Nobody]
  /\ saved = {} /\ audit = {} /\ done = {} /\ hints = {}
  /\ pc = [r \in Requests |-> "idle"]
  /\ req = [r \in Requests |-> [op |-> "start", id |-> Nobody]]
  /\ scope = [r \in Requests |-> Nobody]
  /\ conn = {} /\ staged = {} /\ cut = {}
  /\ copy = [r \in Requests |-> {}]
  /\ result = [r \in Requests |-> "none"]
  /\ answer = [r \in Requests |-> "none"]
  /\ task = [t \in Tasks |-> "idle"]

Go(r, step) == pc' = [pc EXCEPT ![r] = step]
Return(r, res) == Go(r, "close") /\ result' = [result EXCEPT ![r] = res]
Free == Cardinality(conn) < CrmPool
Running(r) == pc[r] \notin {"idle", "closed", "stopped"}

\* The request fails after a commit.
Cut(r) == Cardinality(cut) < MaxCut /\ cut' = cut \cup {r}
KeysOf(g) == {k \in Keys : GenerationOf[k] = g}

\* What an operation may name; a new generation gets the next id of the table.
Targets(o) ==
  CASE o = "start" -> {g \in Generations : row[g] = "none" /\ \A r \in Requests : req[r].id # g}
    [] o = "delete_generation" -> Generations
    [] OTHER -> Keys

-----------------------------------------------------------------------------
(* Every request: the router's dependencies, its end, and what cuts it off. *)

\* resolve_internal_community: the header's community as the CRM knows it.
Resolved(header) == IF header \in Communities THEN header ELSE Nobody

\* with_community_scope: without a community nothing is visible.
Visible(c, id_community) == c # Nobody /\ id_community = c

\* require_feature: the community has an active subscription.
HasFeature(c) == \E s \in Subscribed : Visible(c, s)

\* The routes: what the handler of an operation does first.
FirstStep(o) == IF o = "start" THEN "commit" ELSE "read"

\* The router's dependencies, on the headers that GatewayScopeMiddleware keeps
\* for the request.  The first statement takes a connection, which the session
\* keeps until it commits or is closed.
Admit(r, o, x, header) ==
  /\ pc[r] = "idle"
  /\ Free
  /\ conn' = conn \cup {r}
  /\ IF HasFeature(Resolved(header))
     THEN /\ req' = [req EXCEPT ![r] = [op |-> o, id |-> x]]
          /\ scope' = [scope EXCEPT ![r] = Resolved(header)]
          /\ Go(r, FirstStep(o))
          /\ UNCHANGED result
     ELSE Return(r, "error") /\ UNCHANGED <<req, scope>>
  /\ UNCHANGED <<local, crm, done, staged, copy, answer, cut, worker>>

\* A check, a statement or a commit raises without effect, and
\* with_default_error makes it the answer.  At "mark" the row and perhaps the
\* event are there, and what was to undo the start is what failed.
Raises(r) ==
  /\ pc[r] \in {"commit", "read", "read_iterations", "read_consumers", "copy",
                "delete", "mark", "mark_log"}
  /\ Return(r, "error")
  /\ IF pc[r] = "mark" THEN Cut(r) ELSE UNCHANGED cut
  /\ UNCHANGED <<local, crm, done, req, scope, conn, staged, copy, answer, worker>>

\* What follows a commit that took effect: the next step, or the error that it
\* raises all the same, when its reply is lost.
Committed(r, next) ==
  \/ Go(r, next) /\ UNCHANGED <<result, cut>>
  \/ Return(r, "error") /\ Cut(r)

\* Mutant of Timeout: the handler is cancelled with the wait for its response.
TimeoutCancels(r) ==
  /\ Running(r)
  /\ r \in Slow
  /\ answer[r] = "none"
  /\ answer' = [answer EXCEPT ![r] = "timeout"]
  /\ Return(r, "none")
  /\ UNCHANGED <<local, crm, done, req, scope, conn, staged, copy, cut, worker>>

\* RequestLimitsMiddleware answers 504.  That cancels its wait for the response;
\* the handler runs on, in a task of its own.
Timeout(r) ==
  /\ Running(r)
  /\ r \in Slow
  /\ answer[r] = "none"
  /\ answer' = [answer EXCEPT ![r] = "timeout"]
  /\ UNCHANGED <<local, crm, done, pc, req, scope, conn, staged, copy, result, cut, worker>>

\* The handler is no more: its sessions are closed, which rolls back what they
\* have not committed, and what it has read is forgotten, unless it was copied.
Ends(r, step) ==
  /\ Go(r, step)
  /\ conn' = conn \ {r}
  /\ staged' = staged \ {r}
  /\ copy' = [copy EXCEPT ![r] = IF r \in saved THEN @ ELSE {}]
  /\ result' = [result EXCEPT ![r] = "none"]
  /\ UNCHANGED <<local, crm, done, req, scope, cut, worker>>

\* The client gets the result; nobody waits for one that follows a 504.
Close(r) ==
  /\ pc[r] = "close"
  /\ Ends(r, "closed")
  /\ answer' = [answer EXCEPT ![r] = IF @ = "none" THEN result[r] ELSE @]

\* The process stops: nobody answers any more.
ApiStops(r) ==
  /\ Running(r)
  /\ Ends(r, "stopped")
  /\ UNCHANGED answer

-----------------------------------------------------------------------------
(* The audit log.                                                           *)

\* Mutant of Logged: an audit row that cannot be inserted ends the request.
LogRaises(r) ==
  \/ /\ staged' = staged \cup {r}
     /\ IF req[r].op = "start"
        THEN Go(r, "publish") /\ UNCHANGED result
        ELSE Return(r, "success")
  \/ staged' = staged /\ Return(r, "error")

\* AuditLogService.log: the row is staged in a savepoint of the request's CRM
\* session; whatever goes wrong is swallowed.
Logged(r) ==
  /\ staged' \in {staged, staged \cup {r}}
  /\ IF req[r].op = "start"
     THEN Go(r, "publish") /\ UNCHANGED result
     ELSE Return(r, "success")

\* After save_key's commit the session has to take a connection again.
Log(r) ==
  /\ pc[r] = "log"
  /\ r \in conn \/ Free
  /\ conn' = conn \cup {r}
  /\ Logged(r)
  /\ UNCHANGED <<local, crm, done, req, scope, copy, answer, cut, worker>>

-----------------------------------------------------------------------------
(* start_generation and start_generation_from_crm.                          *)

CommitRow(r) ==
  /\ pc[r] = "commit"
  /\ row' = [row EXCEPT ![req[r].id] = "PENDING"]
  /\ owner' = [owner EXCEPT ![req[r].id] = scope[r]]
  /\ done' = done \cup {<<"start", r>>}
  /\ Committed(r, "log")
  /\ UNCHANGED <<tree, keyOwner, queued, crm, req, scope, conn, staged, copy,
                 answer, worker>>

\* send_event: stored and confirmed, stored without a confirmation, or not.
Publish(r) ==
  /\ pc[r] = "publish"
  /\ \/ queued' = queued \cup {req[r].id} /\ Return(r, "success")
     \/ queued' \in {queued, queued \cup {req[r].id}} /\ Go(r, "mark") /\ UNCHANGED result
  /\ UNCHANGED <<row, owner, tree, keyOwner, crm, done, req, scope, conn, staged,
                 copy, answer, cut, worker>>

\* _mark_failed_to_queue, in sessions of its own.  A commit that takes effect
\* and raises ends like an audit row that does (Raises).
MarkFailed(r) ==
  LET g == req[r].id IN
  /\ pc[r] = "mark"
  /\ \/ row[g] = "gone" /\ Return(r, "error") /\ UNCHANGED <<row, done>>
     \/ /\ row[g] # "gone"
        /\ row' = [row EXCEPT ![g] = "FAILED"]
        /\ done' = done \cup {<<"queue_failed", r>>}
        /\ Go(r, "mark_log")
        /\ UNCHANGED result
  /\ UNCHANGED <<owner, tree, keyOwner, queued, crm, req, scope, conn, staged,
                 copy, answer, cut, worker>>

\* Its audit row needs a second CRM connection, while the request keeps its
\* first; the row is committed, or swallowed.
MarkLog(r) ==
  /\ pc[r] = "mark_log"
  /\ Free
  /\ audit' \in {audit, audit \cup {<<"queue_failed", r>>}}
  /\ Return(r, "error")
  /\ UNCHANGED <<local, saved, done, req, scope, conn, staged, copy, answer, cut, worker>>

\* Mutant of PoolTimeout: the pool waits for as long as it takes.
PoolWaits(r) == FALSE /\ UNCHANGED vars

\* No connection came back within pool_timeout, for the audit row of save_key
\* or of _mark_failed_to_queue; AuditLogService swallows that.
PoolTimeout(r) ==
  /\ ~ Free
  /\ \/ pc[r] = "log" /\ r \notin conn /\ Return(r, "success")
     \/ pc[r] = "mark_log" /\ Return(r, "error")
  /\ UNCHANGED <<local, crm, done, req, scope, conn, staged, copy, answer, cut, worker>>

-----------------------------------------------------------------------------
(* save_key, delete_key and delete_generation.                              *)

\* Mutants of Found: a query without the filter on id_community.
FoundUnscoped(r) ==
  LET x == req[r].id IN
  IF req[r].op = "delete_generation" THEN row[x] \notin {"none", "gone"}
                                     ELSE "key" \in tree[x]

\* get_generation and get_allocation_key, in the scope of the request.
Found(r) ==
  LET x == req[r].id IN
  IF req[r].op = "delete_generation"
  THEN row[x] \notin {"none", "gone"} /\ Visible(scope[r], owner[x])
  ELSE "key" \in tree[x] /\ Visible(scope[r], keyOwner[x])

Read(r) ==
  /\ pc[r] = "read"
  /\ \/ ~ Found(r) /\ Return(r, "error") /\ UNCHANGED copy
     \/ /\ Found(r)
        /\ Go(r, IF req[r].op = "save" THEN "read_iterations" ELSE "delete")
        /\ copy' = IF req[r].op = "save" THEN [copy EXCEPT ![r] = {"key"}] ELSE copy
        /\ UNCHANGED result
  /\ UNCHANGED <<local, crm, done, req, scope, conn, staged, answer, cut, worker>>

\* The selectinload statements; there is none for the consumers of no
\* iteration.
ReadChildren(r, part, next) ==
  LET here == tree[req[r].id] \cap {part} IN
  /\ copy' = [copy EXCEPT ![r] = @ \cup here]
  /\ Go(r, IF here = {} THEN "copy" ELSE next)
  /\ UNCHANGED <<local, crm, done, req, scope, conn, staged, result, answer, cut, worker>>

ReadIterations(r) ==
  pc[r] = "read_iterations" /\ ReadChildren(r, "iterations", "read_consumers")

ReadConsumers(r) ==
  pc[r] = "read_consumers" /\ ReadChildren(r, "consumers", "copy")

\* to_allocation_key_crm, save_allocation_key and the commit of the session,
\* with all that is staged in it; the connection goes back to the pool.
SaveCopy(r) ==
  /\ pc[r] = "copy"
  /\ saved' = saved \cup {r}
  /\ audit' = audit \cup {<<"save", q>> : q \in staged \cap {r}}
  /\ staged' = staged \ {r}
  /\ done' = done \cup {<<"save", r>>}
  /\ conn' = conn \ {r}
  /\ Committed(r, "log")
  /\ UNCHANGED <<local, req, scope, copy, answer, worker>>

\* The row and, by its cascades, everything below it.  A row that somebody
\* else has deleted meanwhile is only a warning.
Delete(r) ==
  LET o == req[r].op  x == req[r].id IN
  /\ pc[r] = "delete"
  /\ row' = IF o = "delete_generation" THEN [row EXCEPT ![x] = "gone"] ELSE row
  /\ tree' = [k \in Keys |->
                IF k = x \/ (o = "delete_generation" /\ k \in KeysOf(x))
                THEN {} ELSE tree[k]]
  /\ done' = done \cup {<<o, r>>}
  /\ Committed(r, "log")
  /\ UNCHANGED <<owner, keyOwner, queued, crm, req, scope, conn, staged, copy,
                 answer, worker>>

-----------------------------------------------------------------------------
(* save_success and save_failure of the worker.                             *)

\* Mutants of SaveSuccess: the status is not part of the UPDATE's condition;
\* the key rows are added without their subtree; the hint is sent before a
\* commit that fails.
SaveSuccessUnconditional(t, g) ==
  /\ row' = [row EXCEPT ![g] = "SUCCESS"]
  /\ tree' = [k \in Keys |-> IF k \in KeysOf(g) THEN Parts ELSE tree[k]]
  /\ keyOwner' = [k \in Keys |-> IF k \in KeysOf(g) THEN owner[g] ELSE keyOwner[k]]
  /\ done' = done \cup {<<"succeeded", t>>}
  /\ task' = [task EXCEPT ![t] = "audit"]
  /\ UNCHANGED hints

SaveSuccessKeysOnly(t, g) ==
  /\ row[g] = "PENDING"
  /\ row' = [row EXCEPT ![g] = "SUCCESS"]
  /\ tree' = [k \in Keys |-> IF k \in KeysOf(g) THEN {"key"} ELSE tree[k]]
  /\ keyOwner' = [k \in Keys |-> IF k \in KeysOf(g) THEN owner[g] ELSE keyOwner[k]]
  /\ done' = done \cup {<<"succeeded", t>>}
  /\ task' = [task EXCEPT ![t] = "audit"]
  /\ UNCHANGED hints

SaveSuccessHintsFirst(t, g) ==
  /\ row[g] = "PENDING"
  /\ hints' = hints \cup {g}
  /\ task' = [task EXCEPT ![t] = "over"]
  /\ UNCHANGED <<row, tree, keyOwner, done>>

\* The conditional UPDATE and the result tree, in one commit.
SaveSuccess(t, g) ==
  /\ row[g] = "PENDING"
  /\ row' = [row EXCEPT ![g] = "SUCCESS"]
  /\ tree' = [k \in Keys |-> IF k \in KeysOf(g) THEN Parts ELSE tree[k]]
  /\ keyOwner' = [k \in Keys |-> IF k \in KeysOf(g) THEN owner[g] ELSE keyOwner[k]]
  /\ done' = done \cup {<<"succeeded", t>>}
  /\ task' = [task EXCEPT ![t] = "audit"]
  /\ UNCHANGED hints

SaveFailure(t, g) ==
  /\ row[g] = "PENDING"
  /\ row' = [row EXCEPT ![g] = "FAILED"]
  /\ done' = done \cup {<<"failed", t>>}
  /\ task' = [task EXCEPT ![t] = "audit"]
  /\ UNCHANGED <<tree, keyOwner, hints>>

\* Mutant of SaveNothing: the affected-row count is not looked at.
SaveNothingGoesOn(t, g) ==
  /\ row[g] # "PENDING"
  /\ task' = [task EXCEPT ![t] = "audit"]
  /\ UNCHANGED <<row, tree, keyOwner, done, hints>>

\* No row, or one that is not PENDING any more.
SaveNothing(t, g) ==
  /\ row[g] # "PENDING"
  /\ task' = [task EXCEPT ![t] = "over"]
  /\ UNCHANGED <<row, tree, keyOwner, done, hints>>

Save(t) ==
  /\ task[t] = "idle"
  /\ JobOf[t] \in queued
  /\ SaveSuccess(t, JobOf[t]) \/ SaveFailure(t, JobOf[t]) \/ SaveNothing(t, JobOf[t])
  /\ UNCHANGED <<owner, queued, crm, request>>

Outcome(t) == IF <<"failed", t>> \in done THEN "failed" ELSE "succeeded"

\* The audit row in a CRM session of its own: committed, or swallowed by log;
\* a commit that raises ends the task, as a stop of the worker does.
AuditOutcome(t) ==
  /\ task[t] = "audit"
  /\ \/ audit' = audit \cup {<<Outcome(t), t>>} /\ task' = [task EXCEPT ![t] = "emit"]
     \/ audit' = audit /\ task' \in {[task EXCEPT ![t] = s] : s \in {"emit", "over"}}
  /\ UNCHANGED <<local, saved, done, request, hints>>

\* emit: fire and forget.
Emit(t) ==
  /\ task[t] = "emit"
  /\ hints' \in {hints, hints \cup {JobOf[t]}}
  /\ task' = [task EXCEPT ![t] = "over"]
  /\ UNCHANGED <<local, crm, done, request>>

-----------------------------------------------------------------------------
Step(r) ==
  \/ CommitRow(r) \/ Log(r) \/ Publish(r) \/ MarkFailed(r) \/ MarkLog(r)
  \/ Read(r) \/ ReadIterations(r) \/ ReadConsumers(r) \/ SaveCopy(r) \/ Delete(r)
  \/ Close(r) \/ PoolTimeout(r)

Next ==
  \/ \E r \in Requests :
       \/ \E o \in Ops, h \in Communities \cup {Nobody} :
            \E x \in Targets(o) : Admit(r, o, x, h)
       \/ Step(r)
       \/ Raises(r) \/ Timeout(r) \/ ApiStops(r)
  \/ \E t \in Tasks : Save(t) \/ AuditOutcome(t) \/ Emit(t)

Spec == Init /\ [][Next]_vars

\* The event loop runs every handler that is not waiting for a connection, and
\* the pool's timer runs for one that is.
FairSpec == Spec /\ \A r \in Requests : WF_vars(Step(r))

-----------------------------------------------------------------------------
(* Properties.                                                              *)

TypeOK ==
  /\ row \in [Generations -> {"none", "PENDING", "SUCCESS", "FAILED", "gone"}]
  /\ owner \in [Generations -> Communities \cup {Nobody}]
  /\ tree \in [Keys -> SUBSET Parts]
  /\ keyOwner \in [Keys -> Communities \cup {Nobody}]
  /\ queued \subseteq Generations /\ hints \subseteq Generations
  /\ saved \subseteq Requests /\ conn \subseteq Requests
  /\ staged \subseteq Requests /\ cut \subseteq Requests
  /\ audit \subseteq Actions \X (Requests \cup Tasks)
  /\ done \subseteq Actions \X (Requests \cup Tasks)
  /\ pc \in [Requests -> RequestSteps]
  /\ req \in [Requests -> [op : Ops, id : Generations \cup Keys \cup {Nobody}]]
  /\ scope \in [Requests -> Communities \cup {Nobody}]
  /\ copy \in [Requests -> SUBSET Parts]
  /\ result \in [Requests -> {"none", "success", "error"}]
  /\ answer \in [Requests -> {"none", "success", "error", "timeout"}]
  /\ task \in [Tasks -> {"idle", "audit", "emit", "over"}]

\* The rows a request has written: what it names and what hangs on it.
Written(r) ==
  LET x == req[r].id IN
  IF x \in Generations
  THEN {owner[x]} \cup {keyOwner[k] : k \in KeysOf(x)}
  ELSE {keyOwner[x]}

\* A request changes nothing outside its community: what it created, copied or
\* deleted, and every key that went with a deleted generation, carries the id
\* that its own header was resolved to.  A key's id was copied from its
\* generation by a worker that has no request context (persistence.py).
Isolated ==
  \A r \in Requests : \A o \in Ops : <<o, r>> \in done =>
    /\ scope[r] \in Subscribed
    /\ Written(r) \subseteq {scope[r], Nobody}

\* The audit log never reports a write that was not committed, although it is
\* another database's transaction (service.py and persistence.py log after
\* their own commit).
NoFalseAudit == audit \subseteq done

\* However many deliveries of a generation end at the same time, one of them
\* reports its outcome (the affected-row count of persistence.py).
OneOutcomeAudited ==
  \A t, u \in Tasks :
    /\ {<<"succeeded", t>>, <<"failed", t>>} \cap audit # {}
    /\ {<<"succeeded", u>>, <<"failed", u>>} \cap audit # {}
    /\ JobOf[t] = JobOf[u]
    => t = u

\* A copy of a key lacks iterations or consumers only if the key was deleted
\* while it was read: a result that is being written cannot be copied in part.
TornOnlyByDelete ==
  \A r \in saved : copy[r] # Parts => tree[req[r].id] = {}

\* What a success promises: the generation exists and its event is in the
\* stream, the copy is in the CRM, what was deleted is gone and stays so.
Kept(r) ==
  LET o == req[r].op  x == req[r].id IN
  CASE o = "start" -> row[x] # "none" /\ x \in queued
    [] o = "save" -> r \in saved
    [] o = "delete_key" -> tree[x] = {}
    [] o = "delete_generation" -> row[x] = "gone" /\ \A k \in KeysOf(x) : tree[k] = {}

\* What an error promises: nothing was written, or what was started has failed
\* for good.
Undone(r) ==
  LET o == req[r].op  x == req[r].id IN
  <<o, r>> \in done => o = "start" /\ row[x] \in {"FAILED", "gone"}

\* What the client is told is true, although each handler goes on after its
\* commit.  A success was kept.  An error means undone, and a 504 that, when the
\* handler has ended, one or the other holds, as if nobody had been cut off: no
\* row is left PENDING without an event.  The exceptions are named: the reply to
\* a commit was lost, the mark failed, or the process stopped.
AnswerIsTrue ==
  \A r \in Requests :
    /\ answer[r] = "success" => Kept(r)
    /\ answer[r] = "error" => Undone(r) \/ r \in cut
    /\ answer[r] = "timeout" /\ pc[r] = "closed" => Undone(r) \/ r \in cut \/ Kept(r)

\* The hub is told about a generation only when a refetch reads its outcome
\* (bus.py: a hint before the commit leaves a stale page for good).
HintAfterCommit == \A g \in hints : row[g] \notin {"none", "PENDING"}

\* What is reported after a commit, in another database or to the hub, was
\* committed, and an outcome is reported once (persistence.py:127-162).
ReportsAreTrue == NoFalseAudit /\ OneOutcomeAudited /\ HintAfterCommit

\* Every request ends, also when all connections of the CRM are held by requests
\* that wait for a second one, as when the broker is away and each of them
\* marks its generation as not queued.
EveryRequestEnds ==
  []<>(\A r \in Requests : ~ Running(r))

\* Refuted: an audit row that was staged commits with the surrounding business
\* transaction (audit_log/service.py:19-22).
AuditRidesAlong ==
  [][\A r \in Requests :
       r \in staged /\ r \notin staged' /\ pc[r] = "close" =>
         <<req[r].op, r>> \in audit']_vars

\* Refuted: an error means that nothing was done, whatever was lost; a commit
\* may take effect and raise.
ErrorMeansUndone == \A r \in Requests : answer[r] = "error" => Undone(r)

\* Refuted: a client that was told of a timeout may try again, nothing was done.
TimeoutMeansUndone ==
  \A r \in Requests : answer[r] = "timeout" => <<req[r].op, r>> \notin done

\* Refuted: a saved key is a copy of the local key.
SavedWhole == \A r \in saved : copy[r] = Parts
=============================================================================
