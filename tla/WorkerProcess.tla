---------------------------- MODULE WorkerProcess ----------------------------
(***************************************************************************)
(* One worker process: the handler tasks of every algorithm's subscription *)
(* share one semaphore and one solver pool (worker/main.py, and            *)
(* _make_handler and _run_algorithm of worker/dispatcher.py).              *)
(*                                                                         *)
(* Four actors interleave: the handler tasks and main on the event loop,   *)
(* the solver processes, and the pool's manager thread, which notices that *)
(* a process has died and fails every solve at once.                       *)
(*                                                                         *)
(* What happens to the row and the message after the solve is              *)
(* GenerationPipeline's subject; here only the verdict is kept.            *)
(***************************************************************************)
EXTENDS Naturals, FiniteSets, Sequences

CONSTANTS
  Messages,     \* messages of the stream
  AlgorithmOf,  \* the algorithm whose subject a message is on
  Raising,      \* messages whose algorithm raises
  PoolSize,     \* _solver_pool_size()
  MaxCrashes,   \* solver processes that die
  Shutdown      \* whether SIGINT or SIGTERM arrives

ASSUME WorkerAssumption ==
  /\ IsFiniteSet(Messages)
  /\ Raising \subseteq Messages
  /\ PoolSize \in Nat \ {0}
  /\ MaxCrashes \in Nat
  /\ Shutdown \in BOOLEAN

VARIABLES
  phase,    \* where main stands
  awaited,  \* tasks that _drain_inflight waits for
  task,     \* the handler task of each message
  waiters,  \* the semaphore's queue
  permits,  \* the semaphore's value
  pool,     \* the ProcessPoolExecutor that _SolverPool holds
  down,     \* that executor has been shut down
  strays,   \* some process goes on with a solve that nobody waits for
  verdict,  \* what was recorded for the generation
  crashes   \* solver processes that have died

vars == <<phase, awaited, task, waiters, permits, pool, down, strays, verdict, crashes>>

TaskSteps ==
  { "queued",   \* not delivered yet
    "naked",    \* to be delivered again
    "load",     \* before the solve
    "wait",     \* in the semaphore's queue
    "solve",    \* submitted to the pool
    "broken",   \* its future has failed with BrokenProcessPool
    "solved", "raised", "crashed",
    "done", "gone" }

\* Tasks in main's inflight set.
Inflight == {m \in Messages : task[m] \notin {"queued", "naked", "done", "gone"}}

Solving == {m \in Messages : task[m] = "solve"}
Holders == {m \in Messages : task[m] \in {"solve", "broken"}}

TypeOK ==
  /\ phase \in {"run", "drain", "unsubscribe", "close", "exit", "ended"}
  /\ awaited \subseteq Messages
  /\ task \in [Messages -> TaskSteps]
  /\ waiters \in Seq(Messages)
  /\ permits \in 0 .. PoolSize
  /\ pool \in {"ok", "dying", "broken"}
  /\ down \in BOOLEAN
  /\ strays \in BOOLEAN
  /\ verdict \in [Messages -> {"none", "SUCCESS", "algorithm_failed", "solver_crashed"}]
  /\ crashes \in 0 .. MaxCrashes

Init ==
  /\ phase = "run"
  /\ awaited = {}
  /\ task = [m \in Messages |-> "queued"]
  /\ waiters = <<>>
  /\ permits = PoolSize
  /\ pool = "ok"
  /\ down = FALSE
  /\ strays = FALSE
  /\ verdict = [m \in Messages |-> "none"]
  /\ crashes = 0

Go(m, step) == task' = [task EXCEPT ![m] = step]

semaphore == <<waiters, permits>>
executor  == <<pool, down, strays, crashes>>
mainVars  == <<phase, awaited>>

-----------------------------------------------------------------------------
(* JetStream (external), and the callback that spawns the handler task.     *)

\* Delivered to this worker and not acked: a consumer counts them.
AckPending(a) ==
  {m \in Messages : AlgorithmOf[m] = a /\ task[m] \notin {"queued", "done"}}

\* Every algorithm has its own consumer, with max_ack_pending = PoolSize.
\* Messages come until the subscription has been drained.
Deliver(m) ==
  /\ phase \in {"run", "drain", "unsubscribe"}
  /\ \/ task[m] = "queued" /\ Cardinality(AckPending(AlgorithmOf[m])) < PoolSize
     \/ task[m] = "naked"
  /\ Go(m, "load")
  /\ awaited' = awaited \ {m}  \* a new task is not one of those awaited
  /\ UNCHANGED <<phase, semaphore, executor, verdict>>

-----------------------------------------------------------------------------
(* The handler task.                                                        *)

\* _process up to its solve: a generation that needs none is answered.
Load(m) ==
  /\ task[m] = "load"
  /\ \/ /\ Go(m, "wait")
        /\ waiters' = Append(waiters, m)
     \/ /\ Go(m, "done")
        /\ UNCHANGED waiters
  /\ UNCHANGED <<mainVars, permits, executor, verdict>>

\* A task gets its permit: first come, first served.
Acquire(m) ==
  /\ task[m] = "wait"
  /\ waiters # <<>> /\ m = Head(waiters)
  /\ permits > 0
  /\ waiters' = Tail(waiters)

\* The solve is in the pool, and its task holds a permit.
Hand(m) == Go(m, "solve") /\ permits' = permits - 1

\* submit raises, and the permit is released on the way out.
Refuse(m, step) == Go(m, step) /\ UNCHANGED permits

\* Mutant of Submit: the broken executor is not replaced.
SubmitNeverRebuilds(m) ==
  /\ Acquire(m)
  /\ \/ pool # "broken" /\ ~down /\ Hand(m)
     \/ pool # "broken" /\ down /\ Refuse(m, "raised")
     \/ pool = "broken" /\ Refuse(m, "crashed")
  /\ UNCHANGED <<mainVars, executor, verdict>>

\* async with semaphore, and _SolverPool.submit in the same step of the event
\* loop.  A broken executor is replaced, by one that has not been shut down; one
\* that was shut down raises RuntimeError, an exception like any other to
\* _process.
Submit(m) ==
  /\ Acquire(m)
  /\ \/ pool # "broken" /\ ~down /\ Hand(m) /\ UNCHANGED <<pool, down>>
     \/ pool # "broken" /\ down /\ Refuse(m, "raised") /\ UNCHANGED <<pool, down>>
     \/ pool = "broken" /\ Hand(m) /\ pool' = "ok" /\ down' = FALSE
  /\ UNCHANGED <<mainVars, strays, crashes, verdict>>

\* The solve returns or raises, and the permit is released.
SolveEnds(m) ==
  /\ task[m] = "solve"
  /\ Go(m, IF m \in Raising THEN "raised" ELSE "solved")
  /\ permits' = permits + 1
  /\ UNCHANGED <<mainVars, waiters, executor, verdict>>

\* The last of the solves that nobody waits for returns or raises, to no effect.
StraysEnd ==
  /\ strays
  /\ strays' = FALSE
  /\ UNCHANGED <<mainVars, task, semaphore, pool, down, crashes, verdict>>

\* A solver process dies (OOM kill, native crash).
SolverDies ==
  /\ phase # "ended"
  /\ crashes < MaxCrashes
  /\ pool = "ok"
  /\ pool' = "dying"
  /\ crashes' = crashes + 1
  /\ UNCHANGED <<mainVars, task, semaphore, down, strays, verdict>>

\* The manager thread notices: every solve of the pool fails, the ones submitted
\* since the process died included.  The other processes get SIGTERM, which those
\* that inherited main's signal handler survive until their solve is over.
PoolBreaks ==
  /\ pool = "dying"
  /\ pool' = "broken"
  /\ task' = [m \in Messages |-> IF m \in Solving THEN "broken" ELSE task[m]]
  /\ strays' \in {FALSE, strays \/ Solving # {}}
  /\ UNCHANGED <<mainVars, semaphore, down, crashes, verdict>>

\* Mutants of SolverCrash: it holds on to the permit until the pool has been
\* replaced; BrokenExecutor is taken for an exception of the algorithm.
SolverCrashAwaitsPool(m) ==
  /\ task[m] = "broken"
  /\ pool # "broken"
  /\ Go(m, "crashed")
  /\ permits' = permits + 1
  /\ UNCHANGED <<mainVars, waiters, executor, verdict>>

SolverCrashNotCaught(m) ==
  /\ task[m] = "broken"
  /\ Go(m, "raised")
  /\ permits' = permits + 1
  /\ UNCHANGED <<mainVars, waiters, executor, verdict>>

\* BrokenExecutor becomes a _SolverCrashError, outside the semaphore.
SolverCrash(m) ==
  /\ task[m] = "broken"
  /\ Go(m, "crashed")
  /\ permits' = permits + 1
  /\ UNCHANGED <<mainVars, waiters, executor, verdict>>

\* Persist, then ack or NAK.  A crash is retried while its delivery count
\* allows, which GenerationPipeline follows.
Answer(m) ==
  /\ \/ /\ task[m] = "solved"
        /\ verdict' = [verdict EXCEPT ![m] = "SUCCESS"]
        /\ Go(m, "done")
     \/ /\ task[m] = "raised"
        /\ verdict' = [verdict EXCEPT ![m] = "algorithm_failed"]
        /\ Go(m, "done")
     \/ /\ task[m] = "crashed"
        /\ verdict' = [verdict EXCEPT ![m] = "solver_crashed"]
        /\ Go(m, "done")
     \/ /\ task[m] = "crashed"
        /\ UNCHANGED verdict
        /\ Go(m, "naked")
  /\ UNCHANGED <<mainVars, semaphore, executor>>

-----------------------------------------------------------------------------
(* main: the finally clause that shuts the worker down.                     *)

\* Mutant of EndTasks: a permit is given back for every cancelled task.
EndTasksReleasesAll(C) ==
  /\ task' = [m \in Messages |-> IF m \in C THEN "gone" ELSE task[m]]
  /\ waiters' = SelectSeq(waiters, LAMBDA m : m \notin C)
  /\ permits' = permits + Cardinality(C)

\* Tasks get CancelledError: each leaves the semaphore and sends no answer.
EndTasks(C) ==
  /\ task' = [m \in Messages |-> IF m \in C THEN "gone" ELSE task[m]]
  /\ waiters' = SelectSeq(waiters, LAMBDA m : m \notin C)
  /\ permits' = permits + Cardinality(C \cap Holders)

\* task.cancel() also cancels the future of the task's solve, but one that a
\* process has taken up goes on there.
Cancel(C) ==
  /\ EndTasks(C)
  /\ strays' \in {strays, strays \/ C \cap Solving # {}}

\* shutdown_event is set; _drain_inflight looks at the tasks there are.
Signal ==
  /\ Shutdown
  /\ phase = "run"
  /\ phase' = "drain"
  /\ awaited' = Inflight
  /\ UNCHANGED <<task, semaphore, executor, verdict>>

DrainDone ==
  /\ phase = "drain"
  /\ awaited \cap Inflight = {}
  /\ phase' = "unsubscribe"
  /\ UNCHANGED <<awaited, task, semaphore, executor, verdict>>

\* Mutants of DrainTimeout: the stragglers are left alone; there is no timeout.
DrainTimeoutLeaves ==
  /\ phase = "drain"
  /\ phase' = "unsubscribe"
  /\ UNCHANGED <<awaited, task, semaphore, executor, verdict>>

DrainTimeoutNever == FALSE /\ UNCHANGED vars

DrainTimeout ==
  /\ phase = "drain"
  /\ phase' = "unsubscribe"
  /\ Cancel(awaited \cap Inflight)
  /\ UNCHANGED <<awaited, pool, down, crashes, verdict>>

\* The subscriptions have drained; solver_pool.shutdown(wait=False,
\* cancel_futures=True) cancels the solves that no process has taken up.
ShutdownPool ==
  /\ phase = "unsubscribe"
  /\ phase' = "close"
  /\ down' = TRUE
  /\ \E C \in SUBSET Solving : EndTasks(C)
  /\ UNCHANGED <<awaited, pool, strays, crashes, verdict>>

\* NATS and the databases are closed, and main returns; asyncio.run cancels what
\* still runs.
Exit ==
  /\ phase = "close"
  /\ phase' = "exit"
  /\ Cancel(Inflight)
  /\ UNCHANGED <<awaited, pool, down, crashes, verdict>>

\* The interpreter (external) joins the pool's manager thread before the process
\* ends, shutdown(wait=False) or not, and that thread waits for every solve that
\* a process has taken up.
ProcessEnds ==
  /\ phase = "exit"
  /\ ~strays /\ pool # "dying"
  /\ phase' = "ended"
  /\ UNCHANGED <<awaited, task, semaphore, executor, verdict>>

-----------------------------------------------------------------------------

TaskStep(m) == Load(m) \/ Submit(m) \/ SolverCrash(m) \/ Answer(m)

MainStep == DrainDone \/ DrainTimeout \/ ShutdownPool \/ Exit \/ ProcessEnds

Next ==
  \/ \E m \in Messages : Deliver(m) \/ TaskStep(m) \/ SolveEnds(m)
  \/ StraysEnd \/ SolverDies \/ PoolBreaks
  \/ Signal \/ MainStep

Spec == Init /\ [][Next]_vars

\* The event loop runs what is ready, timers included, and the manager thread
\* notices a dead process.  No solve has to end.
LoopFairness ==
  /\ \A m \in Messages : WF_vars(TaskStep(m))
  /\ WF_vars(PoolBreaks)
  /\ WF_vars(MainStep)

FairSpec == Spec /\ LoopFairness
-----------------------------------------------------------------------------
(* Properties.                                                              *)

\* No permit is lost or made up, whether a solve returns, raises, crashes or
\* is cancelled in the queue or in the pool: no more tasks wait for a solve than
\* there are processes, nor fewer than could.
SlotsAccounted == permits + Cardinality(Holders) = PoolSize

\* A generation is recorded as failed by its algorithm only if the algorithm
\* raised, or if main had already shut the pool down: a crash next to it
\* (main.py:175-177) is not taken for that, neither in a broken pool nor in the
\* one that replaces it, before the shutdown or while it drains.
BlamedFairly ==
  phase \in {"run", "drain", "unsubscribe"} =>
    \A m \in Messages : verdict[m] = "algorithm_failed" => m \in Raising

\* A process that dies costs the generations that solve next to it and no other:
\* the pool is replaced before the next one (main.py:173-176).
CrashContained ==
  Cardinality({m \in Messages : verdict[m] = "solver_crashed"}) <= crashes * PoolSize

\* If solves end, one way or another, every delivery comes to an end, whatever
\* crashes next to it and whenever a shutdown arrives: no task waits forever
\* for a permit that nobody gives back.
EveryDeliveryEnds ==
  (\A m \in Messages : WF_vars(SolveEnds(m)))
    => \A m \in Messages : m \in Inflight ~> m \notin Inflight

\* The tasks that shutdown waits for have ended, or been told to, before their
\* pool goes down.
DrainedFirst == down => awaited \cap Inflight = {}

\* Shutdown gets through main even when a solve never ends (main.py:69-70), and
\* ends the process if the solves that were given up end one day.
ShutdownEnds ==
  /\ phase = "drain" ~> phase \in {"exit", "ended"}
  /\ WF_vars(StraysEnd) => (phase = "drain" ~> phase = "ended")

\* Refuted: a running solve does not block the shutdown (main.py:360-362).
SolveNeverBlocks == phase = "drain" ~> phase = "ended"

\* Refuted: a shutdown ends in a redelivery for whoever it interrupts
\* (main.py:272-275).
StragglersRedeliver ==
  \A m \in Messages : verdict[m] = "algorithm_failed" => m \in Raising

\* Refuted: the broker hands the worker no more work than it can solve
\* (dispatcher.py:192-194).
WithinPool == Cardinality(Inflight) <= PoolSize
=============================================================================
