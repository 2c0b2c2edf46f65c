---------------------------- MODULE WorkerProofs ----------------------------
(***************************************************************************)
(* The worker.  Its process: the semaphore's accounts and the order of the *)
(* shutdown, for every number of messages, algorithms, solver processes    *)
(* and crashes.  One of its deliveries: the heartbeat outruns ack_wait for *)
(* every interval, lateness and number of lost acks that ClockAssumption   *)
(* admits, up to the catch-all.                                            *)
(***************************************************************************)
EXTENDS WorkerProcess, AckWaitClock, FiniteSetTheorems, TLAPS

-----------------------------------------------------------------------------
(* WorkerProcess: the semaphore's accounts, the order of the shutdown and   *)
(* the blame for a crash.                                                   *)

\* The types that the accounts rest on.
Types ==
  /\ task \in [Messages -> TaskSteps]
  /\ verdict \in [Messages -> {"none", "SUCCESS", "algorithm_failed", "solver_crashed"}]
  /\ permits \in Nat

IInv == Types /\ SlotsAccounted

HolderSteps == {"solve", "broken"}

LEMMA HoldersFinite == IsFiniteSet(Holders) /\ Cardinality(Holders) \in Nat
<1>1. Holders \in SUBSET Messages
  BY DEF Holders
<1> QED BY <1>1, FS_Subset, FS_CardinalityType, WorkerAssumption

\* What one task's step does to the set of permit holders.
LEMMA HoldersStep ==
  ASSUME Types, NEW m \in Messages, NEW step \in TaskSteps, Go(m, step)
  PROVE  /\ task' \in [Messages -> TaskSteps]
         /\ step \in HolderSteps => Holders' = Holders \cup {m}
         /\ step \notin HolderSteps => Holders' = Holders \ {m}
BY DEF Types, Go, Holders, HolderSteps

\* What the processes do on their own, to everything but the strays.
LEMMA PoolEffects ==
  ASSUME StraysEnd \/ SolverDies \/ PoolBreaks
  PROVE  /\ UNCHANGED <<phase, awaited, waiters, permits, down, verdict>>
         /\ \/ UNCHANGED task
            \/ task' = [m \in Messages |-> IF m \in Solving THEN "broken" ELSE task[m]]
<1>1. CASE StraysEnd
  BY <1>1 DEF StraysEnd, mainVars, semaphore
<1>2. CASE SolverDies
  BY <1>2 DEF SolverDies, mainVars, semaphore
<1>3. CASE PoolBreaks
  BY <1>3 DEF PoolBreaks, mainVars, semaphore
<1> QED BY <1>1, <1>2, <1>3

\* A step between two states outside the semaphore, or inside it.
LEMMA KeepsPermit ==
  ASSUME IInv, NEW m \in Messages, NEW step \in TaskSteps, Go(m, step),
         task[m] \in HolderSteps <=> step \in HolderSteps, permits' = permits,
         verdict' \in [Messages -> {"none", "SUCCESS", "algorithm_failed", "solver_crashed"}]
  PROVE  IInv'
<1>1. Holders' = Holders
  BY HoldersStep DEF IInv, Holders, HolderSteps
<1> QED BY <1>1, HoldersStep DEF IInv, Types, SlotsAccounted

\* A step that leaves the semaphore gives its permit back.
LEMMA ReleasesPermit ==
  ASSUME IInv, NEW m \in Messages, NEW step \in TaskSteps, Go(m, step),
         task[m] \in HolderSteps, step \notin HolderSteps,
         permits' = permits + 1, verdict' = verdict
  PROVE  IInv'
<1>1. Holders' = Holders \ {m} /\ m \in Holders
  BY HoldersStep DEF IInv, Holders, HolderSteps
<1>2. Cardinality(Holders') = Cardinality(Holders) - 1
  BY <1>1, HoldersFinite, FS_RemoveElement
<1> QED BY <1>2, HoldersStep, HoldersFinite, WorkerAssumption DEF IInv, Types, SlotsAccounted

\* Cancelled tasks give back as many permits as they held.
LEMMA CancelKeepsAccounts ==
  ASSUME IInv, NEW C, EndTasks(C), verdict' = verdict
  PROVE  IInv'
<1>1. Holders' = Holders \ C
  BY DEF IInv, Types, EndTasks, Holders
<1>2. Cardinality(Holders') = Cardinality(Holders) - Cardinality(Holders \cap C)
  BY <1>1, HoldersFinite, FS_Difference
<1>3. Cardinality(Holders \cap C) \in Nat
  BY HoldersFinite, FS_Subset, FS_CardinalityType
<1>4. permits' = permits + Cardinality(Holders \cap C)
  <2>1. C \cap Holders = Holders \cap C
    OBVIOUS
  <2> QED BY <2>1 DEF EndTasks
<1>5. Types'
  BY <1>3, <1>4 DEF IInv, Types, EndTasks, TaskSteps
<1> QED BY <1>2, <1>3, <1>4, <1>5, HoldersFinite, WorkerAssumption DEF IInv, Types, SlotsAccounted

LEMMA InitIInv == Init => IInv
<1> SUFFICES ASSUME Init PROVE IInv
  OBVIOUS
<1>1. Holders = {}
  BY DEF Init, Holders
<1> QED BY <1>1, FS_EmptySet, WorkerAssumption DEF Init, IInv, Types, SlotsAccounted, TaskSteps

LEMMA TaskIInv ==
  ASSUME IInv, NEW m \in Messages, Deliver(m) \/ TaskStep(m) \/ SolveEnds(m)
  PROVE  IInv'
<1>1. CASE Deliver(m)
  BY <1>1, KeepsPermit DEF Deliver, HolderSteps, TaskSteps, IInv, Types, semaphore
<1>2. CASE Load(m)
  BY <1>2, KeepsPermit DEF Load, HolderSteps, TaskSteps, IInv, Types
<1>3. CASE Submit(m)
  <2>1. CASE Refuse(m, "raised")
    BY <1>3, <2>1, KeepsPermit
    DEF Refuse, Submit, Acquire, HolderSteps, TaskSteps, IInv, Types
  <2>2. CASE Hand(m)
    <3>1. m \notin Holders /\ permits \in Nat /\ permits > 0 /\ verdict' = verdict
      BY <1>3 DEF Submit, Acquire, Holders, IInv, Types
    <3>2. Go(m, "solve") /\ permits' = permits - 1 /\ "solve" \in TaskSteps
      BY <2>2 DEF Hand, TaskSteps
    <3>3. Holders' = Holders \cup {m} /\ task' \in [Messages -> TaskSteps]
      BY <3>2, HoldersStep DEF IInv, HolderSteps
    <3>4. Cardinality(Holders') = Cardinality(Holders) + 1
      BY <3>1, <3>3, HoldersFinite, FS_AddElement
    <3> QED BY <3>1, <3>2, <3>3, <3>4, HoldersFinite, WorkerAssumption
        DEF IInv, Types, SlotsAccounted
  <2> QED BY <1>3, <2>1, <2>2 DEF Submit
<1>4. CASE SolverCrash(m)
  BY <1>4, ReleasesPermit DEF SolverCrash, HolderSteps, TaskSteps
<1>5. CASE Answer(m)
  BY <1>5, KeepsPermit DEF Answer, HolderSteps, TaskSteps, IInv, Types, semaphore
<1>6. CASE SolveEnds(m)
  BY <1>6, ReleasesPermit DEF SolveEnds, HolderSteps, TaskSteps
<1> QED BY <1>1, <1>2, <1>3, <1>4, <1>5, <1>6 DEF TaskStep

LEMMA NextIInv == IInv /\ [Next]_vars => IInv'
<1> SUFFICES ASSUME IInv, [Next]_vars PROVE IInv'
  OBVIOUS
<1>1. CASE UNCHANGED <<task, permits, verdict>>
  BY <1>1 DEF IInv, Types, SlotsAccounted, Holders
<1>2. CASE PoolBreaks
  <2>1. task' \in [Messages -> TaskSteps] /\ Holders' = Holders
    BY <1>2 DEF PoolBreaks, Solving, Holders, IInv, Types, TaskSteps
  <2> QED BY <1>2, <2>1 DEF PoolBreaks, IInv, Types, SlotsAccounted, semaphore
<1>3. CASE StraysEnd \/ SolverDies \/ Signal \/ DrainDone \/ ProcessEnds \/ UNCHANGED vars
  BY <1>1, <1>3 DEF StraysEnd, SolverDies, Signal, DrainDone, ProcessEnds, vars, semaphore
<1>4. CASE DrainTimeout \/ ShutdownPool \/ Exit
  BY <1>4, CancelKeepsAccounts DEF DrainTimeout, ShutdownPool, Exit, Cancel
<1> QED BY <1>2, <1>3, <1>4, TaskIInv DEF Next, MainStep

\* No permit is lost or made up, for every pool size, in every interleaving of
\* the tasks with crashes of the pool and with the shutdown.
THEOREM PermitsAreAccounted == Spec => []SlotsAccounted
<1>1. IInv => SlotsAccounted
  BY DEF IInv
<1> QED BY <1>1, InitIInv, NextIInv, PTL DEF Spec

-----------------------------------------------------------------------------
(* The order of the shutdown. *)

Drained ==
  /\ task \in [Messages -> TaskSteps]
  /\ phase \in {"unsubscribe", "close", "exit", "ended"} => awaited \cap Inflight = {}
  /\ down => phase \in {"close", "exit", "ended"}

LEMMA CancelEndsTasks ==
  ASSUME task \in [Messages -> TaskSteps], NEW C, EndTasks(C)
  PROVE  task' \in [Messages -> TaskSteps] /\ Inflight' = Inflight \ C
BY DEF EndTasks, TaskSteps, Inflight

LEMMA NextDrained == Drained /\ [Next]_vars => Drained'
<1> SUFFICES ASSUME Drained, [Next]_vars PROVE Drained'
  OBVIOUS
<1>1. CASE DrainTimeout \/ ShutdownPool \/ Exit
  <2>1. PICK C : /\ EndTasks(C) /\ awaited' = awaited
                 /\ phase = "drain" => C = awaited \cap Inflight
    BY <1>1 DEF DrainTimeout, ShutdownPool, Exit, Cancel
  <2>2. task' \in [Messages -> TaskSteps] /\ Inflight' = Inflight \ C
    BY <2>1, CancelEndsTasks DEF Drained
  <2>3. awaited' \cap Inflight' = {}
    BY <1>1, <2>1, <2>2 DEF Drained, DrainTimeout, ShutdownPool, Exit
  <2>4. down' => phase' \in {"close", "exit", "ended"}
    BY <1>1 DEF Drained, DrainTimeout, ShutdownPool, Exit, executor
  <2> QED BY <2>2, <2>3, <2>4 DEF Drained
<1> USE DEF Drained, Inflight, TaskSteps
<1>2. ASSUME NEW m \in Messages, Deliver(m) PROVE Drained'
  BY <1>2 DEF Deliver, Go, executor
<1>3. ASSUME NEW m \in Messages, Load(m) \/ SolverCrash(m) \/ Answer(m) \/ SolveEnds(m)
      PROVE  Drained'
  BY <1>3 DEF Load, SolverCrash, Answer, SolveEnds, Go, mainVars, executor
<1>4. ASSUME NEW m \in Messages, Submit(m) PROVE Drained'
  BY <1>4 DEF Submit, Acquire, Hand, Refuse, Go, mainVars
<1>5. CASE StraysEnd \/ SolverDies \/ PoolBreaks
  BY <1>5, PoolEffects DEF Solving
<1>6. CASE Signal \/ DrainDone \/ ProcessEnds \/ UNCHANGED vars
  BY <1>6 DEF Signal, DrainDone, ProcessEnds, executor, vars
<1> QED BY <1>1, <1>2, <1>3, <1>4, <1>5, <1>6 DEF Next, TaskStep, MainStep

\* The pool is shut down only after every task that the drain waited for has
\* ended or been cancelled.
THEOREM PoolGoesDownLast == Spec => []DrainedFirst
<1>1. Init => Drained
  BY DEF Init, Drained, Inflight, TaskSteps
<1>2. Drained => DrainedFirst
  BY DEF Drained, DrainedFirst
<1> QED BY <1>1, <1>2, NextDrained, PTL DEF Spec

-----------------------------------------------------------------------------
(* Nobody is blamed for somebody else's crash. *)

Blame ==
  /\ task \in [Messages -> TaskSteps]
  /\ verdict \in [Messages -> {"none", "SUCCESS", "algorithm_failed", "solver_crashed"}]
  /\ phase \in {"run", "drain", "unsubscribe"} =>
       /\ ~down
       /\ \A m \in Messages :
            task[m] = "raised" \/ verdict[m] = "algorithm_failed" => m \in Raising

LEMMA NextBlame == Blame /\ [Next]_vars => Blame'
<1> SUFFICES ASSUME Blame, [Next]_vars PROVE Blame'
  OBVIOUS
<1> USE DEF Blame, TaskSteps
<1>1. ASSUME NEW m \in Messages, Deliver(m) \/ Load(m) \/ SolverCrash(m) \/ SolveEnds(m)
      PROVE  Blame'
  BY <1>1 DEF Deliver, Load, SolverCrash, SolveEnds, Go, mainVars, executor
<1>2. ASSUME NEW m \in Messages, Submit(m) PROVE Blame'
  BY <1>2 DEF Submit, Acquire, Hand, Refuse, Go, mainVars
<1>3. ASSUME NEW m \in Messages, Answer(m) PROVE Blame'
  BY <1>3 DEF Answer, Go, mainVars, executor
<1>4. CASE StraysEnd \/ SolverDies \/ PoolBreaks
  BY <1>4, PoolEffects DEF Solving
<1>9. CASE Signal \/ UNCHANGED vars
  BY <1>9 DEF Signal, executor, vars
<1>5. CASE DrainDone \/ ProcessEnds
  BY <1>5 DEF DrainDone, ProcessEnds, executor
<1>6. CASE DrainTimeout
  <2>1. /\ task' \in [Messages -> TaskSteps]
        /\ \A m \in Messages : task'[m] = "raised" => task[m] = "raised"
    BY <1>6 DEF DrainTimeout, Cancel, EndTasks
  <2> QED BY <1>6, <2>1 DEF DrainTimeout, executor
<1>7. CASE ShutdownPool
  <2>1. task' \in [Messages -> TaskSteps]
    BY <1>7 DEF ShutdownPool, Cancel, EndTasks
  <2> QED BY <1>7, <2>1 DEF ShutdownPool
<1>8. CASE Exit
  <2>1. task' \in [Messages -> TaskSteps]
    BY <1>8 DEF Exit, Cancel, EndTasks
  <2> QED BY <1>8, <2>1 DEF Exit
<1> QED BY <1>1, <1>2, <1>3, <1>4, <1>5, <1>6, <1>7, <1>8, <1>9
  DEF Next, TaskStep, MainStep

\* A generation recorded as failed by its algorithm has an algorithm that
\* raises, until main shuts the pool down: a broken pool, replaced or not,
\* never looks like one.
THEOREM CrashIsNotBlamed == Spec => []BlamedFairly
<1>1. Init => Blame
  BY DEF Init, Blame, TaskSteps
<1>2. Blame => BlamedFairly
  BY DEF Blame, BlamedFairly
<1> QED BY <1>1, <1>2, NextBlame, PTL DEF Spec

-----------------------------------------------------------------------------
(* What a dead process costs. *)

\* The generations that a broken pool has failed, recorded or not.
Failed == {m \in Messages : task[m] \in {"broken", "crashed"} \/ verdict[m] = "solver_crashed"}

\* What the process that has died, and that nobody has noticed yet, may cost.
Unnoticed == IF pool = "dying" THEN PoolSize ELSE 0

Toll ==
  /\ IInv
  /\ pool \in {"ok", "dying", "broken"}
  /\ crashes \in Nat
  /\ Cardinality(Failed) + Unnoticed <= crashes * PoolSize

LEMMA FailedFinite == IsFiniteSet(Failed) /\ Cardinality(Failed) \in Nat
<1>1. Failed \in SUBSET Messages
  BY DEF Failed
<1> QED BY <1>1, FS_Subset, FS_CardinalityType, WorkerAssumption

\* A step that fails nobody, and in which no process dies.
LEMMA KeepsToll ==
  ASSUME Toll, IInv', Failed' \subseteq Failed, crashes' = crashes,
         pool' = pool \/ (pool = "broken" /\ pool' = "ok")
  PROVE  Toll'
<1>1. Cardinality(Failed') <= Cardinality(Failed) /\ Cardinality(Failed') \in Nat
  BY FailedFinite, FS_Subset, FS_CardinalityType
<1>2. Unnoticed' = Unnoticed /\ Unnoticed \in Nat /\ pool' \in {"ok", "dying", "broken"}
  BY WorkerAssumption DEF Toll, Unnoticed
<1>3. crashes * PoolSize \in Nat
  BY WorkerAssumption DEF Toll
<1> QED BY <1>1, <1>2, <1>3, FailedFinite DEF Toll

LEMMA NextToll == Toll /\ [Next]_vars => Toll'
<1> SUFFICES ASSUME Toll, [Next]_vars PROVE Toll'
  OBVIOUS
<1>0. IInv /\ IInv'
  BY NextIInv DEF Toll
<1> USE <1>0 DEF IInv, Types, TaskSteps
<1>1. ASSUME NEW m \in Messages, Deliver(m) \/ Load(m) \/ Submit(m) \/ SolverCrash(m) \/ SolveEnds(m)
      PROVE  Toll'
  <2>1. UNCHANGED <<verdict, crashes>> /\ (pool' = pool \/ (pool = "broken" /\ pool' = "ok"))
    BY <1>1 DEF Deliver, Load, Submit, SolverCrash, SolveEnds, executor
  <2>2. \E step : Go(m, step) /\ (step \in {"broken", "crashed"} => task[m] = "broken")
    BY <1>1 DEF Deliver, Load, Submit, Hand, Refuse, SolverCrash, SolveEnds
  <2>3. Failed' \subseteq Failed
    BY <2>1, <2>2 DEF Failed, Go
  <2> QED BY <2>1, <2>3, KeepsToll
<1>2. ASSUME NEW m \in Messages, Answer(m) PROVE Toll'
  <2>1. UNCHANGED <<pool, crashes>>
    BY <1>2 DEF Answer, executor
  <2>2. Failed' \subseteq Failed
    BY <1>2 DEF Answer, Go, Failed
  <2> QED BY <2>1, <2>2, KeepsToll
<1>3. CASE DrainTimeout \/ ShutdownPool \/ Exit
  <2>1. UNCHANGED <<verdict, pool, crashes>>
    BY <1>3 DEF DrainTimeout, ShutdownPool, Exit
  <2>2. PICK C : EndTasks(C)
    BY <1>3 DEF DrainTimeout, ShutdownPool, Exit, Cancel
  <2>3. Failed' \subseteq Failed
    BY <2>1, <2>2 DEF Failed, EndTasks
  <2> QED BY <2>1, <2>3, KeepsToll
<1>4. CASE StraysEnd \/ Signal \/ DrainDone \/ ProcessEnds \/ UNCHANGED vars
  <2>1. UNCHANGED <<task, verdict, pool, crashes>>
    BY <1>4 DEF StraysEnd, Signal, DrainDone, ProcessEnds, executor, vars
  <2> QED BY <2>1, KeepsToll DEF Failed
<1>5. CASE SolverDies
  <2>1. pool = "ok" /\ pool' = "dying" /\ crashes' = crashes + 1 /\ UNCHANGED <<task, verdict>>
    BY <1>5 DEF SolverDies
  <2>2. Failed' = Failed
    BY <2>1 DEF Failed
  <2>3. (crashes + 1) * PoolSize = crashes * PoolSize + PoolSize /\ crashes * PoolSize \in Nat
    BY WorkerAssumption DEF Toll
  <2>4. Unnoticed = 0 /\ Unnoticed' = PoolSize
    BY <2>1 DEF Unnoticed
  <2> QED BY <2>1, <2>2, <2>3, <2>4, FailedFinite, WorkerAssumption DEF Toll
<1>6. CASE PoolBreaks
  <2>1. /\ pool = "dying" /\ pool' = "broken" /\ UNCHANGED <<crashes, verdict>>
        /\ task' = [m \in Messages |-> IF m \in Solving THEN "broken" ELSE task[m]]
    BY <1>6 DEF PoolBreaks
  <2>2. Failed' = Failed \cup Solving
    BY <2>1 DEF Failed, Solving
  <2>3. Solving \subseteq Holders
    BY DEF Solving, Holders
  <2>4. IsFiniteSet(Solving) /\ Cardinality(Solving) \in Nat /\ Cardinality(Solving) <= Cardinality(Holders)
    BY <2>3, HoldersFinite, FS_Subset, FS_CardinalityType
  <2>5. Cardinality(Solving) <= PoolSize
    BY <2>4, HoldersFinite, WorkerAssumption DEF SlotsAccounted
  <2>6. Cardinality(Failed \cup Solving) <= Cardinality(Failed) + Cardinality(Solving)
    <3>1. Cardinality(Failed \cup Solving)
            = Cardinality(Failed) + Cardinality(Solving) - Cardinality(Failed \cap Solving)
      BY <2>4, FailedFinite, FS_Union
    <3>2. Cardinality(Failed \cap Solving) \in Nat
      <4>1. Failed \cap Solving \subseteq Failed
        OBVIOUS
      <4> QED BY <4>1, FailedFinite, FS_Subset, FS_CardinalityType
    <3> QED BY <2>4, <3>1, <3>2, FailedFinite
  <2>7. Unnoticed = PoolSize /\ Unnoticed' = 0
    BY <2>1 DEF Unnoticed
  <2>8. Cardinality(Failed') \in Nat /\ crashes * PoolSize \in Nat
    <3>1. IsFiniteSet(Failed \cup Solving)
      BY <2>4, FailedFinite, FS_Union
    <3>2. Cardinality(Failed \cup Solving) \in Nat
      BY <3>1, FS_CardinalityType
    <3> QED BY <2>2, <3>2, WorkerAssumption DEF Toll
  <2> QED BY <2>1, <2>2, <2>4, <2>5, <2>6, <2>7, <2>8, FailedFinite, WorkerAssumption DEF Toll
<1> QED BY <1>1, <1>2, <1>3, <1>4, <1>5, <1>6 DEF Next, TaskStep, MainStep

\* A process that dies costs as many generations as the pool solves at once and
\* no other, for every pool size and number of crashes: the next solve meets a
\* pool that works.
THEOREM CrashesAreContained == Spec => []CrashContained
<1>1. Init => Toll
  <2> SUFFICES ASSUME Init PROVE Toll
    OBVIOUS
  <2>1. Failed = {} /\ pool = "ok" /\ crashes = 0
    BY DEF Init, Failed
  <2>2. IInv
    BY InitIInv
  <2>3. 0 * PoolSize = 0
    BY WorkerAssumption
  <2>4. Cardinality(Failed) = 0 /\ Unnoticed = 0
    BY <2>1, FS_EmptySet DEF Unnoticed
  <2> QED BY <2>1, <2>2, <2>3, <2>4 DEF Toll
<1>2. Toll => CrashContained
  <2> SUFFICES ASSUME Toll PROVE CrashContained
    OBVIOUS
  <2>1. {m \in Messages : verdict[m] = "solver_crashed"} \subseteq Failed
    BY DEF Failed
  <2> DEFINE V == {m \in Messages : verdict[m] = "solver_crashed"}
  <2>2. Cardinality(V) \in Nat /\ Cardinality(V) <= Cardinality(Failed)
    BY <2>1, FailedFinite, FS_Subset, FS_CardinalityType
  <2>3. Unnoticed \in Nat /\ crashes * PoolSize \in Nat
    BY WorkerAssumption DEF Unnoticed, Toll
  <2>4. Cardinality(V) <= crashes * PoolSize
    BY <2>2, <2>3, FailedFinite DEF Toll
  <2> QED BY <2>4 DEF CrashContained
<1> QED BY <1>1, <1>2, NextToll, PTL DEF Spec

-----------------------------------------------------------------------------
(* AckWaitClock: the heartbeat of one delivery.                             *)

\* What the clock can show at most: one period per lost ack, and the time since
\* the last one.  The answer follows within MaxLate ticks, unless the catch-all
\* has to save the failure first.
AgeBound ==
  /\ handler \in {"process", "leave"} =>
       beat = "on" /\ msg = "pending" /\ age <= misses * Period + elapsed
  /\ handler \notin {"process", "leave"} => beat = "off"
  /\ handler = "save_failure" => caught
  /\ handler = "answer" => elapsed <= MaxLate
  /\ handler = "answer" /\ ~caught =>
       msg = "pending" /\ age <= (MaxMisses + 1) * Period + elapsed
  /\ handler = "done" /\ ~caught => msg \in {"acked", "naked"}

ClockInv == ClockTypeOK /\ AgeBound

\* Arithmetic of periods.
LEMMA Periods ==
  /\ Period \in Nat /\ Interval <= Period /\ MaxLate <= Period
  /\ \A m \in Nat : m * Period \in Nat /\ (m + 1) * Period = m * Period + Period
  /\ \A m \in 0 .. MaxMisses : m * Period + Period <= (MaxMisses + 1) * Period
<1>1. Period \in Nat /\ Interval <= Period /\ MaxLate <= Period
  BY ClockAssumption DEF Period
<1>2. \A m \in Nat : m * Period \in Nat /\ (m + 1) * Period = m * Period + Period
  BY <1>1
<1>3. ASSUME NEW m \in 0 .. MaxMisses
      PROVE  m * Period + Period <= (MaxMisses + 1) * Period
  <2>1. MaxMisses - m \in Nat /\ (MaxMisses - m) * Period \in Nat
    BY <1>1, <1>3, ClockAssumption
  <2>2. (MaxMisses + 1) * Period = m * Period + Period + (MaxMisses - m) * Period
    BY <1>1, <1>3, ClockAssumption
  <2>3. m * Period \in Nat
    BY <1>1, <1>3, ClockAssumption
  <2> QED BY <1>1, <2>1, <2>2, <2>3
<1> QED BY <1>1, <1>2, <1>3

\* It holds when the message is handed over.
LEMMA InitClock == ClockInit => ClockInv
<1> SUFFICES ASSUME ClockInit PROVE ClockInv
  OBVIOUS
<1>1. 0 * Period = 0
  BY Periods
<1>2. caught \in BOOLEAN
  BY DEF ClockInit
<1> QED BY <1>1, <1>2, Periods, ClockAssumption DEF ClockInit, ClockInv, ClockTypeOK, AgeBound

\* Until a handler comes to the catch-all, ack_wait has ticks left.
LEMMA HandlerInTime ==
  ASSUME ClockInv, handler \in {"process", "leave"} \/ (handler = "answer" /\ ~caught)
  PROVE  age < AckWait
<1>1. CASE handler = "answer" /\ ~caught
  <2>1. (MaxMisses + 1) * Period \in Nat
    BY Periods, ClockAssumption
  <2> QED BY <1>1, <2>1, ClockAssumption DEF ClockInv, ClockTypeOK, AgeBound
<1>2. CASE handler \in {"process", "leave"}
  <2>1. misses * Period + Period <= (MaxMisses + 1) * Period
    BY Periods DEF ClockInv, ClockTypeOK
  <2>2. misses * Period \in Nat /\ (MaxMisses + 1) * Period \in Nat
    BY Periods, ClockAssumption DEF ClockInv, ClockTypeOK
  <2> QED BY <1>2, <2>1, <2>2, Periods, ClockAssumption DEF ClockInv, ClockTypeOK, AgeBound
<1> QED BY <1>1, <1>2

\* Each step keeps it.
LEMMA NextClock == ClockInv /\ [ClockNext]_clockVars => ClockInv'
<1> SUFFICES ASSUME ClockInv, [ClockNext]_clockVars PROVE ClockInv'
  OBVIOUS
<1> USE ClockAssumption DEF ClockInv, ClockTypeOK
<1>0. 0 * Period = 0
  BY Periods
<1>1. CASE SendInProgress
  <2>1. ClockTypeOK'
    BY <1>1, Periods DEF SendInProgress, InProgressAck, InProgressAckLost, BeatDue
  <2>2. handler' \in {"process"} /\ beat' = "on" /\ msg' = "pending" /\ elapsed' = 0
    BY <1>1 DEF SendInProgress, InProgressAck, InProgressAckLost, BeatDue, AgeBound
  <2>3. age' <= misses' * Period
    <3>1. CASE InProgressAck
      BY <1>0, <3>1, <2>2 DEF InProgressAck
    <3>2. CASE InProgressAckLost
      <4>1. age <= misses * Period + elapsed /\ elapsed <= Period
        BY <1>1 DEF SendInProgress, BeatDue, AgeBound
      <4>2. misses' * Period = misses * Period + Period
        BY <3>2, Periods DEF InProgressAckLost
      <4> QED BY <3>2, <4>1, <4>2, Periods DEF InProgressAckLost
    <3> QED BY <1>1, <3>1, <3>2 DEF SendInProgress
  <2>4. misses' * Period + 0 = misses' * Period
    BY <2>1, Periods
  <2> QED BY <2>1, <2>2, <2>3, <2>4 DEF AgeBound
<1>2. CASE Leave
  BY <1>2 DEF Leave, AgeBound
<1>3. CASE HeartbeatStopped
  <2>1. ClockTypeOK'
    BY <1>3, Periods DEF HeartbeatStopped, InProgressAck, BeatDue
  <2>2. /\ handler' \in {"answer", "save_failure"} /\ (handler' = "save_failure" => caught')
        /\ beat' = "off" /\ msg' = "pending" /\ elapsed' = 0
    BY <1>3 DEF HeartbeatStopped, InProgressAck, AgeBound
  <2>3. age' <= age
    BY <1>3 DEF HeartbeatStopped, InProgressAck
  <2>4. age <= misses * Period + elapsed /\ elapsed <= Period
    BY <1>3 DEF HeartbeatStopped, AgeBound
  <2>5. /\ misses * Period + Period <= (MaxMisses + 1) * Period
        /\ misses * Period \in Nat /\ (MaxMisses + 1) * Period \in Nat
    BY Periods
  <2>6. age' <= (MaxMisses + 1) * Period + elapsed'
    BY <2>1, <2>2, <2>3, <2>4, <2>5, Periods
  <2> QED BY <2>1, <2>2, <2>6 DEF AgeBound
<1>4. CASE AnswerMessage
  BY <1>4 DEF AnswerMessage, AgeBound
<1>5. CASE Stop \/ SaveFailure
  BY <1>5, Periods DEF Stop, SaveFailure, AgeBound
<1>6. CASE Expire
  <2>1. handler \notin {"process", "leave"} /\ (handler = "answer" => caught)
    BY <1>6, HandlerInTime DEF Expire
  <2> QED BY <1>6, <2>1 DEF Expire, AgeBound
<1>7. CASE Tick
  <2>1. ClockTypeOK'
    BY <1>7, Periods DEF Tick, AgeBound
  <2>2. misses * Period \in Nat /\ (MaxMisses + 1) * Period \in Nat
    BY Periods
  <2> QED BY <1>7, <2>1, <2>2 DEF Tick, AgeBound
<1>8. CASE UNCHANGED clockVars
  BY <1>8 DEF clockVars, AgeBound
<1> QED BY <1>1, <1>2, <1>3, <1>4, <1>5, <1>6, <1>7, <1>8 DEF ClockNext

\* So it holds throughout.
LEMMA ClockInvariant == ClockSpec => []ClockInv
BY InitClock, NextClock, PTL DEF ClockSpec

\* A message is never redelivered while _process works on it or before the
\* answer that follows: only if its handler is gone or has come to the
\* catch-all, for every interval, ack_wait, lateness and number of lost acks with
\* (MaxMisses + 1) * (Interval + MaxLate) + MaxLate < AckWait.
THEOREM HeartbeatOutrunsAckWait == ClockSpec => []NeverLapses
<1>1. ClockInv => NeverLapses
  BY DEF ClockInv, ClockTypeOK, AgeBound, NeverLapses
<1> QED BY <1>1, ClockInvariant, PTL

\* No in-progress ack follows the ack or the NAK.
THEOREM AnswerIsLast == ClockSpec => AnswerStands
<1>1. ClockInv /\ [ClockNext]_clockVars => [(msg \in {"acked", "naked"}) => msg' = msg]_clockVars
  <2> SUFFICES ASSUME ClockInv, ClockNext, msg \in {"acked", "naked"} PROVE msg' = msg
    BY DEF clockVars
  <2>1. CASE AnswerMessage
    BY <2>1 DEF AnswerMessage
  <2> QED
    BY <2>1 DEF ClockNext, SendInProgress, BeatDue, Leave, HeartbeatStopped, SaveFailure, Stop,
                Expire, Tick, ClockInv, AgeBound
<1> QED BY <1>1, ClockInvariant, PTL DEF ClockSpec, AnswerStands
=============================================================================
