# Verification of the allocation-key generation service

TLA+ models of this repository: how a request for an allocation key becomes
exactly one result, what requests and results do to the two databases, how
workers configure the queue and share a solver pool, how the input is counted
and read, and what the two algorithms compute. TLC checks the
models on small instances; TLAPS proves the properties that matter most for
every value of the constants.

Each module is translated from the source. `PROJECT.json` maps every definition
to the lines it stands for, and lists the runs, the mutants (one plausible bug
per property, each of which makes TLC report that property), the findings, the
hazards and the theorems.

## The system

| Part | State | Operations | Models |
|---|---|---|---|
| API, `src/api/generation` | the row of a generation (PENDING, SUCCESS, FAILED) | start from a file, start from the CRM, delete a generation or a key, save a key | `GenerationPipeline`, `KeyRequests`, `GenerationInput` |
| Sessions, tenancy and audit log, `src/core/database`, `security`, `audit_log` | two sessions per request, its community, a pool of CRM connections, audit rows | resolve, scope, stage, commit, roll back | `KeyRequests` |
| Object store, `src/core/storage` | one object per uploaded file | upload, download, delete | `GenerationPipeline` |
| JetStream, `src/core/queue` | one message per generation, its delivery count | publish, deliver, ack, NAK, in-progress ack, `ack_wait`, `max_deliver`, `max_ack_pending` | `GenerationPipeline`, `AckWaitClock` |
| Dispatcher, `src/worker/dispatcher.py` | one asyncio task per delivery, one heartbeat each | snapshot, load, solve, persist, ack, delete | `GenerationPipeline`, `AckWaitClock`, `WorkerProcess` |
| Persistence, `src/worker/persistence.py` | the result tree under a row | `save_success`, `save_failure`, each a conditional UPDATE | `GenerationPipeline` |
| Queue configuration, `src/core/queue` | the stream, one durable consumer per algorithm, their settings | connect, reconcile, subscribe | `QueueSetup` |
| Worker process, `src/worker/main.py` | in-flight tasks, semaphore, process pool, heartbeat file | start with retries, submit, replace a broken pool, poll, drain, shut down | `WorkerProcess`, `QueueSetup` |
| CRM input, `src/shared/crm_*.py` | readings of a period (another service's table) | summary, verdict, fetch, pivot | `CrmInput` |
| File input, `upload_shape.py`, `data_loading.py`, `problem_size.py` | the upload, its counted and its true size | measure, parse, check the limit | `GenerationInput` |
| OLAGSA, `src/algorithms/.../olagsa` | species, individuals, best fitness | evaluate, assign, cull, breed, collect | `OlagsaGA`, `AllocationRounds` |
| Brute force, `src/algorithms/.../brute_force` | the tree of iterations | the three distributions, one to three iterations | `BruteForce`, `AllocationRounds` |
| Realtime hints, `src/core/realtime` | none; a hint makes a browser refetch | emit | `KeyRequests` |
| Registry, i18n, health, metrics, tracing | none that another part waits for | | not modelled |

How they interact. The API uploads, commits and publishes, in this order and in
three different systems, so that a crash or an error between two of them leaves
the earlier ones behind. The broker hands a message to a worker and hands it
out again when it is NAKed or `ack_wait` runs out, so a generation can be
processed several times, and, after a network loss, at the same time. The only
lock is `UPDATE ... WHERE status = PENDING`. Tasks of one worker share a
semaphore and a process pool, which one crashing solve breaks for all. The CRM
database belongs to another service, which writes while this one reads.
A request writes to at most one of the two databases and reports it in the
other, in sessions that commit separately or not at all. Workers of two builds
reconcile the same consumers during a rollout, each by a read and a later write.

What is hard here is therefore ordering and partial failure; `PROJECT.json`
lists each hazard at its line, with the properties that would catch it.

What makes each part correct:

- pipeline: a generation is decided once, with its result tree or with none, and
  the input exists as long as it may be read; failures are retried a bounded
  number of times, and then decided;
- broker clock: no redelivery while a generation is processed, a redelivery
  after a handler that died;
- worker process: permits and processes balance, crashes are not blamed on
  bystanders and stay with the solves of one pool, the shutdown gets through
  main and awaits its tasks first;
- requests: none reads or changes another community's rows, what is answered,
  audited or announced is true, and each ends although connections run out;
- queue configuration: stored settings are one build's, a rollout lands, of the
  workers subscribed to a queue one listens where the broker delivers, and a
  worker without a broker is seen to be so;
- input: each reading counts once, whatever commits meanwhile, and the rough
  count of a file decides as the exact one;
- algorithms: energy and demand are conserved over the iterations of a key, and
  the search neither loses its best candidates nor exceeds its budget.

## Modules

### GenerationLifecycle and GenerationPipeline

`GenerationLifecycle` is the promise to a user: created PENDING, decided once,
deletable. `GenerationPipeline` has one action per step of the code between two
points where something else may run (an `await` that reaches another system):

- API (`service.py`): `StartGeneration`, `StartGenerationFromCrm`, `CommitRow`,
  `Publish`, `MarkFailedToQueue`, `BestEffortDelete`, `DeleteGeneration`,
  `ApiCrash`;
- broker (external): `Deliver`, `Redeliver`, `Exhaust`, `AckWaitExpires`,
  `LatePublish`;
- handler task (`dispatcher.py`, `persistence.py`): `Snapshot`, `Load`,
  `RunAlgorithm`, `PersistSuccess`, `PersistFailure`, `Unhandled` (the
  catch-all), `Ack`, `Nak`, `DeleteSafely`, `WorkerStops`.

A generation stands for its row, its object and its message. The constant
`Faults` says what may go wrong: a theorem or a run names the faults under
which its property holds, so that none is excluded silently.
`ImplementsLifecycle` is the refinement: `row` and `results` are mapped to
`status` and `trees`.

### AckWaitClock

One delivery against the broker's clock. The heartbeat (`_send_in_progress`)
sleeps for `Interval` and sends; a frame may be `MaxLate` ticks late, and
`MaxMisses` frames in a row may be lost. The ack or NAK follows the stop of the
heartbeat by a frame, except in the catch-all of `_handle_message`: it awaits
`save_failure` (`SaveFailure`) without a heartbeat, and nothing bounds how long
that takes, so that `ack_wait` may lapse there under a live handler. It is what
`GenerationPipeline` takes for granted when `ack_wait` expires only for a
message nobody holds, for one whose task is in that catch-all, or when NATS is
lost.

### WorkerProcess

All tasks of one worker with the semaphore's FIFO queue, the process pool, its
manager thread (`PoolBreaks`) and `main` with its shutdown. Cancellation reaches
a task wherever it awaits; nobody waits for what the cancelled task does then,
so that "over" means ended or cancelled. A solve that a process has taken up
goes on without its task: `strays` says that there is one. `Exit` is the return
of `main`, `ProcessEnds` (external) the end of the process, before which the
interpreter joins the pool's manager thread, which waits for the strays although
`shutdown(wait=False)` did not. What follows the solve is reduced to the verdict,
which is `GenerationPipeline`'s subject.

### KeyRequests

The requests of two communities and the worker's results, over the local
database (generations and keys) and the CRM (saved keys and the audit log). An
action per statement or commit of a handler: `Admit` is the router's
dependencies, `CommitRow`, `Publish`, `MarkFailed`, `MarkLog` a start, `Read`,
`ReadIterations`, `ReadConsumers`, `SaveCopy`, `Delete`, `Log` the others,
`Close` the answer and the end of the sessions, `Timeout` the middleware's 504,
after which the handler goes on, `Raises` and `ApiStops` what cuts one off,
`PoolTimeout` the pool's. A commit may take effect and raise (`Committed`): the
client is then told of an error although the write is there. Such a request is
in `cut`, as is one whose `_mark_failed_to_queue` failed; `AnswerIsTrue` excepts
these, and only these (`ErrorMeansUndone`, without the exception, is refuted).
`conn` holds the requests that have a CRM
connection, `staged` those with an audit row that is flushed but not committed.
The worker's `Save`, `AuditOutcome`, `Emit` are the three commits of a result.
It shares the row with `GenerationPipeline`, which has the storage, the retries
and the redeliveries this module leaves out.

### QueueSetup

Worker slots that start, are killed and start again with one of two builds,
against a broker that keeps the stream and one consumer per algorithm.
`Connect`, `AddStream`, `UpdateStream` are `init_nats` under
`_connect_nats_with_retry`; `FindStream`, `ReadConsumer`, `WriteConsumer`,
`Subscribe`, `Create`, `Listen` are `subscribe_durable`, a step per round trip;
`Poll` is `_poll_queue_depth`. A request to the broker is applied or not before the next
step of its process; its answer may be lost either way. The API's own
`init_nats` does what a worker does that is killed right after it. The broker is
external and behaves as the code's error handling describes it. It differs from
`tests/fake_jetstream.py` in one point: another deliver subject is refused only
while somebody listens on the stored one (`Heard`), and replaces it otherwise.
nats-py subscribes to the inbox after the broker's reply (`Listen`), without
looking at the durable again. So two workers that both create a missing durable
may leave the first one deaf; `SomebodyHears` says that never all of them are.
After an outage the clients have subscribed again before the broker answers
anybody.

### CrmInput and GenerationInput

`GenerationInput` extends `CrmInput` by uploads, so that one specification
covers both sources of a generation. A CSV file is a sequence of kinds of lines
(a record, one with a quoted line feed, one ended by a carriage return, an
empty one, white space) with or without an end of the last; a workbook is its
true extent and its dimension record. `Measure` counts as `upload_shape.py`
does; `Parsed` is the size of what the parser returns. The count was compared
with that of the code on 3393 files of these kinds, and agreed.

A generation that reads the CRM: the two statements of the request's summary,
its verdict and warnings; in the worker the same two, then the fetch, the pivot
and the check of the size. Sessions use the database's default isolation, so
each statement sees a table of its own; `Import` and `DropMeter` (external) commit
between them. A reading has a meter, a timestamp, the energy drawn and injected,
and a number of copies, for the table has no unique constraint. The order of
rows and the local-time bounds of a period are abstracted away.

### OlagsaGA, AllocationRounds, BruteForce

`OlagsaGA` keeps the control of the genetic search and abstracts a candidate to
the regions that contain it, the number of iterations the solver solved, and its
fitness; random draws are choices. The list of species is a set, as it is always
in the order of ids, and `Scale` is a common multiple of the sizes a species may
have, so that a fitness divided by a size is an integer. `AllocationRounds` is
what both algorithms share: one time step, a share of the production per round,
the surplus carried over, the demand reduced. The shares within a round are arbitrary, so its
theorems cover the three distributions and the convex solve alike.
`BruteForce` has the three distribution functions themselves, in exact
rationals, and every split of the production over one to three iterations. Its
consumption and production are not negative. `data_loading.py` does not enforce
that: with a negative entry the guards `> 0` of `functions.py:89-91` say
something other than `# 0`, and nothing is claimed of such data.

Operators named in `PROJECT.json` under `mutants` are variants with a bug; no
specification uses them.

## Runs

| Run | Bounds | What it shows |
|---|---|---|
| `pipeline_all_faults` | 1 generation, every fault, 2 deliveries and `max_deliver` 3 | at most one result tree; the file is there while the row is PENDING; decided, or the message is exhausted |
| `pipeline_stops` | 1 generation, every fault but a lost NATS, an ambiguous publish and an unreadable delivery count | one runner at a time; implements the lifecycle, so that finished stays finished; PENDING for good needs two losses in a row |
| `pipeline_handled` | 2 generations and a foreign event, one ack-pending slot, the failures the code claims to handle | every generation is decided, published or not, its file released, crashes retried within their budget |
| `ack_wait` | 60 s and 600 s in ticks of 10 s, 7 misses | no lapse while `_process` works nor before its answer, whatever the catch-all's `save_failure` takes; nothing follows the answer; a lost message comes back |
| `worker_process` | 3 messages, 2 subjects, 2 processes, 2 crashes, solves that may never end, a shutdown at any moment | permits balance, a crash is not blamed on a bystander and costs one pool of solves at most, every delivery ends if solves do, the shutdown gets through `main` even if they do not and its awaited tasks end before the pool, the process ends if the strays do |
| `generation_input` | 2 meters, 2 timestamps, 2 commits, 1 failed read, limits of 3 rows and 2 cells; files of up to 4 lines and 3 columns | no reading twice, no injection left out, no participant without readings; an undisturbed run keeps its verdict and reports its gaps; the count of an upload refuses or passes an ordinary file as the worker would |
| `key_requests` | 2 requests, one of which may time out, 1 cut off after its commit, 2 deliveries of 1 generation, 2 communities, 1 key, 2 CRM connections | communities are isolated; audit rows, hints and answers are true; one outcome is audited; a copy is torn only by a deletion; every request ends |
| `queue_setup` | 2 workers, 2 queues, 2 builds, 2 settings, 4 inboxes, 2 attempts, 2 missed polls, 2 disturbances | settings are never mixed, a rollout lands, somebody hears, nobody runs on a stream of another kind, every start ends, a lost broker shows |
| `olagsa_search` | 2 touching species, population 3, 2 generations, 1 or 2 iterations | no best and no child lost, no key without iterations, a child without a species only after an extinction, budgets of children and patience kept |
| `allocation_rounds` | 2 consumers, 3 rounds, energy up to 3 | energy and demand are conserved, the last surplus is what nobody used |
| `brute_force` | 2 consumers, 2 time steps, entries up to 2, every key of 1 to 3 iterations, splits in halves | energy balances, no key leaves less than the optimum and one that ends with prorata no more, shares sum to one |

Why the bounds are enough. Generations interact only through the consumer's
`max_ack_pending`; two of them and a foreign event compete for one slot, and
the other properties concern one generation. The code's limits are 3 crashes, 10 deliveries and a `max_deliver` of 11; the runs lower
them to 1, 2 and 3 (`pipeline_all_faults`), to 2, 3 and 4 (`pipeline_stops`) and
to 2, 4 and 5 (`pipeline_handled`, where a delivery lies between the first two,
so that neither limit hides the other). What the code relies on is their order,
and the theorems hold for all values with that order. With three messages on
two subjects and a pool of two, a task waits for a permit while others hold one and share a break. In
`generation_input`, one consumer over both timestamps and two over one are just within
the limit of cells, two over both are beyond it. `brute_force` divides the
production into 2 parts where the code uses 10: the number of parts only sets
how many splits there are, and the theorems hold for any. A population of 3 gives each species at most three
individuals, one of which is culled; two generations are one in which a species
is lost and one that breeds into it. Two requests that each hold one of two CRM
connections and wait for a second are the smallest deadlock of the pool, and
two deliveries of one generation the smallest race of outcomes; a community
without a subscription and a header that names none are refused. `Slow` and
`MaxCut` bound what one request does on its own, a 504 and a lost reply: each
promise concerns one request, and the other one is there to interfere. Two workers of
two builds are all that a read and a write can come between; two disturbances
are, for instance, a removal and a lost reply, or an outage and a kill. Four
inboxes are one more than a queue can have in use. Three columns and four lines
reach the limit of two cells from both sides, with a line to spare for the one
the two counts disagree about.

Deadlock checking is off where the system may stop: a request ends, a worker
exits and a search returns. That nothing stops too early is what the liveness
properties say. `queue_setup` checks it.

Fairness. Weak fairness of a task's step: asyncio runs every task that is
ready, and calls to databases and storage have timeouts. Weak fairness of the
broker's redelivery and of the expiry of `ack_wait` for a message that nobody
holds: these are JetStream's timers. Strong fairness of `Deliver`, because
several messages compete for one slot that opens and closes again, and
JetStream hands messages out in the order of the stream. Nothing is assumed of
the faults: each may occur at any time, or never. In the pipeline a solve ends,
as the step of its task. In `WorkerProcess` it need not: `main` returns all the
same, thanks to the grace period (the first half of `ShutdownEnds`); the end of
the process, in its other half, has the end of the strays as its hypothesis, and
`EveryDeliveryEnds` the end of solves.
In `KeyRequests` the steps of a request are fair, the timer of the pool among
them; the worker, the errors and the stop of the process are not. In
`QueueSetup` the steps and polls of a process are fair; nobody promises a
restart, the end of an outage or an operator.
The heartbeat of `AckWaitClock` is fair because nothing blocks the event loop:
solves run in other processes. Neither `_process` nor the catch-all's
`save_failure` has to return there.

## Proofs

Eight modules hold theorems, for every value of the constants that the named
assumptions admit (`PipelineAssumption`, `ClockAssumption`, `WorkerAssumption`,
`AllocationAssumption`, `BruteForceAssumption`, `RequestsAssumption`,
`SetupAssumption`, `CrmInputAssumption`, `FileAssumption`, `OlagsaAssumption`;
TLC evaluates them in the runs).

- `GenerationPipelineProofs`: `TypeCorrect`, `ResultsAreUnique`, `InputIsKept`,
  under every set of faults. The invariants are not inductive: that a result is
  unique needs to know which tasks can still reach `save_success`, and that a
  file is kept needs to know which key each task is about to delete. `IInv` adds
  what the broker has handed out (`DeliveryInv`), how far the request is
  (`RequestInv`) and who may remove the object (`FileInv`).
  With fewer faults, `OneRunnerAtATime` (no `nats_loss`) from `Lease`: a
  message being processed is pending, and only its latest delivery runs;
  `StuckNeedsTwoLosses` (no `no_count`) from `Limit`, which follows the two
  deliveries past the limit; `Refinement` and `FinishedIsFinal` (no
  `publish_timeout`) from `Timely`: when the API marks a row as not queued, no
  delivery of it exists. `Refinement` shows that initial states map to initial
  states and each step to a step or a stutter of `GenerationLifecycle`.
  `CrashesAreBounded` (no `nats_loss`, `worker_stop`, `db_error`, `no_count`)
  from `Budget`: each delivery counts one crash at most, and the crash that uses
  up the budget leads to the step that decides the row. `FilesAreReleased` (in
  addition no `api_crash`, `lost_commit`, `crm_error`, `storage_denied`,
  `delete_error`) from `Release`: a message that is not acked comes back, a task
  that knows no key has no object to remove, and a finished generation whose
  object is there has somebody who will remove it.
- `WorkerProofs`, about the clock and the process of one worker:
  `HeartbeatOutrunsAckWait`, `AnswerIsLast`. `AgeBound` relates
  the clock to the acks lost so far: at most one period each, and the time since
  the last. The assumption `(MaxMisses + 1) * Period + MaxLate < AckWait` is
  exactly the room the code's 60 s and 600 s leave. It holds up to the stop of the
  heartbeat, and past it unless the catch-all has `caught` what was raised.
  `PermitsAreAccounted` by counting the holders,
  `PoolGoesDownLast` from `Drained`, and `CrashIsNotBlamed` from `Blame`: until
  main shuts the pool down, only an algorithm that raises has a task in the step
  that records it as failed. `CrashesAreContained` from `Toll`: a crash that the
  manager thread has not noticed yet still has its share of failures to give, as
  many as hold permits when it does.
- `AllocationProofs`: `EnergyIsAccounted` (from `EnergyIsConserved` and
  `RankedByUnusedEnergy`) and `DemandIsConserved`. `HandedOut` says that a
  finished round has allotted all it received and the last round received the
  rest.
  About `BruteForce`, for any number of consumers, time steps and parts:
  `KeysAreSound` and `ProrataIsOptimal`. The provers know integers only, so the
  module first builds the rationals that the model computes with. `GCDDivides`:
  Euclid's recursion defines a function, its value divides both numbers and is
  an integer combination of them. Hence a reduced pair has a combination that is 1,
  two such pairs of one value are equal (`LowestUnique`), and the field laws of
  `++`, `**`, `--` and `//` follow from those of fractions. `TotalUnfolds` opens
  the fold of the community module: a sum grows term by term, from which
  addition, a common factor, equal parts and exchanging two sums follow by
  induction over a set of naturals. Then each function hands out its whole
  profile (`HandsOutAll`), one time step keeps the balance whatever is handed
  out (`BalanceStep`), and prorata leaves exactly what the profile exceeds the
  demand by (`ProrataStep`); for a last iteration that is what the production
  exceeds the demand by, because the balance of the iterations before holds
  (`LastProfile`). `KeyInv` joins the types (no amount is ever negative, every
  pair is in lowest terms), the balance, the shares and the optimum.
- `KeyRequestsProofs`: `RequestsAreIsolated`, `ReportsHold`,
  `CopiesAreTornOnlyByDeletes`, `AnswersAreTrue`. Each relates what a request or a delivery has
  done to rows that others go on changing. `Forward` is what no step takes back
  (a row that exists keeps its community, a decided generation stays decided, a
  deleted key stays deleted), `Frame` what a step of one leaves to the others;
  the parts of `IInv` are then shown for the request that moves. `UniqueInv` (no
  two requests create one generation) is what keeps a generation's id to its
  creator before its row exists, and `TreeInv` (all rows of a key or none) is
  what makes a torn copy the sign of a deletion. `AnswerInv` follows a handler
  past its commit, with or without a 504: whatever fails there, its result still
  says whether it wrote, unless the request is in `cut`. `Timeout` changes
  nothing but an answer and is treated apart from the steps that move something.
- `QueueSetupProofs`: `BuildsNeverMix`, `RolloutsLand`, `SubscribersHear`,
  `StreamKindHolds`, for any number of workers, builds, queues and
  disturbances. `RolloutLands` is not inductive, as a worker may subscribe to a
  durable that another one has written since it compared: `Landed` states it of
  all who have compared and are still there. Neither is `SomebodyHears`:
  `Audience` names a worker for each durable, the one that stored it last, which
  listens on the stored inbox or on none yet; that needs queues to be subscribed
  one after the other (`Slots`). `Effects` is what one step may do to a durable
  and to the subscriptions; the invariants follow from it.

- `Sums` has what these need of sums and counts of integers: taking one out, adding,
  dividing into shares, summing by rows, counting what is dealt out. The
  library's induction theorems take an operator, which the provers cannot
  instantiate; here induction is over a *set* of good subsets of a finite set,
  which is first-order, and `SumUnfolds` opens the fold of the community module.
- `InputProofs`: `InputIsFaithful`, `QuietRunsAgree`, `CountsAgree`, and `InputIsWellFormed`, the types. `InputInv` consists of
  `CrmInv` and `FileInv`. The first says that the solver's input is the pivot
  of the fetched rows and passed its check (`Pivoted`), and that everything a
  run knows is what the table still holds as long as nobody has committed since
  (`Quiet`). From it follows, by summing over meters
  and over timestamps in either order, that the pivot holds every reading once.
  `FileInv` says which check a file has passed at each stage; what the two
  counts of one file have to do with each other is in `OrdinaryCountsHigh` and
  `CountedIsTooLarge`, by the kinds of its lines.
- `OlagsaProofs`: `FailuresAreContained`, `SearchKeepsItsBudget`, `BestIsKept`,
  `EachChildJoinsOnce`, for every number of species, every geometry in which
  each point has a region, every population. `SearchInv` adds that somebody
  lives while the search runs (so that the total of the adjusted fitness is never
  zero), that the culling halves what the assignment can at most double (so that
  `Scale` is divisible by every size), and that a species is checked once in a
  generation. The sort is defined by ranks; `PlaceExists` shows that every rank
  up to the length is taken, `Sorted` that the first is a best one. That the
  brood is bounded is `SumOfShares`, that no child is counted twice
  `SumOfFibres`.

Only model-checked: all liveness (`DecidedOrExhausted`, `AlwaysDecided`,
`LostIsRedelivered`, `EveryDeliveryEnds`, `ShutdownEnds`, `EveryRequestEnds`,
`StartupEnds`, `LossIsVisible`), which needs fairness and `ENABLED`. Every
invariant that a passing run checks is stated by a theorem.

## Findings

`finding_audit` is refuted by TLC: `AuditLogService.log` stages its row on the
request's CRM session, and nothing commits that session afterwards. The row of
every created, deleted and saved entity is rolled back when the session closes,
while `audit_log/service.py:19-22` says that it commits with the surrounding
business transaction. Only the worker's rows and that of `_mark_failed_to_queue`
have a commit of their own. `PROJECT.json` quotes the lines.

More statements of the repository that the models refute. To reproduce one, add
the definition as an INVARIANT to the run's cfg (those that begin with `[][` or
contain `~>` as a PROPERTY). `AlwaysDecided` and
`FileReleased` are there already, and hold: run them, and `FinishedStays`, with the
value of `Faults` given here.

| Definition | Run | What the code does |
|---|---|---|
| `FinishedStays` | `pipeline_stops`, `{"publish_timeout"}` | after an ambiguous publish (stored, then timed out) `service.py:250` writes FAILED over a SUCCESS whose result tree stays under the row; `test_dispatcher_redelivery.py:637-638` says a generation that has its result keeps it |
| `FileReleased` | `pipeline_handled`, `{"storage_denied"}` | the catch-all, `dispatcher.py:306`, marks FAILED and acks without deleting the object; `local_models.py:30-31` says the worker deletes it then |
| `AlwaysDecided` | `pipeline_handled`, `{"api_crash"}` | `service.py:197` commits before `:225` publishes; a process that stops in between leaves a PENDING row that nothing publishes. `repository.py:21-23` calls the two "a single atomic unit" |
| `RedeliveredOnlyIfGone` | `ack_wait` | the catch-all awaits `save_failure` after the heartbeat has stopped (`dispatcher.py:306-312`), and a database that takes longer than `ack_wait` has the message redelivered under it; `dispatcher.py:44-45` says only a worker that died, lost NATS or cancelled the generation does |
| `SolveNeverBlocks` | `worker_process` | `main` returns, but the interpreter joins the pool's manager thread, which waits for the solve that runs; `main.py:360-362` says not to block shutdown on it. A solve that never ends leaves the process to the orchestrator's SIGKILL |
| `StragglersRedeliver` | `worker_process` | a message delivered while the shutdown drains meets a pool that is down, and `dispatcher.py:483-494` records it as failed by its algorithm; `main.py:273-275` says stragglers redeliver |
| `WithinPool` | `worker_process` | `max_ack_pending` is the pool size for each algorithm's consumer, while the pool is shared; `dispatcher.py:192-194` says "never hands us more work than we can actively solve" |
| `StopsWhenStagnant` | `olagsa_search` | `ga.py:339` counts a generation whose best rose as one without improvement; `locales/en.json:82` says "without improvement before stopping" |
| `AlwaysAssigned` | `olagsa_search` | `ga.py:350` drops a species that is empty for good, and a child of its region ends the run with the error that `ga.py:228-231` calls "genuinely unreachable" |
| `FeasibleFirst` | `olagsa_search` | the "penalty" of `ga.py:40-41` is the highest fitness there is, in a search that keeps the highest |
| `GapsReported` | `generation_input` | `data_warnings` is written by the request (`service.py:366`) and the worker's own warnings are dropped; `local_models.py:61-63` says they are those of the finished run |
| `VerdictHoldsOfInput` | `generation_input` | the rows are read by a later statement than the verdict about them; `dispatcher.py:646-648` says the pre-flight is "the read that actually feeds the algorithm" |
| `CountAlwaysErrsHigh` | `generation_input` | a header behind a line of white space or with a quoted line feed, records ended by a carriage return and a dimension record that is too small are counted low; `upload_shape.py:5-6` says the counts "err on the high side". The worker's check catches them |
| `SavedWhole` | `key_requests` | a deletion between the statements of `get_allocation_key` leaves a copy without iterations or consumers in the CRM; `test_generation_routes.py:826` expects the whole key |
| `TimeoutMeansUndone` | `key_requests` | the 504 ends the wait for the response, and the handler goes on and commits; `request_limits.py:21-23` says that the entire downstream handler is under `wait_for` |
| `NobodyIsDeaf` | `queue_setup` | two workers that create one durable: the second replaces the inbox that the first does not listen on yet, and the first stays subscribed where nothing is delivered; `tests/fake_jetstream.py:90-103` always refuses the second |
| `UndeclaredKept` | `queue_setup` with a build that leaves a setting `Unset`, and old settings that match neither build | the write sends the configuration that was read, and puts back an undeclared field that another worker has changed since; `helper.py:112` says it "keeps the broker's value" |
| `DeafIsVisible` | `queue_setup` | one removed consumer does not stop the heartbeat, as another one answers; `main.py:57-59` says the file tells a live worker from a hung one |

And one that needs no model: `main.py:40-43` says the start is retried for about
10 minutes, but nine delays of 2, 4, 8, 16 and five times 30 seconds are 3.

## Not modelled

- The convex solve (cvxpy), parsing (pandas), floating-point rounding: numeric
  libraries; amounts are integers or exact rationals here.
- The geometry of OLAGSA's segments and triangles, beyond which regions contain
  a point.
- Tracing, metrics, logging, i18n, health, the algorithm registry: nothing waits
  for them, and they change no state that another part reads.
- The list queries and their paging, the parsing of role and organisation
  headers, body limits, envelopes and channels of the hints: per-request code
  without state, which reads or refuses.
- The letters of a spreadsheet's columns (`_column_number`): the dimension is
  the pair of numbers they denote.

## Plan

Done, in this order: the pipeline and its abstract lifecycle with their proofs;
the broker's clock; the worker process; the allocation rounds; OLAGSA; brute
force; the CRM input; the requests over two databases with audit log, hints and
tenancy; the queue configuration with the start and the poller of a worker; the
upload counts; the proofs about requests and about the queue configuration; the
proofs about the input and about the genetic search; the rationals and the
proofs about brute force.

Left:

1. Composition: `GenerationPipeline` with the verdicts of `WorkerProcess`
   instead of its free choice, the mapping checked as a refinement.
