------------------------------ MODULE CrmInput ------------------------------
(***************************************************************************)
(* The input of a generation that reads the CRM: from the request, whose   *)
(* pre-flight judges the period, to the matrix the worker gives a solver.  *)
(*                                                                         *)
(* A summary is two statements and the worker's rows are a third. Sessions *)
(* run at the database's default isolation (no engine sets another), so    *)
(* each statement sees what is committed when it starts, and an import may *)
(* commit between any two. The period, the community and the sharing       *)
(* operation are fixed: the table is the readings they select. Energy is   *)
(* counted in whole units and is never negative.                           *)
(***************************************************************************)
EXTENDS Integers, FiniteSets, FiniteSetsExt, Functions

CONSTANTS
  Eans,         \* meters
  Times,        \* timestamps of the period
  Energy,       \* what one reading may hold, 0 included
  MaxRows,      \* MAX_READING_ROWS
  MaxCells,     \* MAX_PROBLEM_CELLS
  MaxChanges,   \* bound on the imports and removals during one run
  MaxFaults     \* bound on the CRM reads that fail in the worker

ASSUME CrmInputAssumption ==
  /\ IsFiniteSet(Eans) /\ IsFiniteSet(Times) /\ IsFiniteSet(Energy)
  /\ 0 \in Energy /\ Energy \subseteq Nat
  /\ {MaxRows, MaxCells, MaxChanges, MaxFaults} \subseteq Nat

VARIABLES
  crm,       \* meter_consumption: how many readings a meter has at a
             \* timestamp (imported twice: two) and what each of them holds
  pc,        \* where the run is
  cover,     \* the EanCoverage of each meter, from the first statement
  verdict,   \* Preflight: blockers and consumer_eans
  rows,      \* the readings the worker fetched
  warnings,  \* data_warnings of the generation: readings missing, by meter
  input,     \* C and VA, as the solver receives them
  changes,   \* commits of the CRM during this run
  faults,    \* CRM reads of the worker that failed
  touched    \* a commit came after the request began to read

vars == <<crm, pc, cover, verdict, rows, warnings, input, changes, faults,
          touched>>

Slots == Eans \X Times
NoReading == [n |-> 0, gross |-> 0, inj |-> 0]
Readings == {NoReading} \cup [n : 1 .. 2, gross : Energy, inj : Energy]
Tables == [Slots -> Readings]
Empty == [s \in Slots |-> NoReading]

Coverages == [row_count : Nat, distinct_ts : Nat, consumption_kwh : Nat,
              injection_kwh : Nat]
Causes == {"no_data", "range_too_large", "duplicate_readings",
           "no_consumers", "problem_too_large", "no_injection"}
NoVerdict == [blockers |-> {}, consumer_eans |-> {}]
NoInput == [C |-> <<>>, VA |-> <<>>]
Reading == {"api_eans", "api_grid", "queued", "worker_grid", "worker_rows",
            "pivot"}
Over == {"refused", "failed", "handed"}

(***************************************************************************)
(* The two statements of summarize, and evaluate on their results.         *)
(***************************************************************************)
Stamps(tab) == {t \in Times : \E e \in Eans : tab[<<e, t>>].n > 0}

PerEan(tab) ==
  [e \in {m \in Eans : \E t \in Times : tab[<<m, t>>].n > 0} |->
    [row_count       |-> SumFunction([t \in Times |-> tab[<<e, t>>].n]),
     distinct_ts     |-> Cardinality({t \in Times : tab[<<e, t>>].n > 0}),
     consumption_kwh |-> SumFunction([t \in Times |-> tab[<<e, t>>].n * tab[<<e, t>>].gross]),
     injection_kwh   |-> SumFunction([t \in Times |-> tab[<<e, t>>].n * tab[<<e, t>>].inj])]]

GridSize(tab) == Cardinality(Stamps(tab))

ConsumerEans(cov) == {e \in DOMAIN cov : cov[e].consumption_kwh > 0}
NoDuplicateEans(cov) == {}
DuplicateEans(cov) == {e \in DOMAIN cov : cov[e].row_count # cov[e].distinct_ts}

Incomplete(cov, grid) == {e \in DOMAIN cov : cov[e].distinct_ts < grid}

TooLarge(participants, timesteps) == participants * timesteps > MaxCells

Total(cov, field) == SumFunction([e \in DOMAIN cov |-> cov[e][field]])

Blockers(cov, grid) ==
  IF DOMAIN cov = {}
  THEN {"no_data"}
  ELSE {c \in Causes :
         \/ c = "range_too_large" /\ Total(cov, "row_count") > MaxRows
         \/ c = "duplicate_readings" /\ DuplicateEans(cov) # {}
         \/ c = "no_consumers" /\ ConsumerEans(cov) = {}
         \/ c = "problem_too_large"
              /\ TooLarge(Cardinality(ConsumerEans(cov)), grid)
         \/ c = "no_injection" /\ Total(cov, "injection_kwh") <= 0}

Evaluate(cov, grid) ==
  [blockers |-> Blockers(cov, grid), consumer_eans |-> ConsumerEans(cov)]

Warnings(cov, grid) ==
  [e \in Incomplete(cov, grid) |-> grid - cov[e].distinct_ts]

(***************************************************************************)
(* The pivot of the rows and the matrices made of it.                      *)
(***************************************************************************)
HasDuplicates(tab) == \E s \in Slots : tab[s].n > 1
Missing(tab, eans) == {e \in eans : \A t \in Times : tab[<<e, t>>].n = 0}

UnpivotableSummed(tab, eans) ==
  Stamps(tab) = {} \/ eans = {} \/ Missing(tab, eans) # {}
UnpivotableZeroFilled(tab, eans) ==
  Stamps(tab) = {} \/ eans = {} \/ HasDuplicates(tab)
Unpivotable(tab, eans) ==
  \/ Stamps(tab) = {}
  \/ eans = {}
  \/ HasDuplicates(tab)
  \/ Missing(tab, eans) # {}

ProductionOfParticipants(tab, eans) ==
  [t \in Stamps(tab) |-> SumFunction([e \in eans |-> tab[<<e, t>>].n * tab[<<e, t>>].inj])]
Production(tab, eans) ==
  [t \in Stamps(tab) |-> SumFunction([e \in Eans |-> tab[<<e, t>>].n * tab[<<e, t>>].inj])]

RawData(tab, eans) ==
  [C  |-> [e \in eans |-> [t \in Stamps(tab) |-> tab[<<e, t>>].n * tab[<<e, t>>].gross]],
   VA |-> Production(tab, eans)]

Oversize(data) == TooLarge(Cardinality(DOMAIN data.C), Cardinality(DOMAIN data.VA))

-----------------------------------------------------------------------------
Init ==
  /\ crm \in {tab \in Tables : \A s \in Slots : tab[s].n < 2}
  /\ pc = "idle"
  /\ cover = <<>>
  /\ verdict = NoVerdict
  /\ rows = Empty
  /\ warnings = <<>>
  /\ input = NoInput
  /\ changes = 0
  /\ faults = 0
  /\ touched = FALSE

\* The CRM imports a workbook: one meter's readings at some timestamps.
Import(e, ts, g, i) ==
  /\ pc \in Reading
  /\ changes < MaxChanges
  /\ \A t \in ts : crm[<<e, t>>].n = 0 \/ crm[<<e, t>>] = [n |-> 1, gross |-> g, inj |-> i]
  /\ crm' = [s \in Slots |->
               IF s[1] = e /\ s[2] \in ts
               THEN [n |-> crm[s].n + 1, gross |-> g, inj |-> i]
               ELSE crm[s]]
  /\ changes' = changes + 1
  /\ touched' = TRUE
  /\ UNCHANGED <<pc, cover, verdict, rows, warnings, input, faults>>

\* The CRM drops a meter's readings.
DropMeter(e) ==
  /\ pc \in Reading
  /\ changes < MaxChanges
  /\ \E t \in Times : crm[<<e, t>>].n > 0
  /\ crm' = [s \in Slots |-> IF s[1] = e THEN NoReading ELSE crm[s]]
  /\ changes' = changes + 1
  /\ touched' = TRUE
  /\ UNCHANGED <<pc, cover, verdict, rows, warnings, input, faults>>

\* start_generation_from_crm: an unknown algorithm, inputs that do not fit
\* it, an empty period or another community's operation end the request, and
\* so does a read of the CRM that raises.
RefuseRequest ==
  /\ pc \in {"idle", "api_eans", "api_grid"}
  /\ pc' = "refused"
  /\ UNCHANGED <<crm, cover, verdict, rows, warnings, input, changes, faults,
                 touched>>

AcceptRequest ==
  /\ pc = "idle"
  /\ pc' = "api_eans"
  /\ UNCHANGED <<crm, cover, verdict, rows, warnings, input, changes, faults,
                 touched>>

\* The first statement of summarize.
SummarizeEans(from, to) ==
  /\ pc = from
  /\ cover' = PerEan(crm)
  /\ pc' = to
  /\ UNCHANGED <<crm, rows, warnings, input, changes, faults>>

ApiSummarizes ==
  /\ SummarizeEans("api_eans", "api_grid")
  /\ touched' = FALSE
  /\ UNCHANGED verdict

\* The second statement, the verdict, and the generation created with it.
ApiDecides ==
  /\ pc = "api_grid"
  /\ LET grid == GridSize(crm)
     IN /\ verdict' = Evaluate(cover, grid)
        /\ IF verdict'.blockers = {}
           THEN pc' = "queued" /\ warnings' = Warnings(cover, grid)
           ELSE pc' = "refused" /\ UNCHANGED warnings
  /\ UNCHANGED <<crm, cover, rows, input, changes, faults, touched>>

WorkerSummarizes ==
  /\ SummarizeEans("queued", "worker_grid")
  /\ verdict' = NoVerdict
  /\ UNCHANGED touched

\* The second statement and the verdict; rejected data is not fetched.
WorkerDecides ==
  /\ pc = "worker_grid"
  /\ verdict' = Evaluate(cover, GridSize(crm))
  /\ pc' = IF verdict'.blockers = {} THEN "worker_rows" ELSE "failed"
  /\ UNCHANGED <<crm, cover, rows, warnings, input, changes, faults, touched>>

FetchRows ==
  /\ pc = "worker_rows"
  /\ rows' = crm
  /\ pc' = "pivot"
  /\ UNCHANGED <<crm, cover, verdict, warnings, input, changes, faults, touched>>

\* A failed read is transient: the delivery comes back and reads anew.
ReadFails ==
  /\ pc \in {"queued", "worker_grid", "worker_rows"}
  /\ faults < MaxFaults
  /\ faults' = faults + 1
  /\ pc' = "queued"
  /\ UNCHANGED <<crm, cover, verdict, rows, warnings, input, changes, touched>>

\* build_dataframe, to_algorithm_raw_data and the check of the exact size.
BuildInput ==
  /\ pc = "pivot"
  /\ LET data == RawData(rows, verdict.consumer_eans)
     IN IF Unpivotable(rows, verdict.consumer_eans) \/ Oversize(data)
        THEN pc' = "failed" /\ UNCHANGED input
        ELSE pc' = "handed" /\ input' = data
  /\ UNCHANGED <<crm, cover, verdict, rows, warnings, changes, faults, touched>>

Next ==
  \/ \E e \in Eans, ts \in (SUBSET Times) \ {{}}, g, i \in Energy : Import(e, ts, g, i)
  \/ \E e \in Eans : DropMeter(e)
  \/ RefuseRequest
  \/ AcceptRequest
  \/ ApiSummarizes
  \/ ApiDecides
  \/ WorkerSummarizes
  \/ WorkerDecides
  \/ FetchRows
  \/ ReadFails
  \/ BuildInput

Spec == Init /\ [][Next]_vars

-----------------------------------------------------------------------------
(***************************************************************************)
(* The state stays well formed. In particular a reported gap is never      *)
(* negative, although the two statements of a summary may see different    *)
(* tables.                                                                 *)
(***************************************************************************)
TypeOK ==
  /\ crm \in Tables /\ rows \in Tables
  /\ pc \in Reading \cup Over \cup {"idle"}
  /\ DOMAIN cover \subseteq Eans
  /\ \A e \in DOMAIN cover : cover[e] \in Coverages
  /\ verdict.blockers \subseteq Causes /\ verdict.consumer_eans \subseteq Eans
  /\ DOMAIN warnings \subseteq Eans
  /\ \A e \in DOMAIN warnings : warnings[e] \in Nat \ {0}
  /\ DOMAIN input.C \subseteq Eans /\ DOMAIN input.VA \subseteq Times
  /\ changes \in 0 .. MaxChanges /\ faults \in 0 .. MaxFaults
  /\ touched \in BOOLEAN

(***************************************************************************)
(* No reading is counted twice: what the solver is told a participant drew *)
(* at a timestamp is what one reading says, and the production is the sum  *)
(* of one reading per meter, even when a second import of the same         *)
(* workbook commits after the verdict (crm_timeseries pivots, and refuses, *)
(* what the pre-flight no longer sees).                                    *)
(***************************************************************************)
NoInflation ==
  pc = "handed" =>
    /\ \A e \in DOMAIN input.C, t \in DOMAIN input.VA :
         input.C[e][t] = rows[<<e, t>>].gross
    /\ \A t \in DOMAIN input.VA :
         input.VA[t] <= SumFunction([e \in Eans |-> rows[<<e, t>>].inj])

(***************************************************************************)
(* The production is shared in full: the injection of every fetched        *)
(* reading is in the profile, also that of meters which are no             *)
(* participants, and also that of meters the verdict did not know.         *)
(***************************************************************************)
AllInjectionShared ==
  pc = "handed" =>
    SumFunction(input.VA) >= SumFunction([s \in Slots |-> rows[s].inj])

(***************************************************************************)
(* No participant is invented: each one given to the solver has a reading  *)
(* among the rows, even if its readings were removed after the verdict     *)
(* named it a consumer.                                                    *)
(***************************************************************************)
ParticipantsHaveReadings ==
  pc = "handed" =>
    \A e \in DOMAIN input.C : \E t \in Times : rows[<<e, t>>].n > 0

(***************************************************************************)
(* What the solver is given is what was read (crm_timeseries.py:45-85):    *)
(* each reading once, all injection, no participant without readings.      *)
(***************************************************************************)
InputFaithful == NoInflation /\ AllInjectionShared /\ ParticipantsHaveReadings

Gaps(tab) ==
  LET cov == PerEan(tab) IN Warnings(cov, GridSize(tab))

(***************************************************************************)
(* When nothing is committed in the meantime, the worker reaches the       *)
(* verdict of the request (a generation that was accepted is not failed    *)
(* for its data) and the recorded warnings are exactly the gaps that were  *)
(* filled with zeros.                                                      *)
(***************************************************************************)
QuietRunAgrees ==
  /\ pc = "failed" => touched
  /\ pc = "handed" /\ ~ touched => warnings = Gaps(rows)

(***************************************************************************)
(* Refuted: local_models says data_warnings lets the manager see the       *)
(* zero-filled gaps on the finished run. They are those of the request;    *)
(* the worker's own are dropped.                                           *)
(***************************************************************************)
GapsReported ==
  pc = "handed" => Gaps(rows) = warnings

(***************************************************************************)
(* Refuted: the dispatcher says the pre-flight it runs again is the read   *)
(* that feeds the algorithm. The rows are a later statement, and may have  *)
(* what the verdict excludes: no production left, or one more consumer.    *)
(***************************************************************************)
VerdictHoldsOfInput ==
  pc = "handed" =>
    Evaluate(PerEan(rows), GridSize(rows)) = verdict
=============================================================================
