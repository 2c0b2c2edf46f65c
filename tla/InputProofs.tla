----------------------------- MODULE InputProofs -----------------------------
(***************************************************************************)
(* What the solver is given, for every table of readings, every upload and *)
(* every value of the limits.                                              *)
(***************************************************************************)
EXTENDS GenerationInput, Sums

-----------------------------------------------------------------------------
(* Tables of readings.                                                      *)

\* A reading is of natural numbers, and an absent one of zeros.
LEMMA ReadingTypes ==
  ASSUME NEW tab \in Tables, NEW e \in Eans, NEW t \in Times
  PROVE  /\ tab[<<e, t>>].n \in 0 .. 2 /\ tab[<<e, t>>].gross \in Nat /\ tab[<<e, t>>].inj \in Nat
         /\ tab[<<e, t>>].n = 0 => tab[<<e, t>>].gross = 0 /\ tab[<<e, t>>].inj = 0
<1>1. tab[<<e, t>>] \in Readings
  BY DEF Tables, Slots
<1>2. Energy \subseteq Nat
  BY CrmInputAssumption
<1>3. CASE tab[<<e, t>>] = NoReading
  BY <1>3 DEF NoReading
<1>4. CASE tab[<<e, t>>] \in [n : 1 .. 2, gross : Energy, inj : Energy]
  <2>1. tab[<<e, t>>].n \in 1 .. 2 /\ tab[<<e, t>>].gross \in Energy /\ tab[<<e, t>>].inj \in Energy
    BY <1>4
  <2>2. tab[<<e, t>>].n # 0 /\ tab[<<e, t>>].n \in 0 .. 2
    BY <2>1
  <2> QED BY <1>2, <2>1, <2>2
<1> QED BY <1>1, <1>3, <1>4 DEF Readings

\* A meter whose rows are as many as its timestamps has no reading twice.
LEMMA NoBlockerNoDuplicate ==
  ASSUME NEW tab \in Tables, DuplicateEans(PerEan(tab)) = {}
  PROVE  ~ HasDuplicates(tab)
<1> SUFFICES ASSUME NEW e \in Eans, NEW t \in Times PROVE ~(tab[<<e, t>>].n > 1)
  BY DEF HasDuplicates, Slots
<1> DEFINE n == [u \in Times |-> tab[<<e, u>>].n]
<1>1. \A u \in Times : n[u] \in Nat
  BY ReadingTypes
<1>2. CASE e \in DOMAIN PerEan(tab)
  <2>1. PerEan(tab)[e].row_count = PerEan(tab)[e].distinct_ts
    BY <1>2 DEF DuplicateEans
  <2>2. PerEan(tab)[e].row_count = SumFunction(n) /\ PerEan(tab)[e].distinct_ts = Cardinality({u \in Times : tab[<<e, u>>].n > 0})
    BY <1>2 DEF PerEan
  <2>3. {u \in Times : tab[<<e, u>>].n > 0} = {u \in Times : n[u] > 0}
    OBVIOUS
  <2>4. SumFunction(n) = SumFunctionOnSet(n, Times)
    BY SumDomain
  <2>5. n[t] = tab[<<e, t>>].n
    OBVIOUS
  <2>6. SumFunctionOnSet(n, Times) = Cardinality({u \in Times : n[u] > 0})
    BY <2>1, <2>2, <2>3, <2>4
  <2> HIDE DEF n
  <2>7. n[t] <= 1
    BY <1>1, <2>6, SumIsCount, CrmInputAssumption
  <2> QED BY <1>1, <2>5, <2>7
<1>3. CASE e \notin DOMAIN PerEan(tab)
  <2>1. ~(tab[<<e, t>>].n > 0)
    BY <1>3 DEF PerEan
  <2> QED BY <2>1, ReadingTypes
<1> QED BY <1>2, <1>3

\* Rows that were judged to be in order can be pivoted and are not too large.
LEMMA CleanPivots ==
  ASSUME NEW tab \in Tables, Blockers(PerEan(tab), GridSize(tab)) = {}
  PROVE  /\ ~ Unpivotable(tab, ConsumerEans(PerEan(tab)))
         /\ ~ Oversize(RawData(tab, ConsumerEans(PerEan(tab))))
<1> DEFINE cov == PerEan(tab)
           eans == ConsumerEans(cov)
<1>1. DOMAIN cov # {}
  BY DEF Blockers
<1>2. DuplicateEans(cov) = {} /\ eans # {} /\ ~ TooLarge(Cardinality(eans), GridSize(tab))
  BY <1>1 DEF Blockers, Causes
<1>3. DOMAIN cov = {m \in Eans : \E t \in Times : tab[<<m, t>>].n > 0}
  BY DEF PerEan
<1>4. Stamps(tab) # {}
  BY <1>1, <1>3 DEF Stamps
<1>5. Missing(tab, eans) = {}
  <2>1. \A e \in eans : \E t \in Times : tab[<<e, t>>].n > 0
    BY <1>3 DEF ConsumerEans
  <2>2. \A e \in eans : e \in Eans
    BY <1>3 DEF ConsumerEans
  <2>3. ASSUME NEW e \in eans PROVE \E t \in Times : tab[<<e, t>>].n # 0
    <3>1. PICK t \in Times : tab[<<e, t>>].n > 0
      BY <2>1
    <3>2. ~(0 > 0)
      OBVIOUS
    <3> QED BY <3>1, <3>2
  <2> QED BY <2>3 DEF Missing
<1>6. ~ HasDuplicates(tab)
  BY <1>2, NoBlockerNoDuplicate
<1>7. DOMAIN RawData(tab, eans).C = eans /\ DOMAIN RawData(tab, eans).VA = Stamps(tab)
  BY DEF RawData, Production
<1> QED BY <1>2, <1>4, <1>5, <1>6, <1>7 DEF Unpivotable, Oversize, GridSize

\* Where no reading is there twice, a meter's rows at a timestamp hold what one
\* reading says.
LEMMA OneReading ==
  ASSUME NEW tab \in Tables, ~ HasDuplicates(tab), NEW e \in Eans, NEW t \in Times
  PROVE  /\ tab[<<e, t>>].n * tab[<<e, t>>].inj = tab[<<e, t>>].inj
         /\ tab[<<e, t>>].n * tab[<<e, t>>].gross = tab[<<e, t>>].gross
<1>1. <<e, t>> \in Slots
  BY DEF Slots
<1>2. tab[<<e, t>>].n = 0 \/ tab[<<e, t>>].n = 1
  BY <1>1, ReadingTypes DEF HasDuplicates
<1>3. /\ tab[<<e, t>>].inj \in Nat /\ tab[<<e, t>>].gross \in Nat
      /\ tab[<<e, t>>].n = 0 => tab[<<e, t>>].inj = 0 /\ tab[<<e, t>>].gross = 0
  BY ReadingTypes
<1> QED BY <1>2, <1>3

\* Where no reading is there twice, the production at a timestamp is the sum of
\* what one reading per meter says.
LEMMA ProductionIsInjection ==
  ASSUME NEW tab \in Tables, ~ HasDuplicates(tab), NEW eans, NEW t \in Stamps(tab)
  PROVE  Production(tab, eans)[t] = SumFunction([e \in Eans |-> tab[<<e, t>>].inj])
<1>1. t \in Times
  BY DEF Stamps
<1>2. [e \in Eans |-> tab[<<e, t>>].n * tab[<<e, t>>].inj] = [e \in Eans |-> tab[<<e, t>>].inj]
  BY <1>1, OneReading
<1> QED BY <1>2 DEF Production

\* All of it is there: timestamps without a reading hold no injection.
LEMMA ProductionIsAll ==
  ASSUME NEW tab \in Tables, ~ HasDuplicates(tab), NEW eans
  PROVE  SumFunction(Production(tab, eans)) = SumFunction([s \in Slots |-> tab[s].inj])
<1> DEFINE inj == [s \in Slots |-> tab[s].inj]
           A == Eans
           B == Stamps(tab)
           row == [b \in B |-> [a \in A |-> tab[<<a, b>>].inj]]
           column == Production(tab, eans)
<1>1. IsFiniteSet(A) /\ IsFiniteSet(Times) /\ B \in SUBSET Times /\ IsFiniteSet(B)
  BY CrmInputAssumption, FS_Subset DEF Stamps
<1>2. \A s \in Slots : inj[s] \in Int
  BY ReadingTypes DEF Slots
<1>3. IsFiniteSet(Slots) /\ A \X B \in SUBSET Slots
  BY <1>1, FS_Product DEF Slots
<1>4. SumFunctionOnSet(inj, Slots) = SumFunctionOnSet(inj, A \X B) + SumFunctionOnSet(inj, Slots \ (A \X B))
  <2> HIDE DEF inj, B
  <2> QED BY <1>2, <1>3, SumUnion
<1>5. SumFunctionOnSet(inj, Slots \ (A \X B)) = 0
  <2>1. \A s \in Slots \ (A \X B) : inj[s] = 0
    <3> SUFFICES ASSUME NEW s \in Slots, s \notin A \X B PROVE tab[s].inj = 0
      OBVIOUS
    <3>1. PICK e \in Eans, t \in Times : s = <<e, t>>
      BY DEF Slots
    <3>2. t \notin B
      BY <3>1
    <3>3. ~(tab[<<e, t>>].n > 0)
      BY <3>2 DEF Stamps
    <3>4. tab[<<e, t>>].n = 0
      BY <3>3, ReadingTypes
    <3> QED BY <3>1, <3>4, ReadingTypes
  <2>2. IsFiniteSet(Slots \ (A \X B))
    BY <1>3, FS_Subset
  <2> HIDE DEF inj, B
  <2> QED BY <2>1, <2>2, SumZero
<1>6. SumFunctionOnSet(inj, A \X B) = SumFunctionOnSet(column, B)
  <2>1. \A p \in A \X B : inj[p] \in Int
    BY <1>2, <1>3
  <2>2. \A b \in B : Column(inj, A, b, row[b])
    BY <1>1, <2>1 DEF Slots, Column
  <2>3. ASSUME NEW b \in B PROVE column[b] = SumFunctionOnSet(row[b], A)
    <3>1. column[b] = SumFunction(row[b]) /\ DOMAIN row[b] = A
      BY ProductionIsInjection
    <3> HIDE DEF row, column, A
    <3> QED BY <3>1, SumDomain
  <2> HIDE DEF inj, B, A, row, column
  <2> QED BY <1>1, <2>2, <2>3, SumPairs
<1>7. SumFunctionOnSet(inj, A \X B) \in Int
  <2>1. \A p \in A \X B : inj[p] \in Int
    BY <1>2, <1>3
  <2>2. IsFiniteSet(A \X B)
    BY <1>3, FS_Subset
  <2> HIDE DEF inj, B
  <2> QED BY <2>1, <2>2, SumInt
<1>8. DOMAIN column = B /\ DOMAIN inj = Slots
  BY DEF Production
<1> HIDE DEF column, inj, B
<1>9. SumFunction(column) = SumFunctionOnSet(column, B) /\ SumFunction(inj) = SumFunctionOnSet(inj, Slots)
  BY <1>8, SumDomain
<1>10. SumFunction(column) = SumFunction(inj)
  BY <1>4, <1>5, <1>6, <1>7, <1>9
<1> QED BY <1>10 DEF column, inj

-----------------------------------------------------------------------------
(* A run that reads the CRM.                                                *)

CrmTypes ==
  /\ crm \in Tables /\ rows \in Tables
  /\ DOMAIN cover \subseteq Eans /\ verdict.consumer_eans \subseteq Eans

\* The solver's input is the pivot of the fetched rows for some meters, and it
\* passed what the pivot refuses.
Pivoted ==
  pc = "handed" =>
    \E eans \in SUBSET Eans :
      input = RawData(rows, eans) /\ ~ Unpivotable(rows, eans)

Accepted == {"queued", "worker_grid", "worker_rows", "pivot", "handed"}

\* As long as nothing was committed since the request began to read, all it and
\* the worker know is what the table still holds.
Quiet ==
  ~ touched =>
    /\ pc # "failed"
    /\ pc \in {"api_grid", "worker_grid"} => cover = PerEan(crm)
    /\ pc \in Accepted =>
         warnings = Gaps(crm) /\ Blockers(PerEan(crm), GridSize(crm)) = {}
    /\ pc \in {"worker_rows", "pivot", "handed"} =>
         verdict = Evaluate(PerEan(crm), GridSize(crm))
    /\ pc \in {"pivot", "handed"} => rows = crm

CrmInv == CrmTypes /\ Pivoted /\ Quiet

\* Coverage is given for meters.
LEMMA CoverTypes == ASSUME NEW tab PROVE DOMAIN PerEan(tab) \subseteq Eans
BY DEF PerEan

\* The invariant holds before the request.
LEMMA CrmInitially == Init => CrmInv
<1> SUFFICES ASSUME Init PROVE CrmInv
  OBVIOUS
<1>1. crm \in Tables
  BY DEF Init
<1>2. rows \in Tables
  BY DEF Init, Empty, Tables, Readings
<1>3. DOMAIN cover \subseteq Eans /\ verdict.consumer_eans \subseteq Eans
  BY DEF Init, NoVerdict
<1>4. pc = "idle"
  BY DEF Init
<1> QED BY <1>1, <1>2, <1>3, <1>4 DEF CrmInv, CrmTypes, Pivoted, Quiet, Accepted

\* Every statement of the request, the worker and the CRM keeps it.
LEMMA CrmStep == CrmInv /\ [Next]_vars => CrmInv'
<1> SUFFICES ASSUME CrmInv, [Next]_vars PROVE CrmInv'
  OBVIOUS
<1> USE DEF CrmInv
<1>1. ASSUME NEW e \in Eans, NEW ts \in (SUBSET Times) \ {{}}, NEW g \in Energy, NEW i \in Energy,
             Import(e, ts, g, i)
      PROVE  CrmInv'
  <2>1. crm' \in Tables
    <3>1. \A t \in ts : crm[<<e, t>>].n = 0 \/ crm[<<e, t>>].n = 1
      BY <1>1 DEF Import
    <3>2. crm \in [Slots -> Readings]
      BY DEF CrmTypes, Tables
    <3>3. ASSUME NEW s \in Slots PROVE crm'[s] \in Readings
      <4>1. CASE s[1] = e /\ s[2] \in ts
        <5>1. crm[s].n = 0 \/ crm[s].n = 1
          BY <3>1, <4>1 DEF Slots
        <5>2. crm'[s] = [n |-> crm[s].n + 1, gross |-> g, inj |-> i]
          BY <1>1, <4>1 DEF Import
        <5>3. crm'[s] \in [n : 1 .. 2, gross : Energy, inj : Energy]
          BY <5>1, <5>2
        <5> QED BY <5>3 DEF Readings
      <4>2. CASE ~(s[1] = e /\ s[2] \in ts)
        BY <1>1, <3>2, <4>2 DEF Import
      <4> QED BY <4>1, <4>2
    <3>4. crm' = [s \in Slots |-> crm'[s]]
      BY <1>1 DEF Import
    <3> QED BY <3>3, <3>4 DEF Tables
  <2>2. pc' # "handed" /\ touched' /\ UNCHANGED <<rows, cover, verdict>>
    BY <1>1 DEF Import, Reading
  <2> QED BY <2>1, <2>2 DEF CrmTypes, Pivoted, Quiet
<1>2. ASSUME NEW e \in Eans, DropMeter(e) PROVE CrmInv'
  <2>1. crm' \in Tables
    BY <1>2 DEF DropMeter, CrmTypes, Tables, Readings
  <2>2. pc' # "handed" /\ touched' /\ UNCHANGED <<rows, cover, verdict>>
    BY <1>2 DEF DropMeter, Reading
  <2> QED BY <2>1, <2>2 DEF CrmTypes, Pivoted, Quiet
<1>3. CASE RefuseRequest
  BY <1>3 DEF RefuseRequest, CrmTypes, Pivoted, Quiet, Accepted
<1>4. CASE AcceptRequest
  BY <1>4 DEF AcceptRequest, CrmTypes, Pivoted, Quiet, Accepted
<1>5. CASE ApiSummarizes
  BY <1>5, CoverTypes DEF ApiSummarizes, SummarizeEans, CrmTypes, Pivoted, Quiet, Accepted
<1>6. CASE ApiDecides
  <2> DEFINE grid == GridSize(crm)
  <2>1. /\ pc = "api_grid" /\ verdict' = Evaluate(cover, grid)
        /\ (pc' = "queued" /\ warnings' = Warnings(cover, grid)) \/ pc' = "refused"
        /\ pc' = "queued" => Blockers(cover, grid) = {}
        /\ UNCHANGED <<crm, cover, rows, touched>>
    BY <1>6 DEF ApiDecides, Evaluate
  <2>2. verdict'.consumer_eans \subseteq Eans
    BY <2>1 DEF Evaluate, ConsumerEans, CrmTypes
  <2>3. CrmTypes'
    BY <2>1, <2>2 DEF CrmTypes
  <2>4. Pivoted'
    BY <2>1 DEF Pivoted
  <2>5. Quiet'
    <3>1. CASE pc' = "refused"
      BY <3>1 DEF Quiet, Accepted
    <3>2. CASE pc' = "queued" /\ ~ touched
      <4>1. cover = PerEan(crm)
        BY <2>1, <3>2 DEF Quiet
      <4>2. warnings' = Gaps(crm)' /\ (Blockers(PerEan(crm), GridSize(crm)) = {})'
        BY <2>1, <3>2, <4>1 DEF Gaps
      <4> QED BY <3>2, <4>2 DEF Quiet, Accepted
    <3> QED BY <2>1, <3>1, <3>2 DEF Quiet
  <2> QED BY <2>3, <2>4, <2>5
<1>7. CASE WorkerSummarizes
  BY <1>7, CoverTypes DEF WorkerSummarizes, SummarizeEans, NoVerdict, CrmTypes, Pivoted, Quiet, Accepted
<1>8. CASE WorkerDecides
  <2>1. /\ pc = "worker_grid" /\ verdict' = Evaluate(cover, GridSize(crm))
        /\ pc' = IF Blockers(cover, GridSize(crm)) = {} THEN "worker_rows" ELSE "failed"
        /\ UNCHANGED <<crm, cover, rows, warnings, touched>>
    BY <1>8 DEF WorkerDecides, Evaluate
  <2>2. verdict'.consumer_eans \subseteq Eans
    BY <2>1 DEF Evaluate, ConsumerEans, CrmTypes
  <2>3. CrmTypes'
    BY <2>1, <2>2 DEF CrmTypes
  <2>4. Pivoted'
    BY <2>1 DEF Pivoted
  <2>5. ASSUME ~ touched PROVE Quiet'
    <3>1. cover = PerEan(crm) /\ Blockers(PerEan(crm), GridSize(crm)) = {} /\ warnings = Gaps(crm)
      BY <2>1, <2>5 DEF Quiet, Accepted
    <3>2. pc' = "worker_rows"
      BY <2>1, <3>1
    <3> QED BY <2>1, <3>1, <3>2 DEF Quiet, Accepted
  <2>6. Quiet'
    BY <2>1, <2>5 DEF Quiet
  <2> QED BY <2>3, <2>4, <2>6
<1>9. CASE FetchRows
  BY <1>9 DEF FetchRows, CrmTypes, Pivoted, Quiet, Accepted
<1>10. CASE ReadFails
  BY <1>10 DEF ReadFails, CrmTypes, Pivoted, Quiet, Accepted
<1>11. CASE BuildInput
  <2> DEFINE eans == verdict.consumer_eans
  <2>1. /\ pc = "pivot" /\ UNCHANGED <<crm, cover, verdict, rows, warnings, touched>>
        /\ \/ pc' = "failed" /\ (Unpivotable(rows, eans) \/ Oversize(RawData(rows, eans)))
           \/ /\ pc' = "handed" /\ input' = RawData(rows, eans)
              /\ ~ Unpivotable(rows, eans) /\ ~ Oversize(RawData(rows, eans))
    BY <1>11 DEF BuildInput
  <2>2. CrmTypes'
    BY <2>1 DEF CrmTypes
  <2>3. Pivoted'
    BY <2>1 DEF Pivoted, CrmTypes
  <2>4. ASSUME ~ touched PROVE Quiet'
    <3>1. rows = crm /\ verdict = Evaluate(PerEan(crm), GridSize(crm))
          /\ Blockers(PerEan(crm), GridSize(crm)) = {} /\ warnings = Gaps(crm)
      BY <2>1, <2>4 DEF Quiet, Accepted
    <3>2. eans = ConsumerEans(PerEan(crm))
      BY <3>1 DEF Evaluate
    <3>3. pc' = "handed"
      BY <2>1, <3>1, <3>2, CleanPivots DEF CrmTypes
    <3> QED BY <2>1, <3>1, <3>3 DEF Quiet, Accepted
  <2>5. Quiet'
    BY <2>1, <2>4 DEF Quiet
  <2> QED BY <2>2, <2>3, <2>5
<1>12. CASE UNCHANGED vars
  BY <1>12 DEF vars, CrmTypes, Pivoted, Quiet
<1> QED BY <1>1, <1>2, <1>3, <1>4, <1>5, <1>6, <1>7, <1>8, <1>9, <1>10, <1>11, <1>12 DEF Next

\* What the inductive invariant says of the solver's input from the CRM: it is
\* what was read.
LEMMA FaithfulHolds == CrmInv => InputFaithful
<1> SUFFICES ASSUME CrmInv, pc = "handed"
             PROVE  NoInflation /\ AllInjectionShared /\ ParticipantsHaveReadings
  BY DEF InputFaithful, NoInflation, AllInjectionShared, ParticipantsHaveReadings
<1>1. PICK eans \in SUBSET Eans : input = RawData(rows, eans) /\ ~ Unpivotable(rows, eans)
  BY DEF CrmInv, Pivoted
<1>2. rows \in Tables
  BY DEF CrmInv, CrmTypes
<1>3. ~ HasDuplicates(rows) /\ Missing(rows, eans) = {}
  BY <1>1 DEF Unpivotable
<1>4. /\ input.VA = Production(rows, eans)
      /\ input.C = [e \in eans |-> [t \in Stamps(rows) |-> rows[<<e, t>>].n * rows[<<e, t>>].gross]]
  BY <1>1 DEF RawData
<1>5. DOMAIN input.C = eans /\ DOMAIN input.VA = Stamps(rows) /\ Stamps(rows) \subseteq Times
  BY <1>4 DEF Production, Stamps
<1>6. NoInflation
  <2>1. ASSUME NEW e \in eans, NEW t \in Stamps(rows) PROVE input.C[e][t] = rows[<<e, t>>].gross
    BY <1>2, <1>3, <1>4, <1>5, OneReading
  <2>2. ASSUME NEW t \in Stamps(rows) PROVE input.VA[t] <= SumFunction([e \in Eans |-> rows[<<e, t>>].inj])
    <3> DEFINE g == [e \in Eans |-> rows[<<e, t>>].inj]
    <3>1. input.VA[t] = SumFunction(g)
      BY <1>2, <1>3, <1>4, ProductionIsInjection
    <3>2. DOMAIN g = Eans /\ \A e \in Eans : g[e] \in Int
      BY <1>2, <1>5, ReadingTypes
    <3> HIDE DEF g
    <3>3. SumFunction(g) \in Int
      BY <3>2, SumDomain, SumInt, CrmInputAssumption
    <3>4. input.VA[t] <= SumFunction(g)
      BY <3>1, <3>3
    <3> QED BY <3>4 DEF g
  <2> QED BY <1>5, <2>1, <2>2 DEF NoInflation
<1>7. AllInjectionShared
  <2> DEFINE inj == [s \in Slots |-> rows[s].inj]
  <2>1. SumFunction(input.VA) = SumFunction(inj)
    BY <1>2, <1>3, <1>4, ProductionIsAll
  <2>2. DOMAIN inj = Slots /\ \A s \in Slots : inj[s] \in Int
    BY <1>2, ReadingTypes DEF Slots
  <2>3. IsFiniteSet(Slots)
    BY CrmInputAssumption, FS_Product DEF Slots
  <2> HIDE DEF inj
  <2>4. SumFunction(inj) \in Int
    BY <2>2, <2>3, SumDomain, SumInt
  <2>5. SumFunction(input.VA) >= SumFunction(inj)
    BY <2>1, <2>4
  <2> QED BY <2>5 DEF AllInjectionShared, inj
<1>8. ParticipantsHaveReadings
  <2>1. ASSUME NEW e \in eans PROVE \E t \in Times : rows[<<e, t>>].n > 0
    <3>1. PICK t \in Times : rows[<<e, t>>].n # 0
      BY <1>3 DEF Missing
    <3>2. rows[<<e, t>>].n \in 0 .. 2
      BY <1>2, ReadingTypes
    <3> QED BY <3>1, <3>2
  <2> QED BY <1>5, <2>1 DEF ParticipantsHaveReadings
<1> QED BY <1>6, <1>7, <1>8

\* And an undisturbed run ends with the verdict it was accepted with.
LEMMA QuietHolds == CrmInv => QuietRunAgrees
BY DEF CrmInv, Quiet, QuietRunAgrees, Accepted

-----------------------------------------------------------------------------
(* The limit.                                                               *)

\* A problem with as many participants and timesteps, or more, is too large
\* when the smaller one is.
LEMMA TooLargeGrows ==
  ASSUME NEW a \in Nat, NEW b \in Int, NEW c \in Int, NEW d \in Int, a <= c, b <= d, TooLarge(a, b)
  PROVE  TooLarge(c, d)
<1>1. \A x, y \in Nat : x * y \in Nat
  OBVIOUS
<1>2. a * b > MaxCells /\ MaxCells \in Nat /\ a * b \in Int
  BY CrmInputAssumption DEF TooLarge
<1>3. b \in Nat
  <2> SUFFICES ASSUME -b \in Nat PROVE FALSE
    BY <1>2
  <2>1. a * (-b) \in Nat
    BY <1>1
  <2>2. a * (-b) = -(a * b)
    OBVIOUS
  <2> QED BY <1>2, <2>1, <2>2
<1>4. (c - a) * d \in Nat /\ a * (d - b) \in Nat
  BY <1>1, <1>3
<1>5. c * d = a * b + (c - a) * d + a * (d - b)
  OBVIOUS
<1>6. c * d > MaxCells
  BY <1>2, <1>4, <1>5
<1> QED BY <1>6 DEF TooLarge

-----------------------------------------------------------------------------
(* An upload, counted at the request and parsed by the worker.              *)

\* The lines of a file are a sequence.
LEMMA LinesOfCsv ==
  ASSUME NEW f \in CsvFiles
  PROVE  /\ Len(f.lines) \in Nat /\ \A i \in 1 .. Len(f.lines) : f.lines[i] \in LineKinds
         /\ (f.lines # <<>> => Len(f.lines) >= 1)
         /\ f.columns \in Nat /\ f.columns >= 1 /\ f.ext = "csv" /\ ~ Broken(f)
<1>1. f \in [ext : {"csv"}, lines : BoundedSeq(LineKinds, MaxLines), ended : BOOLEAN,
             columns : 1 .. MaxColumns, injection : BOOLEAN]
  BY DEF CsvFiles
<1>2. PICK m \in 0 .. MaxLines : f.lines \in [1 .. m -> LineKinds]
  BY <1>1 DEF BoundedSeq, SeqOf
<1>3. f.lines \in Seq(LineKinds) /\ Len(f.lines) = m
  BY <1>2, FileAssumption
<1>4. f.columns \in Nat /\ f.columns >= 1 /\ f.ext = "csv"
  BY <1>1, FileAssumption
<1>5. ~ Broken(f)
  BY <1>1 DEF Broken
<1> QED BY <1>3, <1>4, <1>5

\* The true number of records is at most the number of line feeds from the
\* first line that has a byte on, where no record ends in a carriage return.
LEMMA FeedsCoverRecords ==
  ASSUME NEW f \in CsvFiles, Filled(f.lines) # {},
         \A i \in Filled(f.lines) : f.lines[i] # "return"
  PROVE  Records(f) \in Nat /\ Records(f) <= Feeds(f.lines, Min(Filled(f.lines)))
         /\ Feeds(f.lines, Min(Filled(f.lines))) \in Nat
<1> DEFINE lines == f.lines
           n == Len(lines)
           first == Min(Filled(lines))
           feeds == [i \in 1 .. n |-> LineFeeds(lines[i])]
           S == first .. n
           P == {i \in 1 .. n : lines[i] \in {"record", "quoted", "return"}}
<1>1. n \in Nat /\ Filled(lines) \in SUBSET Nat /\ f.ext = "csv"
  BY LinesOfCsv DEF Filled
<1>2. first \in Filled(lines) /\ \A y \in Filled(lines) : first <= y
  BY <1>1, MinIsLeast
<1>3. first \in 1 .. n
  BY <1>2 DEF Filled
<1>4. P \subseteq Filled(lines)
  BY DEF Filled
<1>5. P \in SUBSET S
  BY <1>1, <1>2, <1>3, <1>4
<1>6. IsFiniteSet(S)
  <2>1. first \in Int /\ n \in Int
    BY <1>1, <1>3
  <2> HIDE DEF first
  <2> QED BY <2>1, FS_Interval
<1>7. \A i \in S : feeds[i] \in Nat
  BY <1>1, <1>3 DEF LineFeeds
<1>8. \A i \in P : feeds[i] >= 1
  BY <1>4 DEF LineFeeds
<1>9. Records(f) = Cardinality(P) /\ Feeds(lines, first) = SumFunctionOnSet(feeds, S)
  BY <1>1 DEF Records, Feeds
<1> HIDE DEF P, S, feeds, first
<1>10. IsFiniteSet(P) /\ Cardinality(P) \in Nat
  BY <1>5, <1>6, FS_Subset, FS_CardinalityType
<1>11. Cardinality(P) <= SumFunctionOnSet(feeds, S) /\ SumFunctionOnSet(feeds, S) \in Nat
  BY <1>5, <1>6, <1>7, <1>8, SumAtLeastCount, SumNat
<1>12. Records(f) \in Nat /\ Records(f) <= Feeds(lines, first) /\ Feeds(lines, first) \in Nat
  BY <1>9, <1>10, <1>11
<1> QED BY <1>12 DEF first

\* Without quoted line feeds and blank lines the count is at most the true one.
LEMMA PlainLinesCounted ==
  ASSUME NEW f \in CsvFiles, f.lines # <<>>,
         \A i \in 1 .. Len(f.lines) : f.lines[i] \in {"record", "return"}
  PROVE  /\ Min(Filled(f.lines)) = 1 /\ Records(f) \in Nat /\ PhysicalLines(f, 1) \in Nat
         /\ PhysicalLines(f, 1) <= Records(f)
<1> DEFINE lines == f.lines
           n == Len(lines)
           feeds == [i \in 1 .. n |-> LineFeeds(lines[i])]
           S == 1 .. n
<1>1. n \in Nat /\ n >= 1 /\ f.ext = "csv"
  BY LinesOfCsv
<1>2. Filled(lines) = S
  BY DEF Filled
<1>3. Min(Filled(lines)) = 1
  BY <1>1, <1>2, MinIsLeast
<1>4. IsFiniteSet(S) /\ Cardinality(S) = n
  BY <1>1, FS_Interval
<1>5. Records(f) = n
  <2>1. {i \in 1 .. n : lines[i] \in {"record", "quoted", "return"}} = S
    OBVIOUS
  <2> QED BY <1>1, <1>4, <2>1 DEF Records
<1>6. Feeds(lines, 1) = SumFunctionOnSet(feeds, S)
  BY DEF Feeds
<1>7. \A i \in S : feeds[i] \in Nat /\ feeds[i] <= 1 /\ (lines[i] = "return" => feeds[i] = 0)
  BY DEF LineFeeds
<1>8. CASE f.ended /\ lines[n] = "return"
  <2> DEFINE P == 1 .. n - 1
  <2>1. P \in SUBSET S /\ (\A i \in P : feeds[i] <= 1) /\ (\A i \in S \ P : feeds[i] = 0)
    <3>1. P \in SUBSET S
      BY <1>1
    <3>2. \A i \in S \ P : i = n
      BY <1>1
    <3>3. feeds[n] = 0
      <4>1. n \in S
        BY <1>1
      <4> HIDE DEF S, feeds, n
      <4> QED BY <1>7, <1>8, <4>1
    <3> QED BY <1>7, <3>1, <3>2, <3>3
  <2>2. IsFiniteSet(P) /\ Cardinality(P) = n - 1
    <3>1. n - 1 \in Int /\ 1 \in Int /\ n - 1 >= 0
      BY <1>1
    <3>2. IsFiniteSet(P) /\ Cardinality(P) = IF 1 > n - 1 THEN 0 ELSE n - 1 - 1 + 1
      BY <3>1, FS_Interval
    <3> QED BY <3>1, <3>2
  <2>3. \A i \in S : feeds[i] \in Nat
    BY <1>7
  <2> HIDE DEF P, S, feeds
  <2>4. SumFunctionOnSet(feeds, S) <= n - 1 /\ SumFunctionOnSet(feeds, S) \in Nat
    BY <1>4, <2>1, <2>2, <2>3, SumAtMostCount, SumNat
  <2>5. PhysicalLines(f, 1) = Feeds(lines, 1) + 1
    BY <1>8 DEF PhysicalLines
  <2> QED BY <1>1, <1>3, <1>5, <1>6, <2>4, <2>5
<1>9. CASE ~(f.ended /\ lines[n] = "return")
  <2>1. (\A i \in S : feeds[i] <= 1) /\ (\A i \in S \ S : feeds[i] = 0) /\ (\A i \in S : feeds[i] \in Nat)
    BY <1>7
  <2>2. S \in SUBSET S
    OBVIOUS
  <2> HIDE DEF S, feeds
  <2>3. SumFunctionOnSet(feeds, S) <= n /\ SumFunctionOnSet(feeds, S) \in Nat
    BY <1>4, <2>1, <2>2, SumAtMostCount, SumNat
  <2>4. PhysicalLines(f, 1) = Feeds(lines, 1)
    BY <1>9 DEF PhysicalLines
  <2> QED BY <1>1, <1>3, <1>5, <1>6, <2>3, <2>4
<1> QED BY <1>8, <1>9

\* The extents of a workbook are numbers.
LEMMA ExtentsOfWorkbook ==
  ASSUME NEW f \in Workbooks
  PROVE  /\ f.ext = "xlsx" /\ ~ Broken(f) /\ Records(f) = f.rows /\ f.rows \in Nat
         /\ f.columns \in Nat /\ f.columns >= 1
         /\ f.dimension # Unknown =>
              /\ f.dimension[1] \in Nat /\ f.dimension[1] >= 1
              /\ f.dimension[2] \in Nat /\ f.dimension[2] >= 1
<1>1. /\ f.ext = "xlsx" /\ f.columns \in 1 .. MaxColumns /\ f.rows \in 0 .. MaxLines
      /\ f.dimension \in ((1 .. MaxColumns) \X (1 .. MaxLines)) \cup {Unknown}
  BY DEF Workbooks
<1>2. ~ Broken(f)
  BY DEF Workbooks, Broken
<1>3. f.dimension # Unknown => f.dimension[1] \in 1 .. MaxColumns /\ f.dimension[2] \in 1 .. MaxLines
  BY <1>1
<1> QED BY <1>1, <1>2, <1>3, FileAssumption DEF Records

\* What is counted too large at the request.
CountedTooLarge(f) == Measure(f) # Unknown /\ TooLarge(Measure(f)[1] - 1, Measure(f)[2])

\* An ordinary file whose size could be counted, and that is too large when
\* parsed, was counted too large.
LEMMA OrdinaryCountsHigh ==
  ASSUME NEW f \in Files, Ordinary(f), Measure(f) # Unknown, ~ Unparsable(f),
         TooLarge(Parsed(f).participants, Parsed(f).timesteps)
  PROVE  CountedTooLarge(f)
<1>1. CASE f \in CsvFiles
  <2> DEFINE first == Min(Filled(f.lines))
  <2>1. f.ext = "csv" /\ f.columns \in Nat /\ f.columns >= 1
    BY <1>1, LinesOfCsv
  <2>2. Filled(f.lines) # {} /\ f.lines[first] = "record" /\ \A i \in Filled(f.lines) : f.lines[i] # "return"
    BY <2>1 DEF Ordinary
  <2>3. Records(f) \in Nat /\ Records(f) <= Feeds(f.lines, first) /\ Feeds(f.lines, first) \in Nat
    BY <1>1, <2>2, FeedsCoverRecords
  <2>4. HeaderFields(f, first) = f.columns
    BY <2>2 DEF HeaderFields
  <2>5. Measure(f) = <<f.columns, PhysicalLines(f, first) - 1>>
    BY <2>1, <2>2, <2>4 DEF Measure, MeasureCsv
  <2>6. PhysicalLines(f, first) \in Nat /\ Records(f) <= PhysicalLines(f, first)
    BY <2>3 DEF PhysicalLines
  <2>7. TooLarge(f.columns - 1, Records(f) - 1)
    BY DEF Parsed
  <2> HIDE DEF first
  <2>8. TooLarge(f.columns - 1, PhysicalLines(f, first) - 1)
    BY <2>1, <2>3, <2>6, <2>7, TooLargeGrows
  <2> QED BY <2>5, <2>8 DEF CountedTooLarge
<1>2. CASE f \in Workbooks
  <2>1. /\ f.ext = "xlsx" /\ ~ Broken(f) /\ Records(f) = f.rows /\ f.rows \in Nat
        /\ f.columns \in Nat /\ f.columns >= 1
    BY <1>2, ExtentsOfWorkbook
  <2>2. f.dimension # Unknown /\ Measure(f) = <<f.dimension[1], f.dimension[2] - 1>>
    BY <2>1 DEF Measure, MeasureXlsx
  <2>3. f.dimension[1] \in Nat /\ f.dimension[2] \in Nat
    BY <1>2, <2>2, ExtentsOfWorkbook
  <2>4. f.dimension[1] >= f.columns /\ f.dimension[2] >= f.rows
    BY <2>1, <2>2 DEF Ordinary
  <2>5. TooLarge(f.columns - 1, f.rows - 1)
    BY <2>1 DEF Parsed
  <2>6. TooLarge(f.dimension[1] - 1, f.dimension[2] - 1)
    BY <2>1, <2>3, <2>4, <2>5, TooLargeGrows
  <2> QED BY <2>2, <2>6 DEF CountedTooLarge
<1>3. CASE f \in Unreadable
  BY <1>3 DEF Unreadable, Unparsable, Broken
<1> QED BY <1>1, <1>2, <1>3 DEF Files

\* What makes the count higher than the data.
Inflated(f) ==
  \/ f.ext = "csv" /\ \E i \in 1 .. Len(f.lines) : f.lines[i] \in {"quoted", "empty", "spaces"}
  \/ f.ext = "xlsx" /\ (f.dimension[1] > f.columns \/ f.dimension[2] > f.rows)

\* A file that is counted too large, and can be parsed, is too large, unless
\* something in it is counted that is no data.
LEMMA CountedIsTooLarge ==
  ASSUME NEW f \in Files, CountedTooLarge(f), ~ Unparsable(f), ~ Inflated(f)
  PROVE  TooLarge(Parsed(f).participants, Parsed(f).timesteps)
<1>1. CASE f \in CsvFiles
  <2>1. /\ f.ext = "csv" /\ f.columns \in Nat /\ f.columns >= 1 /\ Len(f.lines) \in Nat
        /\ \A i \in 1 .. Len(f.lines) : f.lines[i] \in LineKinds
    BY <1>1, LinesOfCsv
  <2>2. \A i \in 1 .. Len(f.lines) : f.lines[i] \in {"record", "return"}
    BY <2>1 DEF Inflated, LineKinds
  <2>3. Filled(f.lines) # {} /\ HeaderFields(f, Min(Filled(f.lines))) # Unknown
    BY <2>1 DEF CountedTooLarge, Measure, MeasureCsv
  <2>4. f.lines # <<>>
    BY <2>3 DEF Filled
  <2>5. /\ Min(Filled(f.lines)) = 1 /\ Records(f) \in Nat /\ PhysicalLines(f, 1) \in Nat
        /\ PhysicalLines(f, 1) <= Records(f)
    BY <1>1, <2>2, <2>4, PlainLinesCounted
  <2>6. Len(f.lines) >= 1
    BY <1>1, <2>4, LinesOfCsv
  <2>7. f.lines[1] \in {"record", "return"}
    BY <2>1, <2>2, <2>6
  <2>8. HeaderFields(f, 1) = f.columns
    BY <2>3, <2>5, <2>7 DEF HeaderFields
  <2>9. Measure(f) = <<f.columns, PhysicalLines(f, 1) - 1>>
    BY <2>1, <2>3, <2>5, <2>8 DEF Measure, MeasureCsv
  <2>10. TooLarge(f.columns - 1, PhysicalLines(f, 1) - 1)
    BY <2>9 DEF CountedTooLarge
  <2>11. TooLarge(f.columns - 1, Records(f) - 1)
    BY <2>1, <2>5, <2>10, TooLargeGrows
  <2> QED BY <2>11 DEF Parsed
<1>2. CASE f \in Workbooks
  <2>1. /\ f.ext = "xlsx" /\ ~ Broken(f) /\ Records(f) = f.rows /\ f.rows \in Nat
        /\ f.columns \in Nat /\ f.columns >= 1
    BY <1>2, ExtentsOfWorkbook
  <2>2. f.dimension # Unknown /\ Measure(f) = <<f.dimension[1], f.dimension[2] - 1>>
    BY <2>1 DEF CountedTooLarge, Measure, MeasureXlsx
  <2>3. /\ f.dimension[1] \in Nat /\ f.dimension[1] >= 1
        /\ f.dimension[2] \in Nat /\ f.dimension[2] >= 1
    BY <1>2, <2>2, ExtentsOfWorkbook
  <2>4. f.dimension[1] <= f.columns /\ f.dimension[2] <= f.rows
    BY <2>1, <2>3 DEF Inflated
  <2>5. TooLarge(f.dimension[1] - 1, f.dimension[2] - 1)
    BY <2>2 DEF CountedTooLarge
  <2>6. TooLarge(f.columns - 1, f.rows - 1)
    BY <2>1, <2>3, <2>4, <2>5, TooLargeGrows
  <2> QED BY <2>1, <2>6 DEF Parsed
<1>3. CASE f \in Unreadable
  BY <1>3 DEF Unreadable, Unparsable, Broken
<1> QED BY <1>1, <1>2, <1>3 DEF Files

-----------------------------------------------------------------------------
(* The invariant of both sources.                                           *)

\* What the request and the worker know of the upload is what it holds: past the
\* request it has content and was not counted too large, past the parser the
\* matrix is its own, and the last count decided.
FileInv ==
  /\ file \in Files \cup {NoFile}
  /\ file = NoFile => stage = "uploaded"
  /\ stage = "refused" => ~ HasContent(file) \/ CountedTooLarge(file)
  /\ stage \in {"queued", "failed", "loaded", "too_large", "handed"} =>
       shape = Measure(file) /\ ~ CountedTooLarge(file)
  /\ stage \in {"loaded", "too_large", "handed"} => ~ Unparsable(file) /\ matrix = Parsed(file)
  /\ stage = "too_large" => TooLarge(matrix.participants, matrix.timesteps)

InputInv == CrmInv /\ FileInv

\* It holds when the source is chosen.
LEMMA InputInitially == FileInit => InputInv
BY CrmInitially DEF FileInit, InputInv, FileInv

\* Every step of either source keeps it.
LEMMA InputStep == InputInv /\ [FileNext]_<<vars, fileVars>> => InputInv'
<1> SUFFICES ASSUME InputInv, [FileNext]_<<vars, fileVars>> PROVE InputInv'
  OBVIOUS
<1>1. CASE file = NoFile /\ Next /\ UNCHANGED fileVars
  <2>1. CrmInv'
    BY <1>1, CrmStep DEF InputInv
  <2>2. FileInv'
    BY <1>1 DEF InputInv, FileInv, fileVars
  <2> QED BY <2>1, <2>2 DEF InputInv
<1>2. ASSUME file # NoFile, AcceptUpload \/ LoadFile \/ CheckSize, UNCHANGED vars PROVE InputInv'
  <2>1. CrmInv'
    BY <1>2, CrmStep DEF InputInv
  <2>2. FileInv /\ file' = file /\ file # NoFile
    BY <1>2 DEF InputInv, AcceptUpload, LoadFile, CheckSize
  <2>3. CASE AcceptUpload
    <3>1. CASE ~ HasContent(file)
      <4>1. stage' = "refused"
        BY <2>3, <3>1 DEF AcceptUpload
      <4> QED BY <2>1, <2>2, <3>1, <4>1 DEF InputInv, FileInv
    <3>2. CASE HasContent(file)
      <4>1. shape' = Measure(file) /\ stage' = IF CountedTooLarge(file) THEN "refused" ELSE "queued"
        BY <2>3, <3>2 DEF AcceptUpload, CountedTooLarge
      <4> QED BY <2>1, <2>2, <4>1 DEF InputInv, FileInv
    <3> QED BY <3>1, <3>2
  <2>4. CASE LoadFile
    BY <2>1, <2>2, <2>4 DEF InputInv, FileInv, LoadFile
  <2>5. CASE CheckSize
    BY <2>1, <2>2, <2>5 DEF InputInv, FileInv, CheckSize
  <2> QED BY <1>2, <2>3, <2>4, <2>5
<1>3. CASE UNCHANGED <<vars, fileVars>>
  <2>1. CrmInv'
    BY <1>3, CrmStep DEF InputInv
  <2>2. FileInv'
    BY <1>3 DEF InputInv, FileInv, fileVars
  <2> QED BY <2>1, <2>2 DEF InputInv
<1> QED BY <1>1, <1>2, <1>3 DEF FileNext

\* So it holds throughout.
LEMMA InputInvariant == InputSpec => []InputInv
<1> QED BY InputInitially, InputStep, PTL DEF InputSpec

\* What the solver is given of the CRM is what was read (crm_timeseries.py): each
\* reading once, all injection, no participant without a reading, whatever is
\* committed between the three statements.
THEOREM InputIsFaithful == InputSpec => []InputFaithful
<1>1. InputInv => InputFaithful
  BY FaithfulHolds DEF InputInv
<1> QED BY <1>1, InputInvariant, PTL

\* A generation whose table is not touched is not failed for its data, and its
\* warnings are the gaps that were filled (evaluate, run twice on one table).
THEOREM QuietRunsAgree == InputSpec => []QuietRunAgrees
<1>1. InputInv => QuietRunAgrees
  BY QuietHolds DEF InputInv
<1> QED BY <1>1, InputInvariant, PTL

\* The count of upload_shape.py and the worker's parser decide alike: no ordinary
\* file is found too large after it was counted and accepted, and none that fits
\* is refused unless something in it is counted that is no data.
THEOREM CountsAgree == InputSpec => []CountAgrees
<1>1. InputInv => CountErrsHigh
  <2> SUFFICES ASSUME InputInv, stage = "too_large", shape # Unknown, Ordinary(file) PROVE FALSE
    BY DEF CountErrsHigh
  <2>1. /\ file \in Files /\ shape = Measure(file) /\ ~ CountedTooLarge(file)
        /\ ~ Unparsable(file) /\ TooLarge(Parsed(file).participants, Parsed(file).timesteps)
    BY DEF InputInv, FileInv
  <2> QED BY <2>1, OrdinaryCountsHigh
<1>2. InputInv => NotRefusedAtLimit
  <2> SUFFICES ASSUME InputInv, stage = "refused", ~ Unparsable(file), ~ Inflated(file)
               PROVE  TooLarge(Parsed(file).participants, Parsed(file).timesteps)
    BY DEF NotRefusedAtLimit, Inflated
  <2>1. file \in Files /\ (~ HasContent(file) \/ CountedTooLarge(file))
    BY DEF InputInv, FileInv
  <2>2. HasContent(file)
    <3> SUFFICES ASSUME file.ext = "csv", file.lines = <<>> PROVE FALSE
      BY DEF HasContent
    <3>1. {i \in 1 .. Len(file.lines) : file.lines[i] \in {"record", "quoted", "return"}} = {}
      OBVIOUS
    <3>2. Records(file) = 0
      BY <3>1, FS_EmptySet DEF Records
    <3> QED BY <3>2 DEF Unparsable
  <2> QED BY <2>1, <2>2, CountedIsTooLarge
<1>3. InputInv => CountAgrees
  BY <1>1, <1>2 DEF CountAgrees
<1> QED BY <1>3, InputInvariant, PTL

-----------------------------------------------------------------------------
(* The state stays well formed.                                             *)

\* A summary counts in natural numbers.
LEMMA SummaryTypes ==
  ASSUME NEW tab \in Tables
  PROVE  \A e \in DOMAIN PerEan(tab) : PerEan(tab)[e] \in Coverages
<1> SUFFICES ASSUME NEW e \in DOMAIN PerEan(tab) PROVE PerEan(tab)[e] \in Coverages
  OBVIOUS
<1> DEFINE n == [t \in Times |-> tab[<<e, t>>].n]
           drawn == [t \in Times |-> tab[<<e, t>>].n * tab[<<e, t>>].gross]
           fed == [t \in Times |-> tab[<<e, t>>].n * tab[<<e, t>>].inj]
           seen == {t \in Times : tab[<<e, t>>].n > 0}
<1>1. e \in Eans
  BY DEF PerEan
<1>2. PerEan(tab)[e] = [row_count |-> SumFunction(n), distinct_ts |-> Cardinality(seen),
                        consumption_kwh |-> SumFunction(drawn), injection_kwh |-> SumFunction(fed)]
  BY DEF PerEan
<1>3. ASSUME NEW t \in Times PROVE n[t] \in Nat /\ drawn[t] \in Nat /\ fed[t] \in Nat
  <2>1. tab[<<e, t>>].n \in Nat /\ tab[<<e, t>>].gross \in Nat /\ tab[<<e, t>>].inj \in Nat
    BY <1>1, ReadingTypes
  <2>2. \A x, y \in Nat : x * y \in Nat
    OBVIOUS
  <2> QED BY <2>1, <2>2
<1>4. DOMAIN n = Times /\ DOMAIN drawn = Times /\ DOMAIN fed = Times
  OBVIOUS
<1>5. Cardinality(seen) \in Nat
  BY CrmInputAssumption, FS_Subset, FS_CardinalityType
<1> HIDE DEF n, drawn, fed, seen
<1>6. SumFunction(n) \in Nat /\ SumFunction(drawn) \in Nat /\ SumFunction(fed) \in Nat
  BY <1>3, <1>4, SumDomain, SumNat, CrmInputAssumption
<1> QED BY <1>2, <1>5, <1>6 DEF Coverages

\* A gap is never negative, whatever grid the coverage is compared with.
LEMMA WarningTypes ==
  ASSUME NEW cov, DOMAIN cov \subseteq Eans, \A e \in DOMAIN cov : cov[e] \in Coverages,
         NEW grid \in Nat
  PROVE  /\ DOMAIN Warnings(cov, grid) \subseteq Eans
         /\ \A e \in DOMAIN Warnings(cov, grid) : Warnings(cov, grid)[e] \in Nat \ {0}
<1>1. DOMAIN Warnings(cov, grid) = Incomplete(cov, grid) /\ Incomplete(cov, grid) \subseteq DOMAIN cov
  BY DEF Warnings, Incomplete
<1>2. ASSUME NEW e \in Incomplete(cov, grid) PROVE Warnings(cov, grid)[e] \in Nat \ {0}
  <2>1. e \in DOMAIN cov /\ cov[e].distinct_ts < grid
    BY DEF Incomplete
  <2>2. cov[e].distinct_ts \in Nat
    BY <2>1 DEF Coverages
  <2>3. Warnings(cov, grid)[e] = grid - cov[e].distinct_ts
    BY DEF Warnings
  <2> QED BY <2>1, <2>2, <2>3
<1> QED BY <1>1, <1>2

\* The grid is a natural number of timestamps.
LEMMA GridTypes == ASSUME NEW tab PROVE GridSize(tab) \in Nat
BY CrmInputAssumption, FS_Subset, FS_CardinalityType DEF GridSize, Stamps

\* It holds at the start.
LEMMA TypesInitially == Init => TypeOK
<1> SUFFICES ASSUME Init PROVE TypeOK
  OBVIOUS
<1>1. crm \in Tables /\ rows \in Tables /\ DOMAIN cover \subseteq Eans
  BY CrmInitially DEF CrmInv, CrmTypes
<1>2. \A e \in DOMAIN cover : FALSE
  BY DEF Init
<1>3. \A e \in DOMAIN warnings : FALSE
  BY DEF Init
<1>4. verdict.blockers = {} /\ verdict.consumer_eans = {}
  BY DEF Init, NoVerdict
<1>5. DOMAIN input.C = {} /\ DOMAIN input.VA = {}
  BY DEF Init, NoInput
<1>6. changes \in 0 .. MaxChanges /\ faults \in 0 .. MaxFaults /\ pc = "idle"
  <2>1. MaxChanges \in Nat /\ MaxFaults \in Nat
    BY CrmInputAssumption
  <2> QED BY <2>1 DEF Init
<1>7. touched \in BOOLEAN
  BY DEF Init
<1> QED BY <1>1, <1>2, <1>3, <1>4, <1>5, <1>6, <1>7 DEF TypeOK

\* Every step keeps it.
LEMMA TypesStep == CrmInv /\ CrmInv' /\ TypeOK /\ [Next]_vars => TypeOK'
<1> SUFFICES ASSUME CrmInv, CrmInv', TypeOK, [Next]_vars PROVE TypeOK'
  OBVIOUS
<1>0. /\ crm' \in Tables /\ rows' \in Tables /\ DOMAIN cover' \subseteq Eans
      /\ verdict'.consumer_eans \subseteq Eans
  BY DEF CrmInv, CrmTypes
<1> USE CrmInputAssumption
<1>1. ASSUME NEW e \in Eans, NEW ts \in (SUBSET Times) \ {{}}, NEW g \in Energy, NEW i \in Energy,
             Import(e, ts, g, i)
      PROVE  TypeOK'
  BY <1>0, <1>1 DEF Import, TypeOK
<1>2. ASSUME NEW e \in Eans, DropMeter(e) PROVE TypeOK'
  BY <1>0, <1>2 DEF DropMeter, TypeOK
<1>3. CASE RefuseRequest
  BY <1>0, <1>3 DEF RefuseRequest, TypeOK, Over
<1>4. CASE AcceptRequest
  BY <1>0, <1>4 DEF AcceptRequest, TypeOK, Reading
<1>5. CASE ApiSummarizes
  <2>1. \A e \in DOMAIN cover' : cover'[e] \in Coverages
    BY <1>5, SummaryTypes DEF ApiSummarizes, SummarizeEans, TypeOK
  <2> QED BY <1>0, <1>5, <2>1 DEF ApiSummarizes, SummarizeEans, TypeOK, Reading
<1>6. CASE ApiDecides
  <2>1. verdict'.blockers \subseteq Causes
    BY <1>6 DEF ApiDecides, Evaluate, Blockers, Causes
  <2>2. /\ DOMAIN warnings' \subseteq Eans
        /\ \A e \in DOMAIN warnings' : warnings'[e] \in Nat \ {0}
    <3>1. CASE warnings' = warnings
      BY <3>1 DEF TypeOK
    <3>2. CASE warnings' = Warnings(cover, GridSize(crm))
      BY <3>2, WarningTypes, GridTypes DEF TypeOK
    <3> QED BY <1>6, <3>1, <3>2 DEF ApiDecides
  <2>3. pc' \in Reading \cup Over
    BY <1>6 DEF ApiDecides, Reading, Over
  <2>4. UNCHANGED <<cover, input, changes, faults, touched>>
    BY <1>6 DEF ApiDecides
  <2> QED BY <1>0, <2>1, <2>2, <2>3, <2>4 DEF TypeOK
<1>7. CASE WorkerSummarizes
  <2>1. \A e \in DOMAIN cover' : cover'[e] \in Coverages
    BY <1>7, SummaryTypes DEF WorkerSummarizes, SummarizeEans, TypeOK
  <2> QED BY <1>0, <1>7, <2>1 DEF WorkerSummarizes, SummarizeEans, NoVerdict, TypeOK, Reading
<1>8. CASE WorkerDecides
  <2>1. verdict'.blockers \subseteq Causes
    BY <1>8 DEF WorkerDecides, Evaluate, Blockers, Causes
  <2>2. pc' \in Reading \cup Over
    BY <1>8 DEF WorkerDecides, Reading, Over
  <2> QED BY <1>0, <1>8, <2>1, <2>2 DEF WorkerDecides, TypeOK
<1>9. CASE FetchRows
  BY <1>0, <1>9 DEF FetchRows, TypeOK, Reading
<1>10. CASE ReadFails
  BY <1>0, <1>10 DEF ReadFails, TypeOK, Reading
<1>11. CASE BuildInput
  <2>1. DOMAIN input'.C \subseteq Eans /\ DOMAIN input'.VA \subseteq Times
    <3>1. CASE input' = input
      BY <3>1 DEF TypeOK
    <3>2. CASE input' = RawData(rows, verdict.consumer_eans)
      BY <3>2 DEF RawData, Production, Stamps, TypeOK
    <3> QED BY <1>11, <3>1, <3>2 DEF BuildInput
  <2>2. pc' \in Over
    BY <1>11 DEF BuildInput, Over
  <2> QED BY <1>0, <1>11, <2>1, <2>2 DEF BuildInput, TypeOK
<1>12. CASE UNCHANGED vars
  BY <1>12 DEF vars, TypeOK
<1> QED BY <1>1, <1>2, <1>3, <1>4, <1>5, <1>6, <1>7, <1>8, <1>9, <1>10, <1>11, <1>12 DEF Next

\* The state of a run that reads the CRM stays well formed; in particular no
\* reported gap is negative, although the two statements of a summary
\* (crm_meter_repository.summarize) may see different tables.
THEOREM InputIsWellFormed == InputSpec => []TypeOK
<1>1. FileInit => TypeOK
  BY TypesInitially DEF FileInit
<1>2. InputInv /\ InputInv' /\ TypeOK /\ [FileNext]_<<vars, fileVars>> => TypeOK'
  BY TypesStep DEF InputInv, FileNext
<1> QED BY <1>1, <1>2, InputInvariant, PTL DEF InputSpec
=============================================================================
