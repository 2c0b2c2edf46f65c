------------------------------ MODULE OlagsaGA ------------------------------
(***************************************************************************)
(* The control of the OLAGSA genetic search (olagsa/_impl/ga.py) and the   *)
(* choice of the keys that it returns (olagsa/algorithm.py).               *)
(*                                                                         *)
(* A candidate splits the production over the iterations of a key. What    *)
(* the search sees of it is kept: the species whose region contains its    *)
(* chromosome, how many of its iterations the convex solver solves, and    *)
(* its fitness. Random draws are free choices: mutation and crossover      *)
(* reach every point of the simplex.                                       *)
(***************************************************************************)
EXTENDS Integers, Sequences, FiniteSets, FiniteSetsExt, Functions

CONSTANTS
  Species,           \* number of regions of the simplex, species_waited
  Points,            \* regions that contain a point: two where they touch
  KeyIterations,     \* the values of num_key_iteration
  Patience,          \* the values of max_iteration_without_improvement
  PopulationSize,
  NumGeneration,
  Ponderation,       \* PONDERATION_EXCEDENT, the fitness of a surplus of 0
  Scale              \* makes fitness / size an integer, for every size

Ids == 1 .. Species

ASSUME OlagsaAssumption ==
  /\ Species \in Nat \ {0}
  /\ Points \subseteq (SUBSET Ids) \ {{}}
  /\ KeyIterations \subseteq 1 .. 3
  /\ PopulationSize \in Nat \ {0, 1}
  /\ Scale \in Nat \ {0} /\ \A n \in 1 .. 2 * PopulationSize : Scale % n = 0
  /\ Patience \cup {NumGeneration, Ponderation} \subseteq Nat \ {0}

VARIABLES
  pc,
  iterations,   \* num_key_iteration of this run
  patience,     \* max_iteration_without_improvement of this run
  species,      \* those still in the list, which is ordered by id
  individuals,  \* of each species, in the order of its list
  best,         \* best_fitness of each species
  stagnation,   \* iteration_without_improvement of each species
  children,     \* evaluated and not yet assigned to a species
  quota,        \* children that are still to be bred, by species
  generation,   \* _gen
  results,      \* number of solved iterations of each key returned, by species
  top, flat     \* history: best fitness so far, checks since it last rose

inputs == <<iterations, patience>>

vars == <<pc, inputs, species, individuals, best, stagnation, children,
          quota, generation, results, top, flat>>

-----------------------------------------------------------------------------
(* Candidates.                                                              *)

\* Fitness that _evaluate gives to a candidate whose solve is not optimal.
Infeasible == 100 * Ponderation

\* The outcomes of solve_genetic: it stops at the first iteration that is not
\* solved, and only a candidate whose iterations are all solved has a surplus.
Evaluations ==
  [solved : {iterations}, fitness : 1 .. Ponderation]
    \cup [solved : 0 .. iterations - 1, fitness : {Infeasible}]

\* A candidate drawn at random, and what _evaluate finds out about it.
Candidates == [within : Points, evaluation : Evaluations]

\* Crossover mixes and renormalises the genes of two parents, and mutation
\* replaces one: an offspring may be any candidate.
Offspring == Candidates

\* The member of S with k - 1 others before it.
Nth(S, before, k) ==
  CHOOSE x \in S : Cardinality({y \in S : <<y, x>> \in before}) = k - 1

\* individuals.sort(key=fitness, reverse=True), which is stable.
ByFitness(s) ==
  LET before == {p \in (DOMAIN s) \X (DOMAIN s) :
                   \/ s[p[1]].fitness > s[p[2]].fitness
                   \/ s[p[1]].fitness = s[p[2]].fitness /\ p[1] < p[2]}
  IN  [k \in DOMAIN s |-> s[Nth(DOMAIN s, before, k)]]

Populated == {s \in species : individuals[s] # <<>>}

\* A plausible bug: the bounds of a region are taken to be strict.
HomeStrict(child) ==
  LET fitting == {s \in species : child.within = {s}}
  IN  IF fitting = {} THEN 0 ELSE Min(fitting)

\* The first species of the list that contains the point, 0 for none.
Home(child) ==
  LET fitting == species \cap child.within
  IN  IF fitting = {} THEN 0 ELSE Min(fitting)

\* The individuals given, and behind them those children, in their order.
Joined(list, who) ==
  LET before == {p \in who \X who : p[1] < p[2]}
  IN  [k \in 1 .. Len(list) + Cardinality(who) |->
         IF k <= Len(list) THEN list[k]
         ELSE children[Nth(who, before, k - Len(list))].evaluation]

\* A plausible bug: without the break, a child joins every region it is in.
AssignedEverywhere(pool) ==
  [s \in Ids |-> Joined(pool[s], {i \in DOMAIN children : s \in children[i].within})]

Newcomers(s) == {i \in DOMAIN children : Home(children[i]) = s}

Assigned(pool) == [s \in Ids |-> Joined(pool[s], Newcomers(s))]

-----------------------------------------------------------------------------
Init ==
  /\ iterations \in KeyIterations
  /\ patience \in Patience
  /\ pc = IF iterations = 1 THEN "single" ELSE "populate"
  /\ species = Ids
  /\ individuals = [s \in Ids |-> <<>>]
  /\ best = [s \in Ids |-> 0]
  /\ stagnation = [s \in Ids |-> 0]
  /\ children = <<>>
  /\ quota = [s \in Ids |-> 0]
  /\ generation = 0
  /\ results = <<>>
  /\ top = [s \in Ids |-> 0]
  /\ flat = [s \in Ids |-> 0]

history == <<top, flat>>

\* A plausible bug: keys without an iteration are returned as well.
ReturnsAny(solved) == TRUE

\* Only keys with an iteration are returned.
Returns(solved) == solved > 0

\* The keys of the solutions that are returned.
Keys(solved) == [s \in {r \in DOMAIN solved : Returns(solved[r])} |-> solved[s]]

\* The only candidate of a key of one iteration is solved without a search.
SolveSingle ==
  /\ pc = "single"
  /\ \E e \in Evaluations : results' = Keys(<<e.solved>>)
  /\ pc' = "done"
  /\ UNCHANGED <<inputs, species, individuals, best, stagnation, children,
                 quota, generation, history>>

\* One random candidate of the first population, evaluated.
Populate ==
  /\ pc = "populate"
  /\ Len(children) < PopulationSize
  /\ \E c \in Candidates : children' = Append(children, c)
  /\ UNCHANGED <<pc, inputs, species, individuals, best, stagnation, quota,
                 generation, results, history>>

\* Some child fits into no species: _assign_species raises.
Lost == \E i \in DOMAIN children : Home(children[i]) = 0

\* The first population is divided over the species; each records its best.
FirstAssignment ==
  /\ pc = "populate"
  /\ Len(children) = PopulationSize
  /\ individuals' = IF Lost THEN individuals
                    ELSE [s \in Ids |-> ByFitness(Assigned(individuals)[s])]
  /\ best' = [s \in Ids |->
                IF individuals'[s] = <<>> THEN 0 ELSE individuals'[s][1].fitness]
  /\ top' = best'
  /\ children' = <<>>
  /\ pc' = IF Lost THEN "unassigned" ELSE "check"
  /\ UNCHANGED <<inputs, species, stagnation, quota, generation, results, flat>>

\* Counts towards the limit unless the best of the species has become lower.
NotImproved(s) == ByFitness(individuals[s])[1].fitness >= best[s]

\* A plausible bug: off by one.
AtLimitEarly(checks) == checks + 1 >= patience

AtLimit(checks) == checks >= patience

\* The search stops once no species of the list is below the limit.
CheckImprovement ==
  /\ pc = "check"
  /\ generation < NumGeneration
  /\ individuals' = [s \in Ids |-> ByFitness(individuals[s])]
  /\ stagnation' = [s \in Ids |->
       IF s \in Populated THEN (IF NotImproved(s) THEN stagnation[s] + 1 ELSE 0)
                          ELSE stagnation[s]]
  /\ best' = [s \in Ids |-> IF s \in Populated /\ ~NotImproved(s)
                            THEN individuals'[s][1].fitness ELSE best[s]]
  /\ flat' = [s \in Ids |-> IF s \in Populated /\ individuals'[s][1].fitness > top[s]
                            THEN 0 ELSE flat[s] + 1]
  /\ top' = [s \in Ids |-> IF s \in Populated THEN individuals'[s][1].fitness ELSE top[s]]
  /\ pc' = IF \A s \in species :
                s \in Populated /\ AtLimit(stagnation'[s])
           THEN "collect" ELSE "select"
  /\ UNCHANGED <<inputs, species, children, quota, generation, results>>

\* A plausible bug: reverse=True forgotten, so that the weaker half stays.
CullStrongest(s) ==
  IF Len(s) = 1 THEN s ELSE SubSeq(ByFitness(s), (Len(s) + 1) \div 2 + 1, Len(s))

\* _cull_weakest: the better half stays, and a single individual does.
Cull(s) ==
  IF Len(s) = 1 THEN s ELSE [i \in 1 .. Len(s) \div 2 |-> ByFitness(s)[i]]

\* Adjusted fitness, fitness / size before the culling, of the i-th that is
\* kept.
Adjusted(s, i) ==
  Cull(individuals[s])[i].fitness * (Scale \div Len(individuals[s]))

AdjustedSum(s) ==
  SumFunction([i \in DOMAIN Cull(individuals[s]) |-> Adjusted(s, i)])

AdjustedTotal == SumFunction([s \in Populated |-> AdjustedSum(s)])

\* A plausible bug: the ratio within the species instead of the population.
NumChildrenOfSpecies(s) == (Adjusted(s, 1) * PopulationSize) \div AdjustedSum(s)

\* int(ratio * population_size), the ratio being that of the best.
NumChildren(s) == (Adjusted(s, 1) * PopulationSize) \div AdjustedTotal

\* Empty species leave the list, the weak are culled, and the children are
\* divided over the species.
Select ==
  /\ pc = "select"
  /\ species' = Populated
  /\ individuals' = [s \in Ids |-> Cull(individuals[s])]
  /\ IF AdjustedTotal = 0
     THEN pc' = "collect" /\ UNCHANGED quota
     ELSE /\ quota' = [s \in Ids |-> IF s \in Populated THEN NumChildren(s) ELSE 0]
          /\ pc' = "breed"
  /\ UNCHANGED <<inputs, best, stagnation, children, generation, results, history>>

\* One child of the next species that still has some to breed.
Breed ==
  /\ pc = "breed"
  /\ \E s \in species :
        /\ quota[s] > 0
        /\ \A r \in species : quota[r] > 0 => s <= r
        /\ quota' = [quota EXCEPT ![s] = @ - 1]
  /\ \E c \in Offspring : children' = Append(children, c)
  /\ UNCHANGED <<pc, inputs, species, individuals, best, stagnation,
                 generation, results, history>>

\* The children join the species; one that fits into none ends the run.
AssignChildren ==
  /\ pc = "breed"
  /\ \A s \in Ids : quota[s] = 0
  /\ IF Lost
     THEN pc' = "unassigned" /\ UNCHANGED <<individuals, generation>>
     ELSE /\ individuals' = Assigned(individuals)
          /\ generation' = generation + 1
          /\ pc' = "check"
  /\ children' = <<>>
  /\ UNCHANGED <<inputs, species, best, stagnation, quota, results, history>>

SearchOver == \/ pc = "collect"
              \/ pc = "check" /\ generation = NumGeneration

\* The best individual of a species becomes its key, as far as it is solved;
\* a key without an iteration is left out.
Collect ==
  /\ SearchOver
  /\ individuals' = [s \in Ids |-> ByFitness(individuals[s])]
  /\ results' = Keys([s \in Populated |-> individuals'[s][1].solved])
  /\ pc' = "done"
  /\ UNCHANGED <<inputs, species, best, stagnation, children, quota,
                 generation, history>>

\* cvxpy raises in a solve.
SolverRaises ==
  /\ pc \in {"single", "populate", "breed"} \/ SearchOver
  /\ pc' = "raised"
  /\ UNCHANGED <<inputs, species, individuals, best, stagnation, children,
                 quota, generation, results, history>>

Next ==
  \/ SolveSingle \/ Populate \/ FirstAssignment \/ CheckImprovement \/ Select
  \/ Breed \/ AssignChildren \/ Collect \/ SolverRaises

Spec == Init /\ [][Next]_vars

-----------------------------------------------------------------------------
(* Properties.                                                              *)

Count == SumFunction([s \in Ids |-> Len(individuals[s])])

TopFitness(s) == ByFitness(individuals[s])[1].fitness

TypeOK ==
  /\ pc \in {"single", "populate", "check", "select", "breed", "collect", "done",
              "unassigned", "raised"}
  /\ iterations \in KeyIterations /\ patience \in Patience
  /\ species \subseteq Ids
  /\ \A s \in Ids : Range(individuals[s]) \subseteq Evaluations
  /\ \A s \in Ids : {best[s], stagnation[s], quota[s], top[s], flat[s]} \subseteq Nat
  /\ \A i \in DOMAIN children :
       children[i].within \in Points /\ children[i].evaluation \in Evaluations
  /\ generation \in 0 .. NumGeneration
  /\ DOMAIN results \subseteq Ids /\ Range(results) \subseteq 0 .. iterations

\* A best individual may be one whose solve stopped half way, or at the very
\* first iteration (an infeasible candidate has the highest fitness of all).
\* Its key is then cut short, and a key without any iteration is not returned
\* (olagsa/algorithm.py:44-56).
NoEmptyKey == \A s \in DOMAIN results : results[s] > 0

\* A child that no species takes ends the run only when a species has died out
\* before, never because it lies where two regions touch (ga.py:220-233).
UnassignedOnlyAfterExtinction == pc = "unassigned" => species # Ids

\* A failed solve spoils its own key only, and a failed assignment is none of
\* geometry (ga.py:200, ga.py:350).
FailuresContained == NoEmptyKey /\ UnassignedOnlyAfterExtinction

\* The search never loses what it has found: no sort, cull or assignment
\* empties a species or lowers the fitness of its best individual.
BestKept ==
  [][\A s \in Populated :
       individuals'[s] # <<>> /\ (TopFitness(s))' >= TopFitness(s)]_vars

\* However the fitness is spread over the species and their individuals, no
\* generation breeds more than PopulationSize children.
BroodBounded ==
  pc = "breed" =>
    Len(children) + SumFunctionOnSet(quota, species) <= PopulationSize

\* Regions overlap where they touch, and every child still joins exactly one
\* species.
EachChildOnce ==
  [][pc = "breed" /\ pc' = "check" => Count' = Count + Len(children)]_vars

\* A search that stops before its last generation has given every species
\* patience checks.
PatienceKept == pc = "collect" => generation + 1 >= patience

\* The search keeps to what it was configured with: neither more children in a
\* generation nor fewer generations than its parameters say (ga.py:333-363).
SearchBudget == BroodBounded /\ PatienceKept

\* Refuted: what the parameter is documented to mean, a search
\* stops early only after patience generations in which no best rose.
StopsWhenStagnant ==
  pc = "collect" => \A s \in species : flat[s] >= patience

\* Refuted: what the comment in _assign_species says, an individual always has a
\* species.
AlwaysAssigned == pc # "unassigned"

\* Refuted: what a penalty on infeasible candidates is for, a
\* species with a feasible individual does not offer an infeasible one as best.
FeasibleFirst ==
  pc = "done" => \A s \in Populated :
    (\E i \in DOMAIN individuals[s] : individuals[s][i].solved = iterations)
       => individuals[s][1].solved = iterations

=============================================================================
