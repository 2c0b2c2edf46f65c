----------------------------- MODULE BruteForce -----------------------------
(***************************************************************************)
(* The brute-force enumeration (brute_force/_impl): every key of one, two  *)
(* or three iterations, each of which applies one of three distribution    *)
(* functions to its share of the production and to the surplus that the    *)
(* iteration before has left.                                              *)
(*                                                                         *)
(* The nested loops over shares and functions are free choices: a          *)
(* behaviour builds one key. Energy is a rational <<numerator,             *)
(* denominator>> in lowest terms: the floats of the code without their     *)
(* rounding.                                                               *)
(***************************************************************************)
EXTENDS Integers, SequencesExt

CONSTANTS
  NumConsumers,
  Horizon,      \* time steps
  MaxEnergy,    \* bound on every entry of C and VA
  Parts,        \* equal parts into which the production is cut; the code's 10
  Iterations    \* the values of nb_iterations

ASSUME BruteForceAssumption ==
  /\ {NumConsumers, Horizon, Parts} \subseteq Nat \ {0}
  /\ MaxEnergy \in Nat
  /\ Iterations \subseteq 1 .. 3

Consumers == 1 .. NumConsumers
Times     == 1 .. Horizon

VARIABLES
  C, VA,        \* consumption matrix, production profile
  split,        \* parts of the production that each iteration receives
  names,        \* distribution functions applied so far
  consumption,  \* of each consumer and time step, before the next iteration
  surplus,      \* of the last iteration, by time step
  percentages   \* consumer_percentages of the last iteration's summary

vars == <<C, VA, split, names, consumption, surplus, percentages>>

-----------------------------------------------------------------------------
(* Rationals.                                                               *)

GCD[p \in Nat \X Nat] == IF p[2] = 0 THEN p[1] ELSE GCD[<<p[2], p[1] % p[2]>>]

Abs(n) == IF n < 0 THEN -n ELSE n

Rat(n, d) == LET g == GCD[<<Abs(n), d>>] IN <<n \div g, d \div g>>

Zero == <<0, 1>>
One  == <<1, 1>>

a ++ b == LET g == GCD[<<a[2], b[2]>>]
          IN  Rat(a[1] * (b[2] \div g) + b[1] * (a[2] \div g), a[2] * (b[2] \div g))
a -- b == a ++ <<-b[1], b[2]>>
a ** b == LET p == Rat(a[1], b[2])  q == Rat(b[1], a[2])
          IN  Rat(p[1] * q[1], p[2] * q[2])
a // b == a ** <<b[2], b[1]>>

\* numpy.maximum(0.0, a)
Positive(a) == IF a[1] > 0 THEN a ELSE Zero

SumOver(f) == FoldLeft(LAMBDA sum, x : sum ++ x, Zero, f)

-----------------------------------------------------------------------------
(* The distribution functions: what a consumer is allotted at a time step,  *)
(* out of a profile of energy by time step.                                 *)

TotalAt(t) == SumOver([c \in Consumers |-> consumption[c][t]])

ConsumptionTotal == SumOver([c \in Consumers |-> SumOver(consumption[c])])

Share(c) == SumOver(consumption[c]) // ConsumptionTotal

egalitaire(profile) ==
  [c \in Consumers |-> [t \in Times |-> profile[t] ** <<1, NumConsumers>>]]

\* Without any demand the first consumer receives everything.
prorata_total(profile) ==
  [c \in Consumers |-> [t \in Times |->
     IF ConsumptionTotal = Zero THEN (IF c = 1 THEN profile[t] ELSE Zero)
                                ELSE profile[t] ** Share(c)]]

\* A plausible bug: the share of the whole demand at every time step.
prorata_by_total(profile) == prorata_total(profile)

\* Without demand at a time step the first consumer receives everything.
prorata(profile) ==
  [c \in Consumers |-> [t \in Times |->
     IF TotalAt(t) = Zero THEN (IF c = 1 THEN profile[t] ELSE Zero)
                          ELSE profile[t] ** (consumption[c][t] // TotalAt(t))]]

Distribute(algo, profile) ==
  CASE algo = "egalitaire"    -> egalitaire(profile)
    [] algo = "prorata_total" -> prorata_total(profile)
    [] algo = "prorata"       -> prorata(profile)

\* A plausible bug: related to the production, without the surplus carried.
CollapsedOverProduction(energy, profile) ==
  LET production == SumOver([t \in Times |-> <<VA[t], 1>>])
  IN  IF production = Zero THEN Zero ELSE energy // production

\* Iteration.summary: a share that varies with time is reported as the share
\* of the energy of all time steps.
Collapsed(energy, profile) ==
  IF SumOver(profile) = Zero THEN Zero ELSE energy // SumOver(profile)

Percentage(algo, profile, allotted, c) ==
  CASE algo = "egalitaire" -> <<1, NumConsumers>>
    [] algo = "prorata_total" ->
         IF ConsumptionTotal = Zero THEN (IF c = 1 THEN One ELSE Zero) ELSE Share(c)
    [] algo = "prorata" -> Collapsed(SumOver(allotted[c]), profile)

-----------------------------------------------------------------------------
\* The shares that the loops of generate enumerate.
Splits ==
  UNION { {s \in [1 .. n -> 0 .. Parts] : SumFunction(s) = Parts} : n \in Iterations }

Init ==
  /\ C \in [Consumers -> [Times -> 0 .. MaxEnergy]]
  /\ VA \in [Times -> 0 .. MaxEnergy]
  /\ split \in Splits
  /\ names = <<>>
  /\ consumption = [c \in Consumers |-> [t \in Times |-> <<C[c][t], 1>>]]
  /\ surplus = [t \in Times |-> Zero]
  /\ percentages = <<>>

\* A plausible bug: an iteration after the first receives only its share.
ProfileWithoutCarry(k) == [t \in Times |-> Rat(VA[t] * split[k], Parts)]

\* Energy of the k-th iteration: its share and the surplus of the one before.
Profile(k) == [t \in Times |-> Rat(VA[t] * split[k], Parts) ++ surplus[t]]

\* Applies a function to the next iteration, whose consumption becomes the
\* residual volume of each consumer.
Apply(algo) ==
  /\ Len(names) < Len(split)
  /\ LET profile == Profile(Len(names) + 1)
         allotted == Distribute(algo, profile)
     IN  /\ consumption' = [c \in Consumers |-> [t \in Times |->
                              Positive(consumption[c][t] -- allotted[c][t])]]
         /\ surplus' = [t \in Times |-> SumOver([c \in Consumers |->
                              Positive(allotted[c][t] -- consumption[c][t])])]
         /\ percentages' = [c \in Consumers |-> Percentage(algo, profile, allotted, c)]
  /\ names' = Append(names, algo)
  /\ UNCHANGED <<C, VA, split>>

Next == \E algo \in {"egalitaire", "prorata_total", "prorata"} : Apply(algo)

Spec == Init /\ [][Next]_vars

-----------------------------------------------------------------------------
(* Properties.                                                              *)

KeyComplete == Len(names) = Len(split)

PartsGiven == SumFunctionOnSet(split, 1 .. Len(names))

\* At every time step and after every iteration, what the consumers have used
\* and what is left as surplus add up to the production given to the
\* iterations so far: the assumption of AllocationRounds that a function hands
\* out its whole profile.
EnergyBalances ==
  \A t \in Times :
    surplus[t] ++ SumOver([c \in Consumers |-> <<C[c][t], 1>> -- consumption[c][t]])
      = Rat(VA[t] * PartsGiven, Parts)

\* At each time step, what the production exceeds the whole demand by.
Optimum == SumOver([t \in Times |->
  Positive(<<VA[t], 1>> -- SumOver([c \in Consumers |-> <<C[c][t], 1>>]))])

\* No key leaves less surplus than the optimum, and one that ends with prorata
\* leaves no more, whatever the iterations before have done: the ranking always
\* has an optimal key at its head.
ProrataLastIsOptimal ==
  KeyComplete =>
    /\ (SumOver(surplus) -- Optimum)[1] >= 0
    /\ names[Len(names)] = "prorata" => SumOver(surplus) = Optimum

\* The shares that a key reports for an iteration sum to one, except where
\* prorata has nothing to hand out and reports zeros.
SharesSumToOne ==
  names # <<>> =>
    \/ SumOver(percentages) = One
    \/ /\ names[Len(names)] = "prorata"
       /\ \A c \in Consumers : percentages[c] = Zero
       /\ \A t \in Times : surplus[t] = Zero

\* Every iteration of a key is sound: its energy balances and the shares it
\* reports are shares of the whole (functions.py, iteration.py).
SoundKey == EnergyBalances /\ SharesSumToOne

=============================================================================
