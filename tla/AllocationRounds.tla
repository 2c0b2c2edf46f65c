-------------------------- MODULE AllocationRounds --------------------------
(***************************************************************************)
(* How an allocation key hands out the production of one time step, round  *)
(* after round (an Iteration in both algorithms): brute force's            *)
(* BruteForceGenerator, and OLAGSA's WarmStartSolver.solve_key.            *)
(*                                                                         *)
(* A round receives a share of the production and the surplus of the round *)
(* before, and splits them over the consumers, whose demand is what the    *)
(* earlier rounds have left. Of the three distribution functions and of    *)
(* the convex solve only this is kept: shares are not negative and sum to  *)
(* one. Energy is counted in units small enough to make every amount an    *)
(* integer.                                                                *)
(***************************************************************************)
EXTENDS Integers, FiniteSets

CONSTANTS
  RoundConsumers,
  MaxRounds,  \* iterations of a key
  MaxUnits    \* bound on a demand and on the production

ASSUME AllocationAssumption ==
  /\ IsFiniteSet(RoundConsumers) /\ RoundConsumers # {}
  /\ MaxRounds \in Nat \ {0}
  /\ MaxUnits \in Nat

VARIABLES
  demand,             \* C, the column of this time step
  production,         \* VA, the row of this time step
  round,              \* rounds begun
  unshared,           \* production that no round has received yet
  left,               \* energy of this round that is not allotted yet
  todo,               \* consumers that this round has not served yet
  round_consumption,  \* of each consumer, at the start of this round
  residual,           \* residual_volume of each consumer
  consumed,           \* energy_allocated_consumed of each, over all rounds
  used,               \* their sum
  round_surplus,      \* surplus of this round
  stopped             \* a round that could not be solved ended the key

roundVars == <<demand, production, round, unshared, left, todo, round_consumption,
               residual, consumed, used, round_surplus, stopped>>

TypeOK ==
  /\ demand \in [RoundConsumers -> Nat]
  /\ production \in Nat
  /\ round \in 0 .. MaxRounds
  /\ unshared \in Nat /\ left \in Nat /\ used \in Nat /\ round_surplus \in Nat
  /\ todo \subseteq RoundConsumers
  /\ round_consumption \in [RoundConsumers -> Nat]
  /\ residual \in [RoundConsumers -> Nat]
  /\ consumed \in [RoundConsumers -> Nat]
  /\ stopped \in BOOLEAN

RoundsInit ==
  /\ demand \in [RoundConsumers -> 0 .. MaxUnits]
  /\ production \in 0 .. MaxUnits
  /\ round = 0
  /\ unshared = production
  /\ left = 0
  /\ todo = {}
  /\ round_consumption = demand
  /\ residual = demand
  /\ consumed = [c \in RoundConsumers |-> 0]
  /\ used = 0
  /\ round_surplus = 0
  /\ stopped = FALSE

\* A plausible bug: the surplus of the round before is not handed on.
AvailableShareOnly(share) == share

\* VA * pct + surplus of the round before.
Available(share) == share + round_surplus

\* A plausible bug: every round starts from the whole demand.
NextConsumptionFromDemand == demand

\* The consumption of a round is the residual volume of the one before.
NextConsumption == residual

\* A plausible bug: the shares of the rounds do not sum to one.
ShareAllowedFreely(share) == TRUE

\* The shares of the rounds sum to one, so that the last takes the rest.
ShareAllowed(share) == round + 1 = MaxRounds => share = unshared

OpenRound(share) ==
  /\ ~stopped /\ todo = {} /\ round < MaxRounds
  /\ ShareAllowed(share)
  /\ round' = round + 1
  /\ unshared' = unshared - share
  /\ left' = Available(share)
  /\ round_surplus' = 0
  /\ round_consumption' = NextConsumption
  /\ todo' = RoundConsumers
  /\ UNCHANGED <<demand, production, residual, consumed, used, stopped>>

Larger(a, b) == IF a >= b THEN a ELSE b

\* One consumer receives its share of the round: what exceeds its consumption
\* is surplus, what is missing is its residual volume.
Allot(c, energy) ==
  /\ c \in todo
  /\ todo = {c} => energy = left
  /\ todo' = todo \ {c}
  /\ left' = left - energy
  /\ LET served == IF energy <= round_consumption[c] THEN energy ELSE round_consumption[c]
     IN  /\ consumed' = [consumed EXCEPT ![c] = @ + served]
         /\ used' = used + served
  /\ residual' = [residual EXCEPT ![c] = Larger(0, round_consumption[c] - energy)]
  /\ round_surplus' = round_surplus + Larger(0, energy - round_consumption[c])
  /\ UNCHANGED <<demand, production, round, unshared, round_consumption, stopped>>

\* OLAGSA: a solve that is not optimal ends the key before its round.
StopKey ==
  /\ ~stopped /\ todo = {} /\ round < MaxRounds
  /\ stopped' = TRUE
  /\ UNCHANGED <<demand, production, round, unshared, left, todo, round_consumption,
                 residual, consumed, used, round_surplus>>

RoundsNext ==
  \/ \E share \in 0 .. unshared : OpenRound(share)
  \/ \E c \in RoundConsumers, energy \in 0 .. left : Allot(c, energy)
  \/ StopKey

RoundsSpec == RoundsInit /\ [][RoundsNext]_roundVars

-----------------------------------------------------------------------------
(* Properties.                                                              *)

\* No energy is lost or made up between the rounds: what the consumers have
\* used, this round's surplus, what it still holds and what later rounds will
\* receive add up to the production.
EnergyConserved == used + round_surplus + left + unshared = production

\* A consumer is served no more than it asked for over all rounds, and what it
\* still misses is what the next round starts from.
DemandConserved ==
  \A c \in RoundConsumers :
    consumed[c] + (IF c \in todo THEN round_consumption[c] ELSE residual[c]) = demand[c]

RoundsComplete == round = MaxRounds /\ todo = {}

\* The figure by which keys are ranked, the surplus of the last round, is the
\* part of the production that nobody used.
LastSurplusIsUnused == RoundsComplete => round_surplus = production - used

\* Between the rounds of a key and at its end every unit of the production is
\* accounted for (generator.py:130-153, warm_start_solver.py:68-80).
EnergyAccounted == EnergyConserved /\ LastSurplusIsUnused

=============================================================================
