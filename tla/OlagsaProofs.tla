---------------------------- MODULE OlagsaProofs ----------------------------
(***************************************************************************)
(* The genetic search loses no child, no best and no bound, for every      *)
(* number of species, every geometry of their regions, every size of the   *)
(* population and every outcome of the solver.                             *)
(***************************************************************************)
EXTENDS OlagsaGA, Sums

-----------------------------------------------------------------------------
(* Places in an order.                                                      *)

\* before is a strict total order on S.
Orders(before, S) ==
  /\ \A x \in S : <<x, x>> \notin before
  /\ \A x, y \in S : x = y \/ <<x, y>> \in before \/ <<y, x>> \in before
  /\ \A x, y, z \in S : <<x, y>> \in before /\ <<y, z>> \in before => <<x, z>> \in before

Below(S, before, x) == {y \in S : <<y, x>> \in before}

\* A nonempty finite set has a last member.
LEMMA LastExists ==
  ASSUME NEW S, IsFiniteSet(S), S # {}, NEW before, Orders(before, S)
  PROVE  \E m \in S : \A y \in S : y = m \/ <<y, m>> \in before
<1> DEFINE Good == {T \in SUBSET S :
                      T = {} \/ \E m \in T : \A y \in T : y = m \/ <<y, m>> \in before}
<1>1. {} \in Good
  OBVIOUS
<1>2. ASSUME NEW T \in SUBSET S, NEW x \in T, T \ {x} \in Good PROVE T \in Good
  <2>1. CASE T \ {x} = {}
    <3>1. \A y \in T : y = x
      BY <2>1
    <3> QED BY <3>1
  <2>2. CASE T \ {x} # {}
    <3>1. PICK m \in T \ {x} : \A y \in T \ {x} : y = m \/ <<y, m>> \in before
      BY <1>2, <2>2
    <3>2. CASE <<m, x>> \in before
      <4>1. \A y \in T : y = x \/ <<y, x>> \in before
        BY <3>1, <3>2 DEF Orders
      <4> QED BY <4>1
    <3>3. CASE <<x, m>> \in before
      <4>1. \A y \in T : y = m \/ <<y, m>> \in before
        BY <3>1, <3>3
      <4> QED BY <4>1
    <3> QED BY <3>1, <3>2, <3>3 DEF Orders
  <2> QED BY <2>1, <2>2
<1> HIDE DEF Good
<1>3. S \in Good
  BY <1>1, <1>2, SubsetInduction
<1> QED BY <1>3 DEF Good

\* Every place up to the size of the set is taken.
LEMMA PlaceExists ==
  ASSUME NEW S, IsFiniteSet(S), NEW before, Orders(before, S)
  PROVE  \A k \in Nat : k < Cardinality(S) => \E x \in S : Cardinality(Below(S, before, x)) = k
<1> DEFINE Good == {T \in SUBSET S : \A k \in Nat : k < Cardinality(T) =>
                      \E x \in T : Cardinality(Below(T, before, x)) = k}
<1>1. ASSUME NEW T \in SUBSET S, \A U \in SUBSET T : U # T => U \in Good
      PROVE  T \in Good
  <2>1. IsFiniteSet(T) /\ Cardinality(T) \in Nat
    BY FS_Subset, FS_CardinalityType
  <2>2. CASE T = {}
    BY <2>2, FS_EmptySet
  <2>3. CASE T # {}
    <3>1. Orders(before, T)
      BY DEF Orders
    <3>2. PICK m \in T : \A y \in T : y = m \/ <<y, m>> \in before
      BY <2>1, <2>3, <3>1, LastExists
    <3>3. Below(T, before, m) = T \ {m}
      BY <3>1, <3>2 DEF Below, Orders
    <3>4. Cardinality(T \ {m}) = Cardinality(T) - 1
      BY <2>1, FS_RemoveElement
    <3>5. \A x \in T \ {m} : Below(T, before, x) = Below(T \ {m}, before, x)
      BY <3>1, <3>2 DEF Below, Orders
    <3>6. T \ {m} \in Good
      BY <1>1
    <3>7. ASSUME NEW k \in Nat, k < Cardinality(T)
          PROVE  \E x \in T : Cardinality(Below(T, before, x)) = k
      <4>1. CASE k = Cardinality(T) - 1
        BY <3>3, <3>4, <4>1
      <4>2. CASE k < Cardinality(T) - 1
        <5>1. PICK x \in T \ {m} : Cardinality(Below(T \ {m}, before, x)) = k
          BY <3>4, <3>6, <4>2
        <5> QED BY <3>5, <5>1
      <4> QED BY <2>1, <3>7, <4>1, <4>2
    <3> QED BY <3>7
  <2> QED BY <2>2, <2>3
<1> HIDE DEF Good
<1>2. S \in Good
  BY <1>1, StrongSubsetInduction
<1> QED BY <1>2 DEF Good

\* So Nth finds the member at a place, with as many before it.
LEMMA NthIsThere ==
  ASSUME NEW S, IsFiniteSet(S), NEW before, Orders(before, S), NEW k \in 1 .. Cardinality(S)
  PROVE  Nth(S, before, k) \in S /\ Cardinality(Below(S, before, Nth(S, before, k))) = k - 1
<1>1. Cardinality(S) \in Nat /\ k - 1 \in Nat /\ k - 1 < Cardinality(S)
  BY FS_CardinalityType
<1>2. \E x \in S : Cardinality(Below(S, before, x)) = k - 1
  BY <1>1, PlaceExists
<1> QED BY <1>2 DEF Nth, Below

-----------------------------------------------------------------------------
(* Lists of individuals.                                                    *)

Individuals == [solved : Nat, fitness : Nat \ {0}]

\* Indices are ordered as numbers are.
LEMMA IndicesOrdered ==
  ASSUME NEW S \in SUBSET Nat
  PROVE  Orders({p \in S \X S : p[1] < p[2]}, S)
BY DEF Orders

\* The order of the sort is a total one: ties are broken by the index.
LEMMA SortOrdered ==
  ASSUME NEW s \in Seq(Individuals)
  PROVE  Orders({p \in (DOMAIN s) \X (DOMAIN s) :
                   \/ s[p[1]].fitness > s[p[2]].fitness
                   \/ s[p[1]].fitness = s[p[2]].fitness /\ p[1] < p[2]}, DOMAIN s)
<1>1. DOMAIN s \subseteq Nat /\ \A i \in DOMAIN s : s[i] \in Individuals
  OBVIOUS
<1>2. \A i \in DOMAIN s : s[i].fitness \in Nat
  BY <1>1 DEF Individuals
<1> QED BY <1>1, <1>2 DEF Orders

\* A list as a set of places.
LEMMA Places ==
  ASSUME NEW s \in Seq(Individuals)
  PROVE  DOMAIN s = 1 .. Len(s) /\ IsFiniteSet(DOMAIN s) /\ Cardinality(DOMAIN s) = Len(s) /\ Len(s) \in Nat
<1>1. DOMAIN s = 1 .. Len(s) /\ Len(s) \in Nat
  OBVIOUS
<1>2. IsFiniteSet(1 .. Len(s)) /\ Cardinality(1 .. Len(s)) = Len(s)
  BY <1>1, FS_Interval
<1> QED BY <1>1, <1>2

\* What a sort keeps: each of its places is one of the list, so that it holds
\* the same kind of individuals, and the first is a best one.
LEMMA Sorted ==
  ASSUME NEW s \in Seq(Individuals)
  PROVE  /\ ByFitness(s) \in Seq(Individuals) /\ Len(ByFitness(s)) = Len(s)
         /\ \A k \in 1 .. Len(s) : \E i \in 1 .. Len(s) : ByFitness(s)[k] = s[i]
         /\ s # <<>> => \A i \in 1 .. Len(s) : s[i].fitness <= ByFitness(s)[1].fitness
<1> DEFINE D == DOMAIN s
           before == {p \in D \X D : \/ s[p[1]].fitness > s[p[2]].fitness
                                     \/ s[p[1]].fitness = s[p[2]].fitness /\ p[1] < p[2]}
<1>1. D = 1 .. Len(s) /\ IsFiniteSet(D) /\ Cardinality(D) = Len(s) /\ Len(s) \in Nat
  BY Places
<1>2. Orders(before, D)
  BY SortOrdered
<1>3. ByFitness(s) = [k \in D |-> s[Nth(D, before, k)]]
  BY DEF ByFitness
<1>4. \A k \in 1 .. Len(s) : Nth(D, before, k) \in D /\ Cardinality(Below(D, before, Nth(D, before, k))) = k - 1
  <2> HIDE DEF D, before
  <2> QED BY <1>1, <1>2, NthIsThere
<1>5. \A k \in 1 .. Len(s) : \E i \in 1 .. Len(s) : ByFitness(s)[k] = s[i]
  <2> HIDE DEF before
  <2> QED BY <1>1, <1>3, <1>4
<1>6. ByFitness(s) \in [1 .. Len(s) -> Individuals]
  <2> HIDE DEF before
  <2> QED BY <1>1, <1>3, <1>4
<1>7. ByFitness(s) \in Seq(Individuals) /\ Len(ByFitness(s)) = Len(s)
  BY <1>1, <1>6
<1>8. ASSUME s # <<>>, NEW i \in 1 .. Len(s) PROVE s[i].fitness <= ByFitness(s)[1].fitness
  <2> DEFINE j == Nth(D, before, 1)
  <2>1. 1 \in 1 .. Len(s) /\ 1 - 1 = 0
    BY <1>1, <1>8
  <2>2. j \in D /\ Cardinality(Below(D, before, j)) = 0
    BY <1>4, <2>1
  <2>3. Below(D, before, j) = {}
    <3>1. IsFiniteSet(Below(D, before, j))
      BY <1>1, FS_Subset DEF Below
    <3> QED BY <2>2, <3>1, FS_EmptySet
  <2>4. <<i, j>> \notin before /\ i \in D
    BY <1>1, <2>3 DEF Below
  <2>5. ByFitness(s)[1] = s[j]
    BY <1>1, <1>3, <2>1
  <2> HIDE DEF j
  <2>6. ~(s[i].fitness > s[j].fitness)
    BY <2>2, <2>4
  <2>7. s[i] \in Individuals /\ s[j] \in Individuals
    BY <2>2, <2>4
  <2>8. s[i].fitness \in Nat /\ s[j].fitness \in Nat
    BY <2>7 DEF Individuals
  <2> QED BY <2>5, <2>6, <2>8
<1> QED BY <1>5, <1>7, <1>8

\* A list is empty when it has length zero.
LEMMA EmptyList ==
  ASSUME NEW s \in Seq(Individuals)
  PROVE  Len(s) \in Nat /\ (s = <<>> <=> Len(s) = 0)
OBVIOUS

\* The fitness of the best of a list.
Top(s) == ByFitness(s)[1].fitness

\* A list that has the best of another one, or a better one, is no worse.
LEMMA TopRises ==
  ASSUME NEW s \in Seq(Individuals), s # <<>>, NEW t \in Seq(Individuals), t # <<>>,
         \A i \in 1 .. Len(s) : s[i].fitness = Top(s) =>
           \E j \in 1 .. Len(t) : t[j].fitness >= s[i].fitness
  PROVE  Top(t) >= Top(s)
<1>1. Len(s) \in Nat /\ Len(s) >= 1 /\ 1 \in 1 .. Len(s)
  OBVIOUS
<1>2. PICK i \in 1 .. Len(s) : ByFitness(s)[1] = s[i]
  BY <1>1, Sorted
<1>3. PICK j \in 1 .. Len(t) : t[j].fitness >= s[i].fitness
  BY <1>2 DEF Top
<1>4. t[j].fitness <= Top(t)
  BY Sorted DEF Top
<1>5. s[i] \in Individuals /\ t[j] \in Individuals /\ ByFitness(t)[1] \in Individuals
  <2>1. Len(t) \in Nat /\ 1 \in 1 .. Len(t)
    OBVIOUS
  <2>2. PICK l \in 1 .. Len(t) : ByFitness(t)[1] = t[l]
    BY <2>1, Sorted
  <2> QED BY <2>2
<1>6. s[i].fitness \in Nat /\ t[j].fitness \in Nat /\ Top(t) \in Nat
  BY <1>5 DEF Individuals, Top
<1> QED BY <1>2, <1>3, <1>4, <1>6 DEF Top

\* A sort keeps the best.
LEMMA SortKeepsTop ==
  ASSUME NEW s \in Seq(Individuals), s # <<>>
  PROVE  ByFitness(s) # <<>> /\ Top(ByFitness(s)) >= Top(s)
<1>1. ByFitness(s) \in Seq(Individuals) /\ Len(ByFitness(s)) = Len(s) /\ Len(s) >= 1
  BY Sorted
<1>2. ByFitness(s) # <<>>
  BY <1>1
<1>3. ASSUME NEW i \in 1 .. Len(s), s[i].fitness = Top(s)
      PROVE  \E j \in 1 .. Len(ByFitness(s)) : ByFitness(s)[j].fitness >= s[i].fitness
  <2>1. 1 \in 1 .. Len(ByFitness(s)) /\ s[i] \in Individuals
    BY <1>1
  <2>2. ByFitness(s)[1].fitness = s[i].fitness /\ s[i].fitness \in Nat
    BY <1>3, <2>1 DEF Top, Individuals
  <2> QED BY <2>1, <2>2
<1> QED BY <1>1, <1>2, <1>3, TopRises

\* So does the culling, which also halves the list.
LEMMA Culled ==
  ASSUME NEW s \in Seq(Individuals)
  PROVE  /\ Cull(s) \in Seq(Individuals)
         /\ Len(Cull(s)) <= Len(s) /\ (Len(s) <= 2 * PopulationSize => Len(Cull(s)) <= PopulationSize)
         /\ s = <<>> => Cull(s) = <<>>
         /\ s # <<>> => Cull(s) # <<>> /\ Top(Cull(s)) >= Top(s)
<1>0. PopulationSize \in Nat /\ PopulationSize >= 2
  BY OlagsaAssumption
<1>1. Len(s) \in Nat
  OBVIOUS
<1>2. CASE Len(s) = 1
  <2>0. Cull(s) = s
    BY <1>2 DEF Cull
  <2>1. s # <<>>
    BY <1>2, EmptyList
  <2>2. \A i \in 1 .. Len(s) : s[i].fitness = Top(s) => \E j \in 1 .. Len(s) : s[j].fitness >= s[i].fitness
    <3> SUFFICES ASSUME NEW i \in 1 .. Len(s) PROVE s[i].fitness >= s[i].fitness
      OBVIOUS
    <3>1. s[i] \in Individuals
      OBVIOUS
    <3>2. s[i].fitness \in Nat
      BY <3>1 DEF Individuals
    <3> QED BY <3>2
  <2>3. Top(s) >= Top(s)
    BY <2>1, <2>2, TopRises
  <2>4. Len(s) <= Len(s) /\ Len(s) <= PopulationSize
    BY <1>0, <1>2
  <2> QED BY <2>0, <2>1, <2>3, <2>4
<1>3. CASE Len(s) # 1
  <2> DEFINE h == Len(s) \div 2
             t == [i \in 1 .. h |-> ByFitness(s)[i]]
  <2>1. Cull(s) = t
    BY <1>3 DEF Cull
  <2>2. h \in Nat /\ h <= Len(s) /\ (Len(s) <= 2 * PopulationSize => h <= PopulationSize)
        /\ (Len(s) >= 2 => h >= 1)
    BY <1>0, <1>1
  <2>3. ByFitness(s) \in Seq(Individuals) /\ Len(ByFitness(s)) = Len(s)
    BY Sorted
  <2>4. t \in [1 .. h -> Individuals]
    BY <1>1, <2>2, <2>3
  <2>5. t \in Seq(Individuals) /\ Len(t) = h
    BY <2>2, <2>4
  <2>6. s = <<>> => t = <<>>
    BY <2>2, <2>5
  <2>7. ASSUME s # <<>> PROVE t # <<>> /\ Top(t) >= Top(s)
    <3>1. h >= 1 /\ 1 \in 1 .. h
      <4>1. Len(s) # 0 /\ Len(s) # 1 /\ Len(s) \in Nat
        BY <1>3, <2>7, EmptyList
      <4>2. Len(s) >= 2
        <5> DEFINE l == Len(s)
        <5>1. l # 0 /\ l # 1 /\ l \in Nat
          BY <4>1
        <5> HIDE DEF l
        <5>2. l >= 2
          BY <5>1
        <5> QED BY <5>2 DEF l
      <4>3. h >= 1 /\ h \in Nat
        BY <2>2, <4>2
      <4> HIDE DEF h
      <4> QED BY <4>3
    <3>2. t # <<>>
      BY <2>5, <3>1
    <3>3. t[1].fitness = Top(s)
      BY <3>1 DEF Top
    <3>4. ASSUME NEW i \in 1 .. Len(s), s[i].fitness = Top(s)
          PROVE  \E j \in 1 .. Len(t) : t[j].fitness >= s[i].fitness
      <4>1. s[i] \in Individuals
        OBVIOUS
      <4>2. s[i].fitness \in Nat
        BY <4>1 DEF Individuals
      <4> QED BY <2>5, <3>1, <3>3, <3>4, <4>2
    <3> HIDE DEF t
    <3> QED BY <2>5, <2>7, <3>2, <3>4, TopRises
  <2> QED BY <2>1, <2>2, <2>5, <2>6, <2>7
<1> QED BY <1>2, <1>3

Kids == [within : Points, evaluation : Individuals]

\* Joining keeps the individuals and adds as many as join.
LEMMA JoinedList ==
  ASSUME NEW s \in Seq(Individuals), children \in Seq(Kids), NEW who \in SUBSET (DOMAIN children)
  PROVE  /\ Joined(s, who) \in Seq(Individuals)
         /\ IsFiniteSet(who) /\ Cardinality(who) \in Nat /\ Cardinality(who) <= Len(children)
         /\ Len(Joined(s, who)) = Len(s) + Cardinality(who)
         /\ s # <<>> => Joined(s, who) # <<>> /\ Top(Joined(s, who)) >= Top(s)
<1> DEFINE before == {p \in who \X who : p[1] < p[2]}
           n == Cardinality(who)
           t == Joined(s, who)
<1>1. DOMAIN children = 1 .. Len(children) /\ Len(children) \in Nat /\ Len(s) \in Nat
  OBVIOUS
<1>2. IsFiniteSet(1 .. Len(children)) /\ Cardinality(1 .. Len(children)) = Len(children)
  <2> DEFINE l == Len(children)
  <2>1. l \in Int /\ l >= 0
    BY <1>1
  <2> HIDE DEF l
  <2>2. IsFiniteSet(1 .. l) /\ Cardinality(1 .. l) = IF 1 > l THEN 0 ELSE l - 1 + 1
    BY <2>1, FS_Interval
  <2>3. IsFiniteSet(1 .. l) /\ Cardinality(1 .. l) = l
    BY <2>1, <2>2
  <2> QED BY <2>3 DEF l
<1>3. IsFiniteSet(who) /\ n \in Nat /\ n <= Len(children)
  BY <1>1, <1>2, FS_Subset, FS_CardinalityType
<1>4. Orders(before, who)
  BY <1>1, IndicesOrdered
<1>5. \A k \in 1 .. n : Nth(who, before, k) \in who
  <2> HIDE DEF before, n
  <2> QED BY <1>3, <1>4, NthIsThere DEF n
<1>6. t = [k \in 1 .. Len(s) + n |->
             IF k <= Len(s) THEN s[k] ELSE children[Nth(who, before, k - Len(s))].evaluation]
  BY DEF Joined
<1>7. ASSUME NEW k \in 1 .. Len(s) + n PROVE t[k] \in Individuals
  <2>1. CASE k <= Len(s)
    BY <1>1, <1>3, <1>6, <2>1
  <2>2. CASE ~(k <= Len(s))
    <3>1. k - Len(s) \in 1 .. n
      BY <1>1, <1>3, <2>2
    <3>2. Nth(who, before, k - Len(s)) \in DOMAIN children
      BY <1>5, <3>1
    <3>3. children[Nth(who, before, k - Len(s))] \in Kids
      BY <3>2
    <3>4. children[Nth(who, before, k - Len(s))].evaluation \in Individuals
      BY <3>3 DEF Kids
    <3> QED BY <1>6, <2>2, <3>4
  <2> QED BY <2>1, <2>2
<1>8. t \in [1 .. Len(s) + n -> Individuals]
  BY <1>6, <1>7
<1>9. t \in Seq(Individuals) /\ Len(t) = Len(s) + n
  BY <1>1, <1>3, <1>8
<1>10. ASSUME s # <<>> PROVE t # <<>> /\ Top(t) >= Top(s)
  <2>1. t # <<>>
    BY <1>1, <1>3, <1>9, <1>10
  <2>2. ASSUME NEW i \in 1 .. Len(s) PROVE \E j \in 1 .. Len(t) : t[j].fitness >= s[i].fitness
    <3>1. i \in 1 .. Len(t) /\ t[i] = s[i] /\ s[i] \in Individuals
      BY <1>1, <1>3, <1>6, <1>9
    <3>2. t[i].fitness >= s[i].fitness
      BY <3>1 DEF Individuals
    <3> QED BY <3>1, <3>2
  <2> HIDE DEF t
  <2> QED BY <1>9, <1>10, <2>1, <2>2, TopRises
<1> QED BY <1>3, <1>9, <1>10

-----------------------------------------------------------------------------
(* The inductive invariant.                                                 *)

SearchTypes ==
  /\ iterations \in KeyIterations /\ patience \in Patience /\ generation \in Nat
  /\ species \subseteq Ids
  /\ individuals \in [Ids -> Seq(Individuals)]
  /\ children \in Seq(Kids)
  /\ quota \in [Ids -> Nat]
  /\ stagnation \in [Ids -> Nat]

\* No species has left the list, or has anyone, before the first population.
Untouched ==
  pc \in {"single", "populate"} =>
    /\ species = Ids /\ generation = 0
    /\ \A s \in Ids : individuals[s] = <<>> /\ stagnation[s] = 0

\* Somebody lives while the search runs.
Alive == pc \in {"check", "select", "breed"} => Populated # {}

\* The culling halves what the assignment has at most doubled.
Sizes ==
  /\ pc \in {"check", "select"} =>
       children = <<>> /\ \A s \in Ids : Len(individuals[s]) <= 2 * PopulationSize
  /\ pc = "breed" => \A s \in Ids : Len(individuals[s]) <= PopulationSize

\* A species is checked once in a generation.
OneCheckEach ==
  /\ pc = "check" => \A s \in Ids : stagnation[s] <= generation
  /\ pc \in {"select", "breed"} => \A s \in Ids : stagnation[s] <= generation + 1

SearchInv ==
  /\ SearchTypes /\ Untouched /\ Alive /\ Sizes /\ OneCheckEach
  /\ FailuresContained /\ SearchBudget

\* There are finitely many species, numbered from 1.
LEMMA IdsFinite ==
  IsFiniteSet(Ids) /\ Ids \subseteq Nat \ {0} /\ \A S \in SUBSET Ids : IsFiniteSet(S)
<1>1. Species \in Nat
  BY OlagsaAssumption
<1>2. IsFiniteSet(1 .. Species) /\ 1 .. Species \subseteq Nat \ {0}
  BY <1>1, FS_Interval
<1> QED BY <1>2, FS_Subset DEF Ids

\* What the solver finds out about a candidate has a positive fitness.
LEMMA CandidatesTyped ==
  ASSUME SearchTypes
  PROVE  Candidates \subseteq Kids
<1>1. iterations \in Nat \ {0} /\ Ponderation \in Nat \ {0}
  BY OlagsaAssumption DEF SearchTypes
<1>2. Infeasible \in Nat \ {0}
  BY <1>1 DEF Infeasible
<1>3. 0 .. iterations - 1 \subseteq Nat /\ 1 .. Ponderation \subseteq Nat \ {0}
  BY <1>1
<1>4. Evaluations \subseteq Individuals
  BY <1>1, <1>2, <1>3 DEF Evaluations, Individuals
<1> QED BY <1>4 DEF Candidates, Kids

\* A child has a home in the list, or its region has left the list.
LEMMA HomeInList ==
  ASSUME SearchTypes, NEW c \in Kids
  PROVE  /\ Home(c) \in species \cup {0}
         /\ Home(c) = 0 => species # Ids
<1> DEFINE fitting == species \cap c.within
<1>1. c.within \in Points
  BY DEF Kids
<1>2. c.within \subseteq Ids /\ c.within # {}
  BY <1>1, OlagsaAssumption
<1>3. fitting \subseteq Nat /\ 0 \notin fitting
  BY <1>2, IdsFinite
<1>4. CASE fitting = {}
  BY <1>2, <1>4 DEF Home
<1>5. CASE fitting # {}
  <2>1. Min(fitting) \in fitting
    <3> HIDE DEF fitting
    <3> QED BY <1>3, <1>5, MinIsLeast
  <2>2. Home(c) = Min(fitting)
    BY <1>5 DEF Home
  <2> QED BY <1>3, <2>1, <2>2
<1> QED BY <1>4, <1>5

\* The best of a species has a share of the total, which is not zero.
LEMMA AdjustedPositive ==
  ASSUME SearchTypes, \A s \in Ids : Len(individuals[s]) <= 2 * PopulationSize,
         NEW s \in Populated
  PROVE  /\ Adjusted(s, 1) \in Nat /\ Adjusted(s, 1) >= 1
         /\ AdjustedSum(s) \in Nat /\ Adjusted(s, 1) <= AdjustedSum(s)
<1> DEFINE list == individuals[s]
           kept == Cull(list)
           n == Len(list)
           q == Scale \div n
           f == [i \in DOMAIN kept |-> Adjusted(s, i)]
<1>1. s \in Ids /\ list \in Seq(Individuals) /\ list # <<>>
  BY DEF Populated, SearchTypes
<1>2. kept \in Seq(Individuals) /\ kept # <<>>
  BY <1>1, Culled
<1>3. n \in 1 .. 2 * PopulationSize
  <2>1. n \in Nat /\ n # 0 /\ n <= 2 * PopulationSize
    BY <1>1, EmptyList
  <2>2. PopulationSize \in Nat
    BY OlagsaAssumption
  <2> HIDE DEF n
  <2> QED BY <2>1, <2>2
<1>4. q \in Nat /\ q >= 1
  <2>1. Scale \in Nat /\ Scale >= 1 /\ Scale % n = 0 /\ n \in Nat /\ n >= 1
    <3>1. \A m \in 1 .. 2 * PopulationSize : Scale % m = 0
      BY OlagsaAssumption
    <3>2. Scale \in Nat /\ Scale >= 1 /\ PopulationSize \in Nat
      BY OlagsaAssumption
    <3> HIDE DEF n
    <3> QED BY <1>3, <3>1, <3>2
  <2> HIDE DEF n
  <2>2. Scale = n * q + (Scale % n) /\ q \in Int
    <3>1. \A x, y \in Nat : y >= 1 => x = y * (x \div y) + (x % y) /\ x \div y \in Int
      OBVIOUS
    <3> QED BY <2>1, <3>1
  <2> HIDE DEF q
  <2>3. n * q >= 1 /\ q \in Int
    BY <2>1, <2>2
  <2>4. ASSUME q <= 0 PROVE n * q <= 0
    BY <2>1, <2>3, <2>4
  <2>5. n * q \in Int
    BY <2>1, <2>3
  <2> QED BY <2>3, <2>4, <2>5
<1>5. DOMAIN kept = 1 .. Len(kept) /\ IsFiniteSet(DOMAIN kept) /\ Len(kept) \in Nat /\ Len(kept) # 0
  <2> HIDE DEF kept
  <2> QED BY <1>2, Places, EmptyList
<1>6. \A i \in DOMAIN kept : Adjusted(s, i) \in Nat /\ Adjusted(s, i) >= 1
  <2> SUFFICES ASSUME NEW i \in DOMAIN kept PROVE Adjusted(s, i) \in Nat /\ Adjusted(s, i) >= 1
    OBVIOUS
  <2>1. kept[i] \in Individuals
    <3> HIDE DEF kept
    <3> QED BY <1>2
  <2>2. kept[i].fitness \in Nat /\ kept[i].fitness >= 1
    <3> HIDE DEF kept
    <3> QED BY <2>1 DEF Individuals
  <2>3. Adjusted(s, i) = kept[i].fitness * q
    BY DEF Adjusted
  <2>4. \A a, b \in Nat : a >= 1 /\ b >= 1 => a * b \in Nat /\ a * b >= 1
    OBVIOUS
  <2> HIDE DEF kept, q
  <2> QED BY <1>4, <2>2, <2>3, <2>4
<1>7. 1 \in DOMAIN kept
  <2> HIDE DEF kept
  <2> QED BY <1>5
<1>8. AdjustedSum(s) = SumFunctionOnSet(f, DOMAIN kept)
  BY SumDomain DEF AdjustedSum
<1>9. \A i \in DOMAIN kept : f[i] = Adjusted(s, i) /\ f[i] \in Nat /\ f[i] \in Int
  BY <1>6
<1> HIDE DEF f, kept
<1>10. SumFunctionOnSet(f, DOMAIN kept) = f[1] + SumFunctionOnSet(f, DOMAIN kept \ {1})
  BY <1>5, <1>7, <1>9, SumRemove
<1>11. SumFunctionOnSet(f, DOMAIN kept \ {1}) \in Nat
  <2>1. IsFiniteSet(DOMAIN kept \ {1})
    BY <1>5, FS_Subset
  <2> QED BY <1>9, <2>1, SumNat
<1>12. f[1] = Adjusted(s, 1) /\ Adjusted(s, 1) \in Nat /\ Adjusted(s, 1) >= 1
  BY <1>6, <1>7, <1>9
<1> QED BY ONLY <1>8, <1>10, <1>11, <1>12

\* The shares are rounded down: the brood is not larger than the population.
LEMMA Brood ==
  ASSUME SearchTypes, \A s \in Ids : Len(individuals[s]) <= 2 * PopulationSize,
         Populated # {}
  PROVE  /\ AdjustedTotal \in Nat /\ AdjustedTotal > 0
         /\ \A s \in Populated : NumChildren(s) \in Nat
         /\ \A g : (\A s \in Populated : g[s] = NumChildren(s)) =>
                     SumFunctionOnSet(g, Populated) <= PopulationSize
<1> DEFINE a == [s \in Populated |-> AdjustedSum(s)]
           f == [s \in Populated |-> Adjusted(s, 1)]
<1>1. IsFiniteSet(Populated) /\ PopulationSize \in Nat
  BY IdsFinite, OlagsaAssumption, FS_Subset DEF Populated, SearchTypes
<1>2. \A s \in Populated : /\ a[s] \in Nat /\ a[s] \in Int /\ a[s] >= 1
                           /\ f[s] = Adjusted(s, 1) /\ f[s] \in Nat /\ f[s] \in Int /\ f[s] <= a[s]
  <2> SUFFICES ASSUME NEW s \in Populated
               PROVE  /\ a[s] \in Nat /\ a[s] \in Int /\ a[s] >= 1
                      /\ f[s] = Adjusted(s, 1) /\ f[s] \in Nat /\ f[s] \in Int /\ f[s] <= a[s]
    OBVIOUS
  <2>1. /\ Adjusted(s, 1) \in Nat /\ Adjusted(s, 1) >= 1
        /\ AdjustedSum(s) \in Nat /\ Adjusted(s, 1) <= AdjustedSum(s)
    BY AdjustedPositive
  <2> QED BY <2>1
<1>3. AdjustedTotal = SumFunctionOnSet(a, Populated)
  BY SumDomain DEF AdjustedTotal
<1> HIDE DEF a, f
<1>4. AdjustedTotal \in Nat
  BY <1>1, <1>2, <1>3, SumNat
<1>5. AdjustedTotal > 0
  <2>1. Cardinality(Populated) <= AdjustedTotal
    BY <1>1, <1>2, <1>3, SumAtLeastCount
  <2>2. Cardinality(Populated) \in Nat /\ Cardinality(Populated) # 0
    BY <1>1, FS_CardinalityType, FS_EmptySet
  <2> QED BY <1>4, <2>1, <2>2
<1>6. SumFunctionOnSet(f, Populated) <= AdjustedTotal
  BY <1>1, <1>2, <1>3, SumMonotone
<1>7. ASSUME NEW g, \A s \in Populated : g[s] = NumChildren(s)
      PROVE  (\A s \in Populated : g[s] \in Nat) /\ SumFunctionOnSet(g, Populated) <= PopulationSize
  <2>1. \A s \in Populated : g[s] = (f[s] * PopulationSize) \div AdjustedTotal
    BY <1>2, <1>7 DEF NumChildren
  <2>2. \A s \in Populated : f[s] \in Nat
    BY <1>2
  <2> HIDE DEF AdjustedTotal, Populated
  <2> QED BY <1>1, <1>4, <1>5, <1>6, <2>1, <2>2, SumOfShares
<1>8. \A s \in Populated : NumChildren(s) \in Nat
  <2> DEFINE g == [s \in Populated |-> NumChildren(s)]
  <2>1. \A s \in Populated : g[s] = NumChildren(s)
    OBVIOUS
  <2> HIDE DEF g
  <2> QED BY <1>7, <2>1
<1> QED BY <1>4, <1>5, <1>7, <1>8

-----------------------------------------------------------------------------
(* Every step keeps the invariant.                                          *)

\* A key that is returned has an iteration.
LEMMA KeysAreSolved == ASSUME NEW solved PROVE \A s \in DOMAIN Keys(solved) : Keys(solved)[s] > 0
BY DEF Keys, Returns

\* The search starts with every species and nobody.
LEMMA SearchInitial == Init => SearchInv
<1> SUFFICES ASSUME Init PROVE SearchInv
  OBVIOUS
<1> USE DEF Init
<1>1. SearchTypes
  <2>1. iterations \in KeyIterations /\ patience \in Patience /\ generation \in Nat /\ species \subseteq Ids
    OBVIOUS
  <2>2. <<>> \in Seq(Individuals) /\ <<>> \in Seq(Kids)
    OBVIOUS
  <2> QED BY <2>1, <2>2 DEF SearchTypes
<1>2. pc \in {"single", "populate"}
  OBVIOUS
<1>3. Untouched
  BY DEF Untouched
<1>4. Alive /\ Sizes /\ OneCheckEach
  BY <1>2 DEF Alive, Sizes, OneCheckEach
<1>5. NoEmptyKey
  BY DEF NoEmptyKey
<1>6. UnassignedOnlyAfterExtinction /\ BroodBounded /\ PatienceKept
  BY <1>2 DEF UnassignedOnlyAfterExtinction, BroodBounded, PatienceKept
<1> QED BY <1>1, <1>3, <1>4, <1>5, <1>6 DEF SearchInv, FailuresContained, SearchBudget

\* Once the search has ended, only the results and the reason of the end count.
LEMMA Ended ==
  ASSUME SearchInv, UNCHANGED <<inputs, species, stagnation, children, quota, generation>>,
         pc' \in {"done", "raised"}, individuals' \in [Ids -> Seq(Individuals)], NoEmptyKey'
  PROVE  SearchInv'
<1>1. SearchTypes'
  BY DEF SearchInv, SearchTypes, inputs
<1>2. Untouched' /\ Alive' /\ Sizes' /\ OneCheckEach'
  BY DEF Untouched, Alive, Sizes, OneCheckEach
<1>3. UnassignedOnlyAfterExtinction' /\ BroodBounded' /\ PatienceKept'
  BY DEF UnassignedOnlyAfterExtinction, BroodBounded, PatienceKept
<1> QED BY <1>1, <1>2, <1>3 DEF SearchInv, FailuresContained, SearchBudget

\* The key of one iteration, the collection of the keys, and an exception.
LEMMA EndingSteps ==
  ASSUME SearchInv, SolveSingle \/ Collect \/ SolverRaises
  PROVE  SearchInv'
<1>0. individuals \in [Ids -> Seq(Individuals)] /\ NoEmptyKey
  BY DEF SearchInv, SearchTypes, FailuresContained
<1>1. CASE SolveSingle
  <2>1. PICK e \in Evaluations : results' = Keys(<<e.solved>>)
    BY <1>1 DEF SolveSingle
  <2>2. NoEmptyKey'
    BY <2>1, KeysAreSolved DEF NoEmptyKey
  <2> QED BY <1>0, <1>1, <2>2, Ended DEF SolveSingle
<1>2. CASE Collect
  <2>1. NoEmptyKey'
    BY <1>2, KeysAreSolved DEF NoEmptyKey, Collect
  <2>2. individuals' \in [Ids -> Seq(Individuals)]
    BY <1>0, <1>2, Sorted DEF Collect
  <2> QED BY <1>2, <2>1, <2>2, Ended DEF Collect
<1>3. CASE SolverRaises
  <2>1. NoEmptyKey'
    BY <1>0, <1>3 DEF NoEmptyKey, SolverRaises
  <2> QED BY <1>0, <1>3, <2>1, Ended DEF SolverRaises
<1> QED BY <1>1, <1>2, <1>3

\* A candidate of the first population.
LEMMA PopulateKeeps == ASSUME SearchInv, Populate PROVE SearchInv'
<1>1. PICK c \in Candidates : children' = Append(children, c)
  BY DEF Populate
<1>2. SearchTypes
  BY DEF SearchInv
<1>3. children' \in Seq(Kids)
  <2>1. c \in Kids /\ children \in Seq(Kids)
    BY <1>2, CandidatesTyped DEF SearchTypes
  <2> QED BY <1>1, <2>1
<1>4. SearchTypes'
  BY <1>2, <1>3 DEF Populate, SearchTypes, inputs
<1>5. Untouched' /\ Alive' /\ Sizes' /\ OneCheckEach'
  BY DEF SearchInv, Populate, Untouched, Alive, Sizes, OneCheckEach
<1>6. NoEmptyKey' /\ UnassignedOnlyAfterExtinction' /\ BroodBounded' /\ PatienceKept'
  BY DEF SearchInv, FailuresContained, Populate, NoEmptyKey, UnassignedOnlyAfterExtinction, BroodBounded, PatienceKept
<1> QED BY <1>4, <1>5, <1>6 DEF SearchInv, FailuresContained, SearchBudget

\* An assignment that loses nobody adds every child to a list of its species.
LEMMA AssignedLists ==
  ASSUME SearchTypes
  PROVE  /\ Assigned(individuals) \in [Ids -> Seq(Individuals)]
         /\ \A s \in Ids :
              /\ Cardinality(Newcomers(s)) \in Nat /\ Cardinality(Newcomers(s)) <= Len(children)
              /\ Assigned(individuals)[s] = Joined(individuals[s], Newcomers(s))
              /\ Len(Assigned(individuals)[s]) = Len(individuals[s]) + Cardinality(Newcomers(s))
              /\ Newcomers(s) # {} => Assigned(individuals)[s] # <<>>
              /\ individuals[s] # <<>> =>
                   Assigned(individuals)[s] # <<>> /\ Top(Assigned(individuals)[s]) >= Top(individuals[s])
<1> SUFFICES ASSUME NEW s \in Ids
             PROVE  /\ Joined(individuals[s], Newcomers(s)) \in Seq(Individuals)
                    /\ Cardinality(Newcomers(s)) \in Nat /\ Cardinality(Newcomers(s)) <= Len(children)
                    /\ Len(Joined(individuals[s], Newcomers(s))) = Len(individuals[s]) + Cardinality(Newcomers(s))
                    /\ Newcomers(s) # {} => Joined(individuals[s], Newcomers(s)) # <<>>
                    /\ individuals[s] # <<>> =>
                         /\ Joined(individuals[s], Newcomers(s)) # <<>>
                         /\ Top(Joined(individuals[s], Newcomers(s))) >= Top(individuals[s])
  BY DEF Assigned
<1> DEFINE l == individuals[s]
           j == Joined(l, Newcomers(s))
<1>1. l \in Seq(Individuals) /\ children \in Seq(Kids) /\ Newcomers(s) \in SUBSET DOMAIN children
  BY DEF SearchTypes, Newcomers
<1> HIDE DEF l
<1>2. /\ j \in Seq(Individuals)
      /\ IsFiniteSet(Newcomers(s)) /\ Cardinality(Newcomers(s)) \in Nat
      /\ Cardinality(Newcomers(s)) <= Len(children)
      /\ Len(j) = Len(l) + Cardinality(Newcomers(s))
      /\ l # <<>> => j # <<>> /\ Top(j) >= Top(l)
  BY <1>1, JoinedList
<1>3. ASSUME Newcomers(s) # {} PROVE j # <<>>
  <2>1. Cardinality(Newcomers(s)) # 0
    BY <1>2, <1>3, FS_EmptySet
  <2>2. Len(l) \in Nat
    BY <1>1
  <2>3. Len(j) # 0
    BY <1>2, <2>1, <2>2
  <2> HIDE DEF j
  <2> QED BY <1>2, <2>3, EmptyList
<1> QED BY <1>2, <1>3 DEF l, j

\* The first assignment finds a species for every candidate.
LEMMA FirstAssignmentKeeps == ASSUME SearchInv, FirstAssignment PROVE SearchInv'
<1>0. SearchTypes /\ species = Ids /\ generation = 0 /\ NoEmptyKey
      /\ \A s \in Ids : individuals[s] = <<>> /\ stagnation[s] = 0
  BY DEF SearchInv, FirstAssignment, Untouched, FailuresContained
<1>1. \A i \in DOMAIN children : children[i] \in Kids
  BY <1>0 DEF SearchTypes
<1>2. \A i \in DOMAIN children : Home(children[i]) \in Ids
  BY <1>0, <1>1, HomeInList
<1>3. ~Lost
  BY <1>2, IdsFinite DEF Lost
<1>4. /\ individuals' = [s \in Ids |-> ByFitness(Assigned(individuals)[s])]
      /\ children' = <<>> /\ pc' = "check" /\ Len(children) = PopulationSize
      /\ UNCHANGED <<iterations, patience, species, stagnation, quota, generation, results>>
  BY <1>3 DEF FirstAssignment, inputs
<1>5. PopulationSize \in Nat /\ PopulationSize >= 2
  BY OlagsaAssumption
<1>6. \A s \in Ids : /\ individuals'[s] \in Seq(Individuals)
                     /\ Len(individuals'[s]) <= PopulationSize
                     /\ Newcomers(s) # {} => individuals'[s] # <<>>
  <2> SUFFICES ASSUME NEW s \in Ids
               PROVE  /\ individuals'[s] \in Seq(Individuals)
                      /\ Len(individuals'[s]) <= PopulationSize
                      /\ Newcomers(s) # {} => individuals'[s] # <<>>
    OBVIOUS
  <2> DEFINE j == Assigned(individuals)[s]
             n == Cardinality(Newcomers(s))
  <2>1. j \in Seq(Individuals) /\ n \in Nat /\ n <= PopulationSize /\ Len(j) = Len(individuals[s]) + n
        /\ (Newcomers(s) # {} => j # <<>>)
    BY <1>0, <1>4, AssignedLists
  <2>2. Len(individuals[s]) = 0
    BY <1>0
  <2>3. individuals'[s] = ByFitness(j)
    BY <1>4
  <2> HIDE DEF j, n
  <2>4. ByFitness(j) \in Seq(Individuals) /\ Len(ByFitness(j)) = Len(j)
    BY <2>1, Sorted
  <2>5. Len(j) <= PopulationSize
    BY <2>1, <2>2, <1>5
  <2>6. j # <<>> => ByFitness(j) # <<>>
    BY <2>1, <2>4, EmptyList
  <2> QED BY <2>1, <2>3, <2>4, <2>5, <2>6
<1>7. SearchTypes'
  <2>1. individuals' \in [Ids -> Seq(Individuals)]
    BY <1>4, <1>6
  <2>2. children' \in Seq(Kids)
    BY <1>4
  <2> QED BY <1>0, <1>4, <2>1, <2>2 DEF SearchTypes
<1>8. Alive'
  <2>1. 1 \in DOMAIN children
    BY <1>0, <1>4, <1>5 DEF SearchTypes
  <2>2. 1 \in Newcomers(Home(children[1])) /\ Home(children[1]) \in Ids
    BY <1>2, <2>1 DEF Newcomers
  <2>3. individuals'[Home(children[1])] # <<>>
    BY <1>6, <2>2
  <2> QED BY <1>0, <1>4, <2>2, <2>3 DEF Alive, Populated
<1>9. Sizes'
  <2>1. \A s \in Ids : Len(individuals'[s]) <= 2 * PopulationSize
    <3> SUFFICES ASSUME NEW s \in Ids PROVE Len(individuals'[s]) <= 2 * PopulationSize
      OBVIOUS
    <3>1. Len(individuals'[s]) \in Nat /\ Len(individuals'[s]) <= PopulationSize
      BY <1>6
    <3> QED BY <1>5, <3>1
  <2> QED BY <1>4, <2>1 DEF Sizes
<1>10. OneCheckEach' /\ Untouched'
  BY <1>0, <1>4 DEF OneCheckEach, Untouched
<1>11. NoEmptyKey' /\ UnassignedOnlyAfterExtinction' /\ BroodBounded' /\ PatienceKept'
  BY <1>0, <1>4 DEF NoEmptyKey, UnassignedOnlyAfterExtinction, BroodBounded, PatienceKept
<1> QED BY <1>7, <1>8, <1>9, <1>10, <1>11 DEF SearchInv, FailuresContained, SearchBudget

\* A check counts once for each species, and ends the search only when those
\* that live have been counted often enough.
LEMMA CheckKeeps == ASSUME SearchInv, CheckImprovement PROVE SearchInv'
<1>0. SearchTypes /\ Populated # {} /\ NoEmptyKey /\ children = <<>>
      /\ \A s \in Ids : Len(individuals[s]) <= 2 * PopulationSize /\ stagnation[s] <= generation
  BY DEF SearchInv, CheckImprovement, Alive, Sizes, OneCheckEach, FailuresContained
<1>1. /\ individuals' = [s \in Ids |-> ByFitness(individuals[s])]
      /\ stagnation' = [s \in Ids |->
           IF s \in Populated THEN (IF NotImproved(s) THEN stagnation[s] + 1 ELSE 0)
                              ELSE stagnation[s]]
      /\ pc' = IF \A s \in species : s \in Populated /\ AtLimit(stagnation'[s])
               THEN "collect" ELSE "select"
      /\ UNCHANGED <<iterations, patience, species, children, quota, generation, results>>
  BY DEF CheckImprovement, inputs
<1>2. \A s \in Ids : /\ individuals'[s] \in Seq(Individuals)
                     /\ Len(individuals'[s]) = Len(individuals[s])
                     /\ individuals[s] # <<>> => individuals'[s] # <<>>
  BY <1>0, <1>1, Sorted, SortKeepsTop DEF SearchTypes
<1>3. \A s \in Ids : stagnation'[s] \in Nat /\ stagnation'[s] <= generation + 1
  <2> SUFFICES ASSUME NEW s \in Ids PROVE stagnation'[s] \in Nat /\ stagnation'[s] <= generation + 1
    OBVIOUS
  <2>1. stagnation[s] \in Nat /\ generation \in Nat /\ stagnation[s] <= generation
    BY <1>0 DEF SearchTypes
  <2>2. stagnation'[s] \in {stagnation[s] + 1, 0, stagnation[s]}
    BY <1>1
  <2> QED BY <2>1, <2>2
<1>4. SearchTypes'
  <2>1. individuals' \in [Ids -> Seq(Individuals)]
    BY <1>1, <1>2
  <2>2. stagnation' \in [Ids -> Nat]
    BY <1>1, <1>3
  <2> QED BY <1>0, <1>1, <2>1, <2>2 DEF SearchTypes
<1>5. Alive'
  <2>1. PICK s \in species : individuals[s] # <<>>
    BY <1>0 DEF Populated
  <2>2. s \in Ids
    BY <1>0 DEF SearchTypes
  <2>3. individuals'[s] # <<>> /\ s \in species'
    BY <1>1, <1>2, <2>1, <2>2
  <2> QED BY <2>3 DEF Alive, Populated
<1>6. Sizes' /\ OneCheckEach' /\ Untouched'
  BY <1>0, <1>1, <1>2, <1>3 DEF Sizes, OneCheckEach, Untouched
<1>7. PatienceKept'
  <2> SUFFICES ASSUME pc' = "collect" PROVE generation + 1 >= patience
    BY <1>1 DEF PatienceKept
  <2>1. PICK s \in species : s \in Populated
    BY <1>0 DEF Populated
  <2>2. stagnation'[s] >= patience
    BY <1>1, <2>1 DEF AtLimit
  <2>3. patience \in Nat /\ generation \in Nat /\ s \in Ids
    BY <1>0, OlagsaAssumption DEF SearchTypes
  <2> QED BY <1>3, <2>2, <2>3
<1>8. NoEmptyKey' /\ UnassignedOnlyAfterExtinction' /\ BroodBounded'
  BY <1>0, <1>1 DEF NoEmptyKey, UnassignedOnlyAfterExtinction, BroodBounded
<1> QED BY <1>4, <1>5, <1>6, <1>7, <1>8 DEF SearchInv, FailuresContained, SearchBudget

\* The selection halves the lists and divides a bounded brood.
LEMMA SelectKeeps == ASSUME SearchInv, Select PROVE SearchInv'
<1>0. SearchTypes /\ Populated # {} /\ NoEmptyKey /\ children = <<>>
      /\ (\A s \in Ids : Len(individuals[s]) <= 2 * PopulationSize)
      /\ \A s \in Ids : stagnation[s] <= generation + 1
  BY DEF SearchInv, Select, Alive, Sizes, OneCheckEach, FailuresContained
<1>1. /\ AdjustedTotal \in Nat /\ AdjustedTotal > 0
      /\ \A s \in Populated : NumChildren(s) \in Nat
      /\ \A g : (\A s \in Populated : g[s] = NumChildren(s)) =>
                  SumFunctionOnSet(g, Populated) <= PopulationSize
  BY <1>0, Brood
<1>2. AdjustedTotal # 0
  <2> HIDE DEF AdjustedTotal
  <2> QED BY <1>1
<1>3. /\ species' = Populated
      /\ individuals' = [s \in Ids |-> Cull(individuals[s])]
      /\ quota' = [s \in Ids |-> IF s \in Populated THEN NumChildren(s) ELSE 0]
      /\ pc' = "breed"
      /\ UNCHANGED <<iterations, patience, stagnation, children, generation, results>>
  BY <1>2 DEF Select, inputs
<1>4. Populated \subseteq Ids
  BY <1>0 DEF Populated, SearchTypes
<1>5. \A s \in Ids : /\ individuals'[s] \in Seq(Individuals)
                     /\ Len(individuals'[s]) <= PopulationSize
                     /\ individuals[s] # <<>> => individuals'[s] # <<>>
  BY <1>0, <1>3, Culled DEF SearchTypes
<1>6. SearchTypes'
  <2>1. individuals' \in [Ids -> Seq(Individuals)]
    BY <1>3, <1>5
  <2>2. quota' \in [Ids -> Nat]
    BY <1>1, <1>3
  <2> QED BY <1>0, <1>3, <1>4, <2>1, <2>2 DEF SearchTypes
<1>7. Alive'
  <2>1. PICK s \in Populated : TRUE
    BY <1>0
  <2>2. individuals'[s] # <<>> /\ s \in species'
    BY <1>3, <1>4, <1>5, <2>1 DEF Populated
  <2> QED BY <2>2 DEF Alive, Populated
<1>8. BroodBounded'
  <2>1. \A s \in Populated : quota'[s] = NumChildren(s)
    BY <1>3, <1>4
  <2>2. SumFunctionOnSet(quota', Populated) <= PopulationSize
    BY <1>1, <2>1
  <2>3. SumFunctionOnSet(quota', Populated) \in Int
    <3>1. IsFiniteSet(Populated) /\ \A s \in Populated : quota'[s] \in Int
      BY <1>1, <1>4, <2>1, IdsFinite
    <3> QED BY <3>1, SumInt
  <2>4. Len(children') = 0
    BY <1>0, <1>3
  <2>5. Len(children') + SumFunctionOnSet(quota', species') <= PopulationSize
    BY ONLY <1>3, <2>2, <2>3, <2>4
  <2> QED BY <2>5 DEF BroodBounded
<1>9. Sizes' /\ OneCheckEach' /\ Untouched'
  BY <1>0, <1>3, <1>5 DEF Sizes, OneCheckEach, Untouched
<1>10. NoEmptyKey' /\ UnassignedOnlyAfterExtinction' /\ PatienceKept'
  BY <1>0, <1>3 DEF NoEmptyKey, UnassignedOnlyAfterExtinction, PatienceKept
<1> QED BY <1>6, <1>7, <1>8, <1>9, <1>10 DEF SearchInv, FailuresContained, SearchBudget

\* A child more is one less to breed.
LEMMA BreedKeeps == ASSUME SearchInv, Breed PROVE SearchInv'
<1>0. SearchTypes /\ Populated # {} /\ NoEmptyKey /\ pc = "breed"
      /\ Len(children) + SumFunctionOnSet(quota, species) <= PopulationSize
      /\ (\A s \in Ids : Len(individuals[s]) <= PopulationSize)
      /\ \A s \in Ids : stagnation[s] <= generation + 1
  BY DEF SearchInv, Breed, Alive, Sizes, OneCheckEach, FailuresContained, SearchBudget, BroodBounded
<1>1. PICK s \in species : quota[s] > 0 /\ quota' = [quota EXCEPT ![s] = @ - 1]
  BY DEF Breed
<1>2. PICK c \in Candidates : children' = Append(children, c)
  BY DEF Breed, Offspring
<1>3. UNCHANGED <<pc, iterations, patience, species, individuals, stagnation, generation, results>>
  BY DEF Breed, inputs
<1>4. s \in Ids /\ quota \in [Ids -> Nat] /\ c \in Kids /\ children \in Seq(Kids) /\ species \subseteq Ids
  BY <1>0, CandidatesTyped DEF SearchTypes
<1>5. quota' \in [Ids -> Nat] /\ quota'[s] = quota[s] - 1
      /\ \A r \in Ids \ {s} : quota'[r] = quota[r]
  BY <1>1, <1>4
<1>6. children' \in Seq(Kids) /\ Len(children') = Len(children) + 1
  BY <1>2, <1>4
<1>7. SearchTypes'
  BY <1>0, <1>3, <1>5, <1>6 DEF SearchTypes
<1>8. BroodBounded'
  <2> DEFINE R == species \ {s}
  <2>1. IsFiniteSet(species) /\ IsFiniteSet(R)
    BY <1>4, IdsFinite
  <2>2. \A r \in species : quota[r] \in Int /\ quota'[r] \in Int
    BY <1>4, <1>5
  <2>3. /\ SumFunctionOnSet(quota, species) = quota[s] + SumFunctionOnSet(quota, R)
        /\ SumFunctionOnSet(quota', species) = quota'[s] + SumFunctionOnSet(quota', R)
    BY <2>1, <2>2, SumRemove
  <2>4. SumFunctionOnSet(quota, R) = SumFunctionOnSet(quota', R)
    <3>1. \A r \in R : quota[r] \in Int /\ quota[r] = quota'[r]
      BY <1>4, <1>5
    <3> QED BY <2>1, <3>1, SumEqual
  <2>5. SumFunctionOnSet(quota, R) \in Int
    BY <2>1, <2>2, SumInt
  <2>6. quota[s] \in Nat /\ Len(children) \in Nat /\ PopulationSize \in Nat
    BY <1>4, OlagsaAssumption
  <2>7. Len(children') + SumFunctionOnSet(quota', species) <= PopulationSize
    BY ONLY <1>0, <1>5, <1>6, <2>3, <2>4, <2>5, <2>6
  <2> QED BY <1>3, <2>7 DEF BroodBounded
<1>9. Alive'
  BY <1>0, <1>3 DEF Alive, Populated
<1>10. Sizes' /\ OneCheckEach' /\ Untouched'
  BY <1>0, <1>3 DEF Sizes, OneCheckEach, Untouched
<1>11. NoEmptyKey' /\ UnassignedOnlyAfterExtinction' /\ PatienceKept'
  BY <1>0, <1>3 DEF NoEmptyKey, UnassignedOnlyAfterExtinction, PatienceKept
<1> QED BY <1>7, <1>8, <1>9, <1>10, <1>11 DEF SearchInv, FailuresContained, SearchBudget

\* The children at most double the lists, and none is lost while every species
\* is still in the list.
LEMMA AssignChildrenKeeps == ASSUME SearchInv, AssignChildren PROVE SearchInv'
<1>0. SearchTypes /\ Populated # {} /\ NoEmptyKey /\ pc = "breed"
      /\ Len(children) + SumFunctionOnSet(quota, species) <= PopulationSize
      /\ (\A s \in Ids : Len(individuals[s]) <= PopulationSize)
      /\ \A s \in Ids : stagnation[s] <= generation + 1
  BY DEF SearchInv, AssignChildren, Alive, Sizes, OneCheckEach, FailuresContained, SearchBudget, BroodBounded
<1>1. children' = <<>> /\ UNCHANGED <<iterations, patience, species, stagnation, quota, results>>
  BY DEF AssignChildren, inputs
<1>2. children' \in Seq(Kids)
  BY <1>1
<1>3. CASE Lost
  <2>1. pc' = "unassigned" /\ UNCHANGED <<individuals, generation>>
    BY <1>3 DEF AssignChildren
  <2>2. SearchTypes'
    BY <1>0, <1>1, <1>2, <2>1 DEF SearchTypes
  <2>3. species # Ids
    <3>1. PICK i \in DOMAIN children : Home(children[i]) = 0
      BY <1>3 DEF Lost
    <3>2. children[i] \in Kids
      BY <1>0, <3>1 DEF SearchTypes
    <3> QED BY <1>0, <3>1, <3>2, HomeInList
  <2>4. UnassignedOnlyAfterExtinction'
    BY <1>1, <2>3 DEF UnassignedOnlyAfterExtinction
  <2>5. Untouched' /\ Alive' /\ Sizes' /\ OneCheckEach'
    BY <2>1 DEF Untouched, Alive, Sizes, OneCheckEach
  <2>6. NoEmptyKey' /\ BroodBounded' /\ PatienceKept'
    BY <1>0, <1>1, <2>1 DEF NoEmptyKey, BroodBounded, PatienceKept
  <2> QED BY <2>2, <2>4, <2>5, <2>6 DEF SearchInv, FailuresContained, SearchBudget
<1>4. CASE ~Lost
  <2>1. individuals' = Assigned(individuals) /\ generation' = generation + 1 /\ pc' = "check"
    BY <1>4 DEF AssignChildren
  <2>2. generation \in Nat /\ PopulationSize \in Nat /\ Len(children) \in Nat
    BY <1>0, OlagsaAssumption DEF SearchTypes
  <2>3. SearchTypes'
    BY <1>0, <1>1, <1>2, <2>1, <2>2, AssignedLists DEF SearchTypes
  <2>4. Alive'
    <3>1. PICK s \in species : individuals[s] # <<>>
      BY <1>0 DEF Populated
    <3>2. s \in Ids
      BY <1>0 DEF SearchTypes
    <3>3. individuals'[s] # <<>> /\ s \in species'
      BY <1>0, <1>1, <2>1, <3>1, <3>2, AssignedLists
    <3> QED BY <3>3 DEF Alive, Populated
  <2>5. Len(children) <= PopulationSize
    <3>1. IsFiniteSet(species) /\ \A s \in species : quota[s] \in Nat
      BY <1>0, IdsFinite DEF SearchTypes
    <3>2. SumFunctionOnSet(quota, species) \in Nat
      BY <3>1, SumNat
    <3> QED BY ONLY <1>0, <2>2, <3>2
  <2>6. Sizes'
    <3>1. \A s \in Ids : Len(individuals'[s]) <= 2 * PopulationSize
      <4> SUFFICES ASSUME NEW s \in Ids PROVE Len(individuals'[s]) <= 2 * PopulationSize
        OBVIOUS
      <4> DEFINE n == Cardinality(Newcomers(s))
      <4>1. n \in Nat /\ n <= Len(children) /\ Len(individuals'[s]) = Len(individuals[s]) + n
        BY <1>0, <2>1, AssignedLists
      <4>2. Len(individuals[s]) \in Nat /\ Len(individuals[s]) <= PopulationSize
        BY <1>0 DEF SearchTypes
      <4> HIDE DEF n
      <4> QED BY ONLY <2>2, <2>5, <4>1, <4>2
    <3> QED BY <1>1, <2>1, <3>1 DEF Sizes
  <2>7. OneCheckEach' /\ Untouched'
    BY <1>0, <1>1, <2>1 DEF OneCheckEach, Untouched
  <2>8. NoEmptyKey' /\ UnassignedOnlyAfterExtinction' /\ BroodBounded' /\ PatienceKept'
    BY <1>0, <1>1, <2>1 DEF NoEmptyKey, UnassignedOnlyAfterExtinction, BroodBounded, PatienceKept
  <2> QED BY <2>3, <2>4, <2>6, <2>7, <2>8 DEF SearchInv, FailuresContained, SearchBudget
<1> QED BY <1>3, <1>4

\* A step that changes nothing.
LEMMA SearchStutters == ASSUME SearchInv, UNCHANGED vars PROVE SearchInv'
BY DEF SearchInv, vars, inputs, history, SearchTypes, Untouched, Alive, Populated, Sizes,
       OneCheckEach, FailuresContained, NoEmptyKey, UnassignedOnlyAfterExtinction,
       SearchBudget, BroodBounded, PatienceKept

\* The invariant of the search holds in every state, whatever is drawn and
\* whatever the solver answers.
THEOREM SearchIsSound == Spec => []SearchInv
<1>1. ASSUME SearchInv, [Next]_vars PROVE SearchInv'
  <2>1. CASE SolveSingle \/ Collect \/ SolverRaises
    BY <1>1, <2>1, EndingSteps
  <2>2. CASE Populate
    BY <1>1, <2>2, PopulateKeeps
  <2>3. CASE FirstAssignment
    BY <1>1, <2>3, FirstAssignmentKeeps
  <2>4. CASE CheckImprovement
    BY <1>1, <2>4, CheckKeeps
  <2>5. CASE Select
    BY <1>1, <2>5, SelectKeeps
  <2>6. CASE Breed
    BY <1>1, <2>6, BreedKeeps
  <2>7. CASE AssignChildren
    BY <1>1, <2>7, AssignChildrenKeeps
  <2>8. CASE UNCHANGED vars
    BY <1>1, <2>8, SearchStutters
  <2> QED BY <1>1, <2>1, <2>2, <2>3, <2>4, <2>5, <2>6, <2>7, <2>8 DEF Next
<1> QED BY <1>1, SearchInitial, PTL DEF Spec

\* No key without an iteration is returned, and a child finds no species only
\* when one has died out: _assign_species never raises because of where the
\* regions touch (olagsa/algorithm.py:44-56, ga.py:220-233).
THEOREM FailuresAreContained == Spec => []FailuresContained
<1>1. SearchInv => FailuresContained
  BY DEF SearchInv
<1> QED BY <1>1, SearchIsSound, PTL

\* However the fitness is spread, the truncated shares of _select_and_breed
\* never breed more than PopulationSize children, and a search that stops early
\* has had patience checks (ga.py:333-363).
THEOREM SearchKeepsItsBudget == Spec => []SearchBudget
<1>1. SearchInv => SearchBudget
  BY DEF SearchInv
<1> QED BY <1>1, SearchIsSound, PTL

\* No sort, cull or assignment loses the best individual of a species
\* (ga.py:215-233, 327-355).
THEOREM BestIsKept == Spec => BestKept
<1>1. ASSUME SearchInv, [Next]_vars, NEW s \in Populated
      PROVE  individuals'[s] # <<>> /\ (TopFitness(s))' >= TopFitness(s)
  <2> DEFINE l == individuals[s]
             m == individuals'[s]
  <2>0. SearchTypes /\ s \in Ids /\ l \in Seq(Individuals) /\ l # <<>>
    BY <1>1 DEF SearchInv, SearchTypes, Populated
  <2>1. (TopFitness(s))' = Top(m) /\ TopFitness(s) = Top(l)
    BY DEF TopFitness, Top
  <2>2. CASE m = l
    <3> HIDE DEF l, m
    <3>1. \A i \in 1 .. Len(l) : l[i] \in Individuals /\ l[i].fitness >= l[i].fitness
      <4> SUFFICES ASSUME NEW i \in 1 .. Len(l) PROVE l[i] \in Individuals /\ l[i].fitness >= l[i].fitness
        OBVIOUS
      <4>1. l[i] \in Individuals
        BY <2>0
      <4>2. l[i].fitness \in Nat
        BY <4>1 DEF Individuals
      <4> QED BY <4>1, <4>2
    <3>2. Top(l) >= Top(l)
      BY <2>0, <3>1, TopRises
    <3> QED BY <2>0, <2>1, <2>2, <3>2 DEF m
  <2>3. CASE m = ByFitness(l)
    <3> HIDE DEF l
    <3> QED BY <2>0, <2>1, <2>3, SortKeepsTop
  <2>4. CASE m = Cull(l)
    <3> HIDE DEF l
    <3> QED BY <2>0, <2>1, <2>4, Culled
  <2>5. CASE m = Assigned(individuals)[s]
    BY <2>0, <2>1, <2>5, AssignedLists
  <2>6. CASE SolveSingle \/ Populate \/ Breed \/ SolverRaises \/ UNCHANGED vars
    <3>1. m = l
      BY <2>6 DEF SolveSingle, Populate, Breed, SolverRaises, vars
    <3> QED BY <2>2, <3>1
  <2>7. CASE CheckImprovement \/ Collect
    <3>1. m = ByFitness(l)
      BY <2>0, <2>7 DEF CheckImprovement, Collect
    <3> QED BY <2>3, <3>1
  <2>8. CASE Select
    <3>1. m = Cull(l)
      BY <2>0, <2>8 DEF Select
    <3> QED BY <2>4, <3>1
  <2>9. CASE AssignChildren
    <3>1. m = l \/ m = Assigned(individuals)[s]
      BY <2>9 DEF AssignChildren
    <3> QED BY <2>2, <2>5, <3>1
  <2>10. CASE FirstAssignment
    <3>1. l = <<>>
      BY <1>1, <2>0, <2>10 DEF FirstAssignment, SearchInv, Untouched
    <3> QED BY <2>0, <3>1
  <2> QED BY <1>1, <2>6, <2>7, <2>8, <2>9, <2>10 DEF Next
<1>2. SearchInv /\ [Next]_vars =>
        [\A s \in Populated : individuals'[s] # <<>> /\ (TopFitness(s))' >= TopFitness(s)]_vars
  BY <1>1
<1> QED BY <1>2, SearchIsSound, PTL DEF Spec, BestKept

\* The children of a generation are counted once: the sizes of the species grow
\* by as many as were bred, also where regions overlap (ga.py:215-233).
THEOREM EachChildJoinsOnce == Spec => EachChildOnce
<1>1. ASSUME SearchInv, [Next]_vars, pc = "breed", pc' = "check"
      PROVE  Count' = Count + Len(children)
  <2>1. AssignChildren
    BY <1>1 DEF Next, SolveSingle, Populate, FirstAssignment, CheckImprovement, Select,
                Breed, Collect, SolverRaises, SearchOver, vars
  <2>2. ~Lost /\ individuals' = Assigned(individuals)
    BY <1>1, <2>1 DEF AssignChildren
  <2>3. SearchTypes
    BY <1>1 DEF SearchInv
  <2> DEFINE D == DOMAIN children
             h == [i \in D |-> Home(children[i])]
             a == [s \in Ids |-> Len(individuals[s])]
             b == [s \in Ids |-> Len(individuals'[s])]
             c == [s \in Ids |-> Cardinality(Newcomers(s))]
  <2>4. Count = SumFunctionOnSet(a, Ids) /\ Count' = SumFunctionOnSet(b, Ids)
    <3>1. DOMAIN a = Ids /\ DOMAIN b = Ids
      OBVIOUS
    <3>2. Count = SumFunction(a)
      BY DEF Count
    <3>3. Count' = SumFunction(b)
      BY DEF Count
    <3> HIDE DEF a, b
    <3> QED BY <3>1, <3>2, <3>3, SumDomain
  <2>5. \A s \in Ids : a[s] \in Int /\ c[s] \in Int /\ b[s] = a[s] + c[s]
    <3> SUFFICES ASSUME NEW s \in Ids PROVE a[s] \in Int /\ c[s] \in Int /\ b[s] = a[s] + c[s]
      OBVIOUS
    <3>1. Len(individuals[s]) \in Nat
      BY <2>3 DEF SearchTypes
    <3>2. /\ Cardinality(Newcomers(s)) \in Nat
          /\ Len(individuals'[s]) = Len(individuals[s]) + Cardinality(Newcomers(s))
      BY <2>2, <2>3, AssignedLists
    <3> QED BY <3>1, <3>2
  <2>6. D = 1 .. Len(children) /\ Len(children) \in Nat
    BY <2>3 DEF SearchTypes
  <2>7. IsFiniteSet(D) /\ Cardinality(D) = Len(children)
    <3> DEFINE n == Len(children)
    <3>1. n \in Nat /\ n \in Int /\ n >= 0
      BY <2>6
    <3> HIDE DEF n
    <3>2. IsFiniteSet(1 .. n) /\ Cardinality(1 .. n) = IF 1 > n THEN 0 ELSE n - 1 + 1
      BY <3>1, FS_Interval
    <3>3. IsFiniteSet(1 .. n) /\ Cardinality(1 .. n) = n
      BY <3>1, <3>2
    <3> QED BY <2>6, <3>3 DEF n
  <2>8. \A i \in D : h[i] \in Ids
    <3> SUFFICES ASSUME NEW i \in D PROVE Home(children[i]) \in Ids
      OBVIOUS
    <3>1. children[i] \in Kids
      BY <2>3 DEF SearchTypes
    <3>2. Home(children[i]) # 0
      BY <2>2 DEF Lost
    <3> QED BY <2>3, <3>1, <3>2, HomeInList DEF SearchTypes
  <2>9. \A s \in Ids : c[s] = Cardinality(Fibre(D, h, s))
    <3> SUFFICES ASSUME NEW s \in Ids PROVE Newcomers(s) = Fibre(D, h, s)
      OBVIOUS
    <3> QED BY DEF Newcomers, Fibre
  <2> HIDE DEF D, h, a, b, c
  <2>10. SumFunctionOnSet(c, Ids) = Cardinality(D)
    <3>1. IsFiniteSet(Ids) /\ IsFiniteSet(D)
      BY <2>7, IdsFinite
    <3> QED BY ONLY <2>8, <2>9, <3>1, SumOfFibres
  <2>11. SumFunctionOnSet(b, Ids) = SumFunctionOnSet(a, Ids) + SumFunctionOnSet(c, Ids)
    BY <2>5, IdsFinite, SumAdd
  <2> QED BY <2>4, <2>7, <2>10, <2>11
<1>2. SearchInv /\ [Next]_vars =>
        [pc = "breed" /\ pc' = "check" => Count' = Count + Len(children)]_vars
  BY <1>1
<1> QED BY <1>2, SearchIsSound, PTL DEF Spec, EachChildOnce
=============================================================================
