--------------------------- MODULE AllocationProofs ---------------------------
(***************************************************************************)
(* AllocationRounds conserves energy and demand, for every number of       *)
(* consumers and rounds and every demand and production. BruteForce's keys *)
(* balance in exact rationals, report shares of the whole and are optimal  *)
(* when they end with prorata, for every number of consumers, time steps   *)
(* and parts.                                                              *)
(*                                                                         *)
(* The second needs arithmetic: pairs in lowest terms are the rationals,   *)
(* because Euclid's algorithm gives a divisor that combines the two        *)
(* members, and SumOver adds its terms one by one.                         *)
(***************************************************************************)
EXTENDS AllocationRounds, BruteForce, Sums, TLAPS

-----------------------------------------------------------------------------
(* The rounds of a time step.                                               *)

\* A round over is a round handed out, and the last round takes the rest: what
\* LastSurplusIsUnused needs besides the conservation of energy.
HandedOut ==
  /\ todo = {} => left = 0
  /\ round = MaxRounds => unshared = 0

RoundsInv == TypeOK /\ EnergyConserved /\ DemandConserved /\ HandedOut

\* Larger(0, x) is the clamp of numpy.maximum(0.0, x).
LEMMA ClampNat ==
  ASSUME NEW x \in Int
  PROVE  /\ Larger(0, x) \in Nat
         /\ x >= 0 => Larger(0, x) = x
         /\ x <= 0 => Larger(0, x) = 0
BY DEF Larger

\* The invariant holds before the first round.
LEMMA InitRoundsInv == RoundsInit => RoundsInv
<1> SUFFICES ASSUME RoundsInit
             PROVE  RoundsInv
    OBVIOUS
<1>1. /\ demand \in [RoundConsumers -> Nat] /\ production \in Nat
      /\ MaxRounds \in Nat \ {0}
  BY AllocationAssumption DEF RoundsInit
<1>2. TypeOK
  <2>1. consumed \in [RoundConsumers -> Nat]
    BY DEF RoundsInit
  <2>2. stopped \in BOOLEAN
    BY DEF RoundsInit
  <2>3. /\ round \in 0 .. MaxRounds /\ todo \subseteq RoundConsumers
        /\ unshared \in Nat /\ left \in Nat /\ used \in Nat /\ round_surplus \in Nat
    BY <1>1 DEF RoundsInit
  <2>4. round_consumption \in [RoundConsumers -> Nat] /\ residual \in [RoundConsumers -> Nat]
    BY <1>1 DEF RoundsInit
  <2> QED BY <1>1, <2>1, <2>2, <2>3, <2>4 DEF TypeOK
<1>3. EnergyConserved /\ HandedOut
  BY <1>1 DEF RoundsInit, EnergyConserved, HandedOut
<1>4. DemandConserved
  BY <1>1 DEF RoundsInit, DemandConserved
<1> QED BY <1>2, <1>3, <1>4 DEF RoundsInv

\* Each step keeps it.
LEMMA NextRoundsInv == RoundsInv /\ [RoundsNext]_roundVars => RoundsInv'
<1> SUFFICES ASSUME RoundsInv, [RoundsNext]_roundVars
             PROVE  RoundsInv'
    OBVIOUS
<1> USE AllocationAssumption
<1>1. ASSUME NEW share \in 0 .. unshared, OpenRound(share)
      PROVE  RoundsInv'
  <2>1. TypeOK'
    BY <1>1 DEF RoundsInv, TypeOK, OpenRound, Available, NextConsumption
  <2>2. EnergyConserved'
    BY <1>1 DEF RoundsInv, TypeOK, EnergyConserved, HandedOut, OpenRound, Available
  <2>3. DemandConserved'
    BY <1>1 DEF RoundsInv, TypeOK, DemandConserved, OpenRound, NextConsumption
  <2>4. HandedOut'
    BY <1>1 DEF RoundsInv, TypeOK, HandedOut, OpenRound, ShareAllowed
  <2> QED BY <2>1, <2>2, <2>3, <2>4 DEF RoundsInv
<1>2. ASSUME NEW c \in RoundConsumers, NEW energy \in 0 .. left, Allot(c, energy)
      PROVE  RoundsInv'
  <2> DEFINE served == IF energy <= round_consumption[c] THEN energy ELSE round_consumption[c]
             missing == Larger(0, round_consumption[c] - energy)
             excess == Larger(0, energy - round_consumption[c])
  <2>0. /\ energy \in Nat /\ energy <= left /\ round_consumption[c] \in Nat
        /\ c \in todo /\ used \in Nat /\ left \in Nat /\ round_surplus \in Nat
    BY <1>2 DEF RoundsInv, TypeOK, Allot
  <2>1. /\ served \in Nat /\ missing \in Nat /\ excess \in Nat
        /\ served + missing = round_consumption[c]
        /\ served + excess = energy
    BY <2>0, ClampNat
  <2>2. /\ left' = left - energy
        /\ used' = used + served
        /\ round_surplus' = round_surplus + excess
        /\ consumed' = [consumed EXCEPT ![c] = @ + served]
        /\ residual' = [residual EXCEPT ![c] = missing]
        /\ todo' = todo \ {c}
        /\ UNCHANGED <<demand, production, round, unshared, round_consumption, stopped>>
    BY <1>2 DEF Allot
  <2> HIDE DEF served, missing, excess
  <2>3. TypeOK'
    BY <2>0, <2>1, <2>2 DEF RoundsInv, TypeOK
  <2>4. EnergyConserved'
    BY <2>0, <2>1, <2>2 DEF RoundsInv, TypeOK, EnergyConserved
  <2>5. DemandConserved'
    <3> SUFFICES ASSUME NEW d \in RoundConsumers
                 PROVE  consumed'[d] + (IF d \in todo' THEN round_consumption'[d]
                                                       ELSE residual'[d]) = demand'[d]
        BY DEF DemandConserved
    <3>1. consumed[d] + (IF d \in todo THEN round_consumption[d] ELSE residual[d]) = demand[d]
      BY DEF RoundsInv, DemandConserved
    <3>2. CASE d = c
      BY <2>0, <2>1, <2>2, <3>1, <3>2 DEF RoundsInv, TypeOK
    <3>3. CASE d # c
      BY <2>2, <3>1, <3>3 DEF RoundsInv, TypeOK
    <3> QED BY <3>2, <3>3
  <2>6. HandedOut'
    <3>1. todo' = {} => todo = {c}
      BY <2>0, <2>2
    <3>2. todo = {c} => energy = left
      BY <1>2 DEF Allot
    <3> QED BY <2>0, <2>2, <3>1, <3>2 DEF RoundsInv, HandedOut
  <2> QED BY <2>3, <2>4, <2>5, <2>6 DEF RoundsInv
<1>3. ASSUME StopKey
      PROVE  RoundsInv'
  BY <1>3 DEF RoundsInv, TypeOK, EnergyConserved, DemandConserved, HandedOut, StopKey
<1>4. CASE UNCHANGED roundVars
  BY <1>4 DEF RoundsInv, TypeOK, EnergyConserved, DemandConserved, HandedOut, roundVars
<1> QED BY <1>1, <1>2, <1>3, <1>4 DEF RoundsNext

\* It holds in every state.
LEMMA RoundsInvHolds == RoundsSpec => []RoundsInv
BY InitRoundsInv, NextRoundsInv, PTL DEF RoundsSpec

\* The rounds lose no energy and make none up, however the distribution
\* functions or the solver split a round.
THEOREM EnergyIsConserved == RoundsSpec => []EnergyConserved
<1>1. RoundsInv => EnergyConserved
  BY DEF RoundsInv
<1> QED BY <1>1, RoundsInvHolds, PTL

\* No consumer is served beyond its demand, and each round starts from exactly
\* what the rounds before have left of it.
THEOREM DemandIsConserved == RoundsSpec => []DemandConserved
<1>1. RoundsInv => DemandConserved
  BY DEF RoundsInv
<1> QED BY <1>1, RoundsInvHolds, PTL

\* The surplus that ranks the keys is the unused part of the production.
THEOREM RankedByUnusedEnergy == RoundsSpec => []LastSurplusIsUnused
<1>1. RoundsInv => LastSurplusIsUnused
  BY DEF RoundsInv, TypeOK, EnergyConserved, HandedOut, LastSurplusIsUnused, RoundsComplete
<1> QED BY <1>1, RoundsInvHolds, PTL

\* Both together: every unit of the production is accounted for, between the
\* rounds and at the end of a key.
THEOREM EnergyIsAccounted == RoundsSpec => []EnergyAccounted
<1>1. EnergyConserved /\ LastSurplusIsUnused => EnergyAccounted
  BY DEF EnergyAccounted
<1> QED BY <1>1, EnergyIsConserved, RankedByUnusedEnergy, PTL

-----------------------------------------------------------------------------
(* The greatest common divisor.                                             *)

\* g follows Euclid's algorithm for second arguments up to n.
Euclid(g, n) ==
  \A p \in Nat \X (0 .. n) :
    g[p] = IF p[2] = 0 THEN p[1] ELSE g[<<p[2], p[1] % p[2]>>]

\* A remainder is smaller than what it is of.
LEMMA Remainder ==
  \A a \in Nat : \A b \in Nat \ {0} :
    /\ a % b \in 0 .. b - 1 /\ a \div b \in Nat /\ a = b * (a \div b) + (a % b)
OBVIOUS

\* It is smaller than every bound of the divisor.
LEMMA SmallRemainder ==
  ASSUME NEW a \in Nat, NEW b \in Nat \ {0}, NEW n \in Nat, b <= n + 1
  PROVE  a % b \in 0 .. n
<1> DEFINE r == a % b
<1>1. r \in 0 .. b - 1
  BY Remainder
<1> HIDE DEF r
<1>2. r \in 0 .. n
  BY <1>1
<1> QED BY <1>2 DEF r

\* The algorithm descends, so that it defines a function.
LEMMA EuclidExists == \A n \in Nat : \E g : Euclid(g, n)
<1> DEFINE Good == {n \in Nat : \E g : Euclid(g, n)}
<1>1. 0 \in Good
  <2> DEFINE g == [p \in Nat \X (0 .. 0) |-> p[1]]
  <2>1. Euclid(g, 0)
    BY DEF Euclid
  <2> QED BY <2>1
<1>2. ASSUME NEW n \in Nat, n \in Good PROVE n + 1 \in Good
  <2>1. PICK g : Euclid(g, n)
    BY <1>2
  <2> DEFINE h == [p \in Nat \X (0 .. n + 1) |->
                     IF p[2] <= n THEN g[p] ELSE g[<<p[2], p[1] % p[2]>>]]
  <2>2. ASSUME NEW p \in Nat \X (0 .. n + 1)
        PROVE  h[p] = IF p[2] = 0 THEN p[1] ELSE h[<<p[2], p[1] % p[2]>>]
    <3>1. CASE p[2] = 0
      <4>1. p \in Nat \X (0 .. n)
        BY <3>1
      <4>2. g[p] = p[1]
        <5> HIDE DEF h
        <5> QED BY <2>1, <3>1, <4>1 DEF Euclid
      <4>3. h[p] = g[p]
        BY <3>1
      <4> QED BY <3>1, <4>2, <4>3
    <3>2. CASE p[2] # 0
      <4> DEFINE q == <<p[2], p[1] % p[2]>>
      <4>1. p[1] \in Nat /\ p[2] \in Nat \ {0} /\ p[2] <= n + 1
        BY <3>2
      <4>2. p[1] % p[2] \in 0 .. n
        BY <4>1, SmallRemainder
      <4>3. q \in Nat \X (0 .. n + 1) /\ q[2] <= n
        BY <4>1, <4>2
      <4>4. h[q] = g[q]
        BY <4>3
      <4>5. h[p] = g[q]
        <5>1. CASE p[2] <= n
          <6>1. p \in Nat \X (0 .. n)
            BY <4>1, <5>1
          <6>2. g[p] = g[q]
            BY <2>1, <3>2, <6>1 DEF Euclid
          <6> QED BY <5>1, <6>2
        <5>2. CASE ~(p[2] <= n)
          BY <5>2
        <5> QED BY <5>1, <5>2
      <4> QED BY <3>2, <4>4, <4>5
    <3> QED BY <3>1, <3>2
  <2> HIDE DEF h
  <2>3. Euclid(h, n + 1)
    BY <2>2 DEF Euclid
  <2> QED BY <2>3
<1> HIDE DEF Good
<1>3. \A n \in Nat : n \in Good
  BY <1>1, <1>2, NatSetInduction
<1> QED BY <1>3 DEF Good

\* And it defines one function only.
LEMMA EuclidUnique ==
  ASSUME NEW n \in Nat, NEW g, NEW h, Euclid(g, n), Euclid(h, n)
  PROVE  \A p \in Nat \X (0 .. n) : g[p] = h[p]
<1> DEFINE Good == {k \in Nat : \A p \in Nat \X (0 .. n) : p[2] <= k => g[p] = h[p]}
<1>1. 0 \in Good
  <2> SUFFICES ASSUME NEW p \in Nat \X (0 .. n), p[2] <= 0 PROVE g[p] = h[p]
    OBVIOUS
  <2>1. p[2] = 0
    OBVIOUS
  <2> QED BY <2>1 DEF Euclid
<1>2. ASSUME NEW k \in Nat, k \in Good PROVE k + 1 \in Good
  <2> SUFFICES ASSUME NEW p \in Nat \X (0 .. n), p[2] <= k + 1 PROVE g[p] = h[p]
    OBVIOUS
  <2>1. CASE p[2] = 0
    BY <2>1 DEF Euclid
  <2>2. CASE p[2] # 0
    <3> DEFINE q == <<p[2], p[1] % p[2]>>
    <3>1. p[1] \in Nat /\ p[2] \in Nat \ {0} /\ p[2] <= n
      BY <2>2
    <3>2. p[1] % p[2] \in Nat /\ p[1] % p[2] <= k /\ p[1] % p[2] <= n
      <4>1. p[1] % p[2] \in 0 .. k /\ p[1] % p[2] \in 0 .. n
        BY <3>1, SmallRemainder
      <4> QED BY <4>1
    <3>3. q \in Nat \X (0 .. n) /\ q[2] <= k
      BY <3>1, <3>2
    <3>4. g[q] = h[q]
      BY <1>2, <3>3
    <3> QED BY <2>2, <3>4 DEF Euclid
  <2> QED BY <2>1, <2>2
<1> HIDE DEF Good
<1>3. \A k \in Nat : k \in Good
  BY <1>1, <1>2, NatSetInduction
<1>4. \A p \in Nat \X (0 .. n) : n \in Good /\ p[2] <= n
  BY <1>3
<1> QED BY <1>4 DEF Good

\* GCD is that function.
LEMMA GCDUnfolds ==
  ASSUME NEW a \in Nat, NEW b \in Nat
  PROVE  GCD[<<a, b>>] = IF b = 0 THEN a ELSE GCD[<<b, a % b>>]
<1> DEFINE G == [p \in Nat \X Nat |-> (CHOOSE g : Euclid(g, p[2]))[p]]
           Rule(g) == g = [p \in Nat \X Nat |-> IF p[2] = 0 THEN p[1] ELSE g[<<p[2], p[1] % p[2]>>]]
<1>1. ASSUME NEW p \in Nat \X Nat
      PROVE  G[p] = IF p[2] = 0 THEN p[1] ELSE G[<<p[2], p[1] % p[2]>>]
  <2> DEFINE f == CHOOSE g : Euclid(g, p[2])
  <2>1. Euclid(f, p[2]) /\ G[p] = f[p] /\ p \in Nat \X (0 .. p[2]) /\ p[1] \in Nat /\ p[2] \in Nat
    BY EuclidExists
  <2>2. CASE p[2] = 0
    BY <2>1, <2>2 DEF Euclid
  <2>3. CASE p[2] # 0
    <3> DEFINE q == <<p[2], p[1] % p[2]>>
               h == CHOOSE g : Euclid(g, q[2])
    <3>1. p[1] % p[2] \in Nat /\ p[1] % p[2] <= p[2]
      BY <2>1, <2>3, Remainder
    <3>2. Euclid(h, q[2]) /\ G[q] = h[q]
      BY <2>1, <3>1, EuclidExists
    <3>3. Nat \X (0 .. q[2]) \subseteq Nat \X (0 .. p[2]) /\ q \in Nat \X (0 .. q[2])
      BY <2>1, <3>1
    <3>4. Euclid(f, q[2])
      <4> HIDE DEF f
      <4> QED BY <2>1, <3>3 DEF Euclid
    <3>5. f[q] = h[q]
      <4>1. q[2] \in Nat
        BY <3>1
      <4> HIDE DEF f, h, q
      <4> QED BY <3>2, <3>3, <3>4, <4>1, EuclidUnique
    <3>6. f[p] = f[q]
      <4> HIDE DEF f
      <4> QED BY <2>1, <2>3 DEF Euclid
    <3> QED BY <2>1, <2>3, <3>2, <3>5, <3>6
  <2> QED BY <2>2, <2>3
<1>2. Rule(G)
  <2>1. G = [p \in Nat \X Nat |-> G[p]]
    OBVIOUS
  <2> HIDE DEF G
  <2> QED BY <1>1, <2>1
<1>3. GCD = CHOOSE g : Rule(g)
  BY DEF GCD
<1> HIDE DEF G
<1>4. Rule(GCD)
  BY <1>2, <1>3
<1>5. <<a, b>> \in Nat \X Nat
  OBVIOUS
<1> QED BY <1>4, <1>5

\* g divides a and b, and is a combination of them.
Divides(g, a, b) ==
  /\ g \in Nat \ {0}
  /\ \E x, y \in Int : a = x * g /\ b = y * g
  /\ \E u, v \in Int : u * a + v * b = g

\* What is true of a divisor and a remainder is true of the dividend.
LEMMA DividesBack ==
  ASSUME NEW a \in Nat, NEW b \in Nat \ {0}, NEW g, Divides(g, b, a % b)
  PROVE  Divides(g, a, b)
<1> DEFINE q == a \div b
           r == a % b
<1>1. q \in Nat /\ r \in Nat /\ a = b * q + r
  <2>1. r \in 0 .. b - 1 /\ q \in Nat /\ a = b * q + r
    BY Remainder
  <2> HIDE DEF q, r
  <2> QED BY <2>1
<1>2. PICK x \in Int, y \in Int : b = x * g /\ r = y * g
  BY DEF Divides
<1>3. PICK u \in Int, v \in Int : u * b + v * r = g
  BY DEF Divides
<1>4. g \in Nat \ {0}
  BY DEF Divides
<1> HIDE DEF q, r
<1>5. a = (x * q + y) * g /\ x * q + y \in Int
  <2>1. a = (x * g) * q + y * g
    BY <1>1, <1>2
  <2>2. (x * g) * q + y * g = (x * q + y) * g
    BY <1>1, <1>4
  <2> QED BY <1>1, <2>1, <2>2
<1>6. v * a + (u - v * q) * b = g /\ u - v * q \in Int
  <2>1. v * (b * q + r) + (u - v * q) * b = u * b + v * r
    BY <1>1
  <2> QED BY <1>1, <1>3, <2>1
<1> QED BY <1>2, <1>4, <1>5, <1>6 DEF Divides

\* So Euclid's algorithm ends with such a divisor.
LEMMA GCDDivides ==
  ASSUME NEW a \in Nat, NEW b \in Nat \ {0}
  PROVE  Divides(GCD[<<a, b>>], a, b)
<1> DEFINE Good == {n \in Nat : \A c \in Nat, d \in 0 .. n : c + d > 0 => Divides(GCD[<<c, d>>], c, d)}
<1>1. ASSUME NEW c \in Nat \ {0} PROVE Divides(GCD[<<c, 0>>], c, 0)
  <2>1. GCD[<<c, 0>>] = c
    BY GCDUnfolds
  <2>2. c = 1 * c /\ 0 = 0 * c /\ 1 * c + 0 * 0 = c /\ 1 \in Int /\ 0 \in Int
    OBVIOUS
  <2>3. \E x, y \in Int : c = x * c /\ 0 = y * c
    BY <2>2
  <2>4. \E u, v \in Int : u * c + v * 0 = c
    BY <2>2
  <2> QED BY <2>1, <2>3, <2>4 DEF Divides
<1>2. 0 \in Good
  BY <1>1
<1>3. ASSUME NEW n \in Nat, n \in Good PROVE n + 1 \in Good
  <2> SUFFICES ASSUME NEW c \in Nat, NEW d \in 0 .. n + 1, c + d > 0
               PROVE  Divides(GCD[<<c, d>>], c, d)
    OBVIOUS
  <2>1. CASE d = 0
    BY <1>1, <2>1
  <2>2. CASE d # 0
    <3>1. d \in Nat \ {0} /\ c % d \in 0 .. n
      BY <2>2, SmallRemainder
    <3>2. d + (c % d) > 0
      <4> DEFINE r == c % d
      <4>1. r \in Nat
        BY <3>1
      <4> HIDE DEF r
      <4>2. d + r > 0
        BY <3>1, <4>1
      <4> QED BY <4>2 DEF r
    <3>3. Divides(GCD[<<d, c % d>>], d, c % d)
      BY <1>3, <3>1, <3>2
    <3>4. GCD[<<c, d>>] = GCD[<<d, c % d>>]
      BY <3>1, GCDUnfolds
    <3> QED BY <3>1, <3>3, <3>4, DividesBack
  <2> QED BY <2>1, <2>2
<1> HIDE DEF Good
<1>4. b \in Good
  BY <1>2, <1>3, NatSetInduction
<1> QED BY <1>4 DEF Good

-----------------------------------------------------------------------------
(* Rationals.                                                               *)

Denominators == Nat \ {0}

\* A factor of both sides may be dropped.
LEMMA Cancel ==
  ASSUME NEW a \in Int, NEW b \in Int, NEW c \in Denominators, a * c = b * c
  PROVE  a = b
BY DEF Denominators

\* Products of denominators and of integers.
LEMMA Products ==
  /\ \A a, b \in Int : a * b \in Int
  /\ \A a, b \in Denominators : a * b \in Denominators
BY DEF Denominators

\* The quotient of a multiple.
LEMMA Quotient ==
  ASSUME NEW x \in Int, NEW g \in Denominators
  PROVE  (x * g) \div g = x
<1> DEFINE q == (x * g) \div g
           m == (x * g) % g
<1>0. x * g \in Int
  BY DEF Denominators
<1>1. q \in Int /\ m \in 0 .. g - 1 /\ x * g = g * q + m
  <2>1. \A n \in Int : n \div g \in Int /\ n % g \in 0 .. g - 1 /\ n = g * (n \div g) + (n % g)
    BY DEF Denominators
  <2> QED BY <1>0, <2>1
<1> HIDE DEF q, m
<1>2. (x - q) * g = m
  <2>1. (x - q) * g = x * g - g * q
    BY <1>1 DEF Denominators
  <2> QED BY <1>0, <1>1, <2>1 DEF Denominators
<1>3. x - q = 0
  <2> DEFINE z == x - q
  <2>1. z \in Int /\ z * g = m
    BY <1>1, <1>2
  <2> HIDE DEF z
  <2>2. ASSUME z >= 1 PROVE FALSE
    <3>1. z * g >= g
      BY <2>1, <2>2 DEF Denominators
    <3> QED BY <1>1, <2>1, <3>1 DEF Denominators
  <2>3. ASSUME z <= -1 PROVE FALSE
    <3>1. z * g <= -g
      BY <2>1, <2>3 DEF Denominators
    <3> QED BY <1>1, <2>1, <3>1 DEF Denominators
  <2>4. z = 0
    BY <2>1, <2>2, <2>3
  <2> QED BY <2>4 DEF z
<1>4. x = q
  BY <1>1, <1>3
<1> QED BY <1>4 DEF q

\* x is a pair in lowest terms: a combination of its members is 1.
Lowest(x) ==
  /\ x \in Int \X Denominators
  /\ \E u, v \in Int : u * x[1] + v * x[2] = 1

\* Reduction gives a pair in lowest terms for the same number.
LEMMA Reduced ==
  ASSUME NEW n \in Int, NEW d \in Denominators
  PROVE  Lowest(Rat(n, d)) /\ Rat(n, d)[1] * d = n * Rat(n, d)[2]
<1> DEFINE g == GCD[<<Abs(n), d>>]
<1>1. Abs(n) \in Nat /\ (n = Abs(n) \/ n = -Abs(n))
  BY DEF Abs
<1>2. Divides(g, Abs(n), d)
  BY <1>1, GCDDivides DEF Denominators
<1>3. Rat(n, d) = <<n \div g, d \div g>>
  BY DEF Rat
<1> HIDE DEF g
<1>4. PICK x0 \in Int, y \in Int : Abs(n) = x0 * g /\ d = y * g
  BY <1>2 DEF Divides
<1>5. PICK u0 \in Int, v \in Int : u0 * Abs(n) + v * d = g
  BY <1>2 DEF Divides
<1>6. g \in Denominators
  BY <1>2 DEF Divides, Denominators
<1>7. \E x, u \in Int : n = x * g /\ u * n + v * d = g
  <2>1. CASE n = Abs(n)
    BY <1>4, <1>5, <2>1
  <2>2. CASE n = -Abs(n)
    <3>1. n = (-x0) * g
      BY <1>1, <1>4, <1>6, <2>2 DEF Denominators
    <3>2. (-u0) * n = u0 * Abs(n)
      BY <1>1, <2>2
    <3>3. (-u0) * n + v * d = g
      BY <1>5, <3>2
    <3> QED BY <3>1, <3>3
  <2> QED BY <1>1, <2>1, <2>2
<1>8. PICK x \in Int, u \in Int : n = x * g /\ u * n + v * d = g
  BY <1>7
<1>9. Rat(n, d) = <<x, y>>
  BY <1>3, <1>4, <1>6, <1>8, Quotient
<1>10. y \in Denominators
  <2>1. ASSUME y <= 0 PROVE FALSE
    <3>1. y * g <= 0
      BY <1>6, <2>1 DEF Denominators
    <3> QED BY <1>4, <3>1 DEF Denominators
  <2> QED BY <2>1 DEF Denominators
<1>11. u * x + v * y = 1
  <2>1. (u * x + v * y) * g = u * (x * g) + v * (y * g)
    BY <1>6 DEF Denominators
  <2>2. (u * x + v * y) * g = 1 * g
    BY <1>4, <1>6, <1>8, <2>1 DEF Denominators
  <2>3. u * x + v * y \in Int
    OBVIOUS
  <2> QED BY <1>6, <2>2, <2>3, Cancel
<1>12. x * d = n * y
  <2>1. x * (y * g) = (x * g) * y
    BY <1>6 DEF Denominators
  <2> QED BY <1>4, <1>8, <2>1
<1>13. Lowest(<<x, y>>) /\ <<x, y>>[1] * d = n * <<x, y>>[2]
  BY <1>10, <1>11, <1>12 DEF Lowest
<1> QED BY <1>9, <1>13

\* A number has one pair in lowest terms.
LEMMA LowestUnique ==
  ASSUME NEW x, NEW y, Lowest(x), Lowest(y), x[1] * y[2] = y[1] * x[2]
  PROVE  x = y
<1>1. PICK a \in Int, b \in Denominators : x = <<a, b>>
  BY DEF Lowest
<1>2. PICK c \in Int, d \in Denominators : y = <<c, d>>
  BY DEF Lowest
<1>3. PICK u \in Int, v \in Int : u * a + v * b = 1
  BY <1>1 DEF Lowest
<1>4. PICK s \in Int, t \in Int : s * c + t * d = 1
  BY <1>2 DEF Lowest
<1>5. a * d = c * b
  BY <1>1, <1>2
<1>6. d = (u * c + v * d) * b /\ u * c + v * d \in Int
  <2>1. d = (u * a + v * b) * d
    BY <1>3 DEF Denominators
  <2>2. (u * a + v * b) * d = u * (a * d) + v * b * d
    BY DEF Denominators
  <2>3. u * (c * b) + v * b * d = (u * c + v * d) * b
    BY DEF Denominators
  <2> QED BY <1>5, <2>1, <2>2, <2>3 DEF Denominators
<1>7. b = (s * a + t * b) * d /\ s * a + t * b \in Int
  <2>1. b = (s * c + t * d) * b
    BY <1>4 DEF Denominators
  <2>2. (s * c + t * d) * b = s * (c * b) + t * d * b
    BY DEF Denominators
  <2>3. s * (a * d) + t * d * b = (s * a + t * b) * d
    BY DEF Denominators
  <2> QED BY <1>5, <2>1, <2>2, <2>3 DEF Denominators
<1>8. \A k \in Int : \A p, q \in Denominators : p = k * q => p >= q
  <2> SUFFICES ASSUME NEW k \in Int, NEW p \in Denominators, NEW q \in Denominators, p = k * q
               PROVE  p >= q
    OBVIOUS
  <2>1. ASSUME k <= 0 PROVE FALSE
    <3>1. k * q <= 0
      BY <2>1 DEF Denominators
    <3> QED BY <3>1 DEF Denominators
  <2>2. ASSUME k >= 1 PROVE k * q >= q
    BY <2>2 DEF Denominators
  <2> QED BY <2>1, <2>2
<1>9. b = d
  <2>1. d >= b /\ b >= d
    BY <1>6, <1>7, <1>8
  <2> QED BY <2>1 DEF Denominators
<1>10. a = c
  BY <1>5, <1>9, Cancel
<1> QED BY <1>1, <1>2, <1>9, <1>10

\* Equal quotients reduce to the same pair.
LEMMA RatEqual ==
  ASSUME NEW a \in Int, NEW b \in Denominators, NEW c \in Int, NEW d \in Denominators,
         a * d = c * b
  PROVE  Rat(a, b) = Rat(c, d)
<1> DEFINE x == Rat(a, b)
           y == Rat(c, d)
<1>1. Lowest(x) /\ x[1] * b = a * x[2] /\ Lowest(y) /\ y[1] * d = c * y[2]
  BY Reduced
<1> HIDE DEF x, y
<1> DEFINE p == x[1]
           q == x[2]
           r == y[1]
           s == y[2]
<1>2. p \in Int /\ q \in Denominators /\ r \in Int /\ s \in Denominators
  BY <1>1 DEF Lowest
<1>3. p * b = a * q /\ r * d = c * s
  BY <1>1
<1> HIDE DEF p, q, r, s
<1>4. (p * s) * (b * d) = (r * q) * (b * d)
  <2>1. (p * s) * (b * d) = (p * b) * (s * d)
    BY <1>2 DEF Denominators
  <2>2. (a * q) * (s * d) = (a * d) * (q * s)
    BY <1>2 DEF Denominators
  <2>3. (c * b) * (q * s) = (c * s) * (q * b)
    BY <1>2 DEF Denominators
  <2>4. (r * d) * (q * b) = (r * q) * (b * d)
    BY <1>2 DEF Denominators
  <2> QED BY <1>3, <2>1, <2>2, <2>3, <2>4
<1>5. p * s \in Int /\ r * q \in Int /\ b * d \in Denominators
  <2>1. q \in Int /\ s \in Int
    BY <1>2 DEF Denominators
  <2> QED BY <1>2, <2>1, Products
<1>6. p * s = r * q
  BY <1>4, <1>5, Cancel
<1>7. x = y
  BY <1>1, <1>6, LowestUnique DEF p, q, r, s
<1> QED BY <1>7 DEF x, y

Rationals == {x \in Int \X Denominators : Lowest(x)}

\* The reduced pairs.
LEMMA RatIsRational ==
  ASSUME NEW n \in Int, NEW d \in Denominators
  PROVE  Rat(n, d) \in Rationals
BY Reduced DEF Rationals, Lowest

\* A rational is its own reduction.
LEMMA RatOfRational ==
  ASSUME NEW x \in Rationals
  PROVE  x[1] \in Int /\ x[2] \in Denominators /\ x = Rat(x[1], x[2])
<1>1. x[1] \in Int /\ x[2] \in Denominators /\ Lowest(x)
  BY DEF Rationals
<1>2. Lowest(Rat(x[1], x[2])) /\ Rat(x[1], x[2])[1] * x[2] = x[1] * Rat(x[1], x[2])[2]
  BY <1>1, Reduced
<1> QED BY <1>1, <1>2, LowestUnique

\* A fraction and its value with the same sign.
LEMMA RatSign ==
  ASSUME NEW n \in Int, NEW d \in Denominators
  PROVE  /\ Rat(n, d)[1] \in Int
         /\ Rat(n, d)[1] > 0 <=> n > 0
         /\ Rat(n, d)[1] < 0 <=> n < 0
<1> DEFINE p == Rat(n, d)[1]
           q == Rat(n, d)[2]
<1>1. p \in Int /\ q \in Denominators /\ p * d = n * q
  BY Reduced DEF Lowest
<1> HIDE DEF p, q
<1>2. \A a \in Int : \A b \in Denominators :
        a * b \in Int /\ (a > 0 => a * b > 0) /\ (a < 0 => a * b < 0) /\ (a = 0 => a * b = 0)
  BY DEF Denominators
<1>3. p * d \in Int /\ (p > 0 => p * d > 0) /\ (p < 0 => p * d < 0) /\ (p = 0 => p * d = 0)
  BY <1>1, <1>2
<1>4. n * q \in Int /\ (n > 0 => n * q > 0) /\ (n < 0 => n * q < 0) /\ (n = 0 => n * q = 0)
  BY <1>1, <1>2
<1>5. p \in Int /\ (p > 0 <=> n > 0) /\ (p < 0 <=> n < 0)
  BY <1>1, <1>3, <1>4
<1> QED BY <1>5 DEF p

\* The sum of two pairs over their least common denominator is that of the
\* fractions.
LEMMA AddPairs ==
  ASSUME NEW a \in Int, NEW b \in Denominators, NEW c \in Int, NEW d \in Denominators
  PROVE  <<a, b>> ++ <<c, d>> = Rat(a * d + c * b, b * d)
<1> DEFINE g == GCD[<<b, d>>]
<1>1. Divides(g, b, d)
  BY GCDDivides DEF Denominators
<1>2. <<a, b>> ++ <<c, d>> = Rat(a * (d \div g) + c * (b \div g), b * (d \div g))
  BY DEF ++
<1> HIDE DEF g
<1>3. PICK x \in Int, y \in Int : b = x * g /\ d = y * g
  BY <1>1 DEF Divides
<1>4. g \in Denominators
  BY <1>1 DEF Divides, Denominators
<1>5. b \div g = x /\ d \div g = y
  BY <1>3, <1>4, Quotient
<1>6. y \in Denominators
  <2>1. ASSUME y <= 0 PROVE FALSE
    <3>1. y * g <= 0
      BY <1>4, <2>1 DEF Denominators
    <3> QED BY <1>3, <3>1 DEF Denominators
  <2> QED BY <2>1 DEF Denominators
<1>7. b * y \in Denominators /\ b * d \in Denominators /\ a * y + c * x \in Int /\ a * d + c * b \in Int
  BY <1>6, Products DEF Denominators
<1>8. (a * y + c * x) * (b * d) = (a * d + c * b) * (b * y)
  <2>1. (a * y + c * x) * (b * (y * g)) = (a * (y * g) + c * (x * g)) * (b * y)
    BY <1>4 DEF Denominators
  <2> QED BY <1>3, <2>1
<1>9. Rat(a * y + c * x, b * y) = Rat(a * d + c * b, b * d)
  BY <1>7, <1>8, RatEqual
<1> QED BY <1>2, <1>5, <1>9

\* Reducing across before the product changes nothing.
LEMMA MultiplyPairs ==
  ASSUME NEW a \in Int, NEW b \in Denominators, NEW c \in Int, NEW d \in Denominators
  PROVE  <<a, b>> ** <<c, d>> = Rat(a * c, b * d)
<1> DEFINE x == Rat(a, d)
           y == Rat(c, b)
           p == x[1]
           q == x[2]
           r == y[1]
           s == y[2]
<1>1. <<a, b>> ** <<c, d>> = Rat(p * r, q * s)
  BY DEF **
<1>2. p \in Int /\ q \in Denominators /\ p * d = a * q
  BY Reduced DEF Lowest
<1>3. r \in Int /\ s \in Denominators /\ r * b = c * s
  BY Reduced DEF Lowest
<1> HIDE DEF p, q, r, s
<1>4. (p * r) * (b * d) = (a * c) * (q * s)
  <2>1. (p * r) * (b * d) = (p * d) * (r * b)
    BY <1>2, <1>3 DEF Denominators
  <2>2. (a * q) * (c * s) = (a * c) * (q * s)
    BY <1>2, <1>3 DEF Denominators
  <2> QED BY <1>2, <1>3, <2>1, <2>2
<1>5. p * r \in Int /\ q * s \in Denominators /\ a * c \in Int /\ b * d \in Denominators
  BY <1>2, <1>3, Products
<1>6. Rat(p * r, q * s) = Rat(a * c, b * d)
  BY <1>4, <1>5, RatEqual
<1> QED BY <1>1, <1>6

\* The sum of fractions that are not reduced.
LEMMA AddFractions ==
  ASSUME NEW a \in Int, NEW b \in Denominators, NEW c \in Int, NEW d \in Denominators
  PROVE  Rat(a, b) ++ Rat(c, d) = Rat(a * d + c * b, b * d)
<1> DEFINE x == Rat(a, b)
           y == Rat(c, d)
<1>1. PICK p \in Int, q \in Denominators : x = <<p, q>> /\ p * b = a * q
  BY Reduced DEF Lowest
<1>2. PICK r \in Int, s \in Denominators : y = <<r, s>> /\ r * d = c * s
  BY Reduced DEF Lowest
<1>3. x ++ y = Rat(p * s + r * q, q * s)
  BY <1>1, <1>2, AddPairs
<1>4. (p * s + r * q) * (b * d) = (a * d + c * b) * (q * s)
  <2>1. (p * s + r * q) * (b * d) = (p * b) * (s * d) + (r * d) * (q * b)
    BY DEF Denominators
  <2>2. (a * q) * (s * d) + (c * s) * (q * b) = (a * d + c * b) * (q * s)
    BY DEF Denominators
  <2> QED BY <1>1, <1>2, <2>1, <2>2
<1>5. /\ p * s + r * q \in Int /\ q * s \in Denominators
      /\ a * d + c * b \in Int /\ b * d \in Denominators
  BY Products DEF Denominators
<1> QED BY <1>3, <1>4, <1>5, RatEqual

\* Their product.
LEMMA MultiplyFractions ==
  ASSUME NEW a \in Int, NEW b \in Denominators, NEW c \in Int, NEW d \in Denominators
  PROVE  Rat(a, b) ** Rat(c, d) = Rat(a * c, b * d)
<1> DEFINE x == Rat(a, b)
           y == Rat(c, d)
<1>1. PICK p \in Int, q \in Denominators : x = <<p, q>> /\ p * b = a * q
  BY Reduced DEF Lowest
<1>2. PICK r \in Int, s \in Denominators : y = <<r, s>> /\ r * d = c * s
  BY Reduced DEF Lowest
<1>3. x ** y = Rat(p * r, q * s)
  BY <1>1, <1>2, MultiplyPairs
<1>4. (p * r) * (b * d) = (a * c) * (q * s)
  <2>1. (p * r) * (b * d) = (p * b) * (r * d)
    BY DEF Denominators
  <2>2. (a * q) * (c * s) = (a * c) * (q * s)
    BY DEF Denominators
  <2> QED BY <1>1, <1>2, <2>1, <2>2
<1>5. p * r \in Int /\ q * s \in Denominators /\ a * c \in Int /\ b * d \in Denominators
  BY Products
<1> QED BY <1>3, <1>4, <1>5, RatEqual

\* The sums and products of rationals are rationals, as are the numbers that
\* the model writes down.
LEMMA RationalsClosed ==
  /\ \A x, y \in Rationals : x ++ y \in Rationals /\ x ** y \in Rationals
  /\ Zero \in Rationals /\ One \in Rationals
  /\ \A n \in Int : <<n, 1>> \in Rationals
  /\ \A d \in Denominators : <<1, d>> \in Rationals
<1>1. ASSUME NEW x \in Rationals, NEW y \in Rationals
      PROVE  x ++ y \in Rationals /\ x ** y \in Rationals
  <2>1. PICK a \in Int, b \in Denominators : x = Rat(a, b)
    BY RatOfRational
  <2>2. PICK c \in Int, d \in Denominators : y = Rat(c, d)
    BY RatOfRational
  <2>3. a * d + c * b \in Int /\ a * c \in Int /\ b * d \in Denominators
    BY Products DEF Denominators
  <2> QED BY <2>1, <2>2, <2>3, AddFractions, MultiplyFractions, RatIsRational
<1>2. ASSUME NEW n \in Int PROVE <<n, 1>> \in Rationals
  <2>1. 0 * n + 1 * 1 = 1
    OBVIOUS
  <2> QED BY <2>1 DEF Rationals, Lowest, Denominators
<1>3. ASSUME NEW d \in Denominators PROVE <<1, d>> \in Rationals
  <2>1. 1 * 1 + 0 * d = 1
    BY DEF Denominators
  <2>2. \E u, v \in Int : u * 1 + v * d = 1
    BY <2>1
  <2>3. <<1, d>> \in Int \X Denominators
    OBVIOUS
  <2> QED BY <2>2, <2>3 DEF Rationals, Lowest
<1> QED BY <1>1, <1>2, <1>3 DEF Zero, One

\* The numbers that the model writes down are fractions.
LEMMA Whole ==
  /\ \A n \in Int : <<n, 1>> = Rat(n, 1)
  /\ \A d \in Denominators : <<1, d>> = Rat(1, d)
  /\ Zero = Rat(0, 1) /\ One = Rat(1, 1)
<1>1. ASSUME NEW n \in Int PROVE <<n, 1>> = Rat(n, 1)
  BY RationalsClosed, RatOfRational
<1>2. ASSUME NEW d \in Denominators PROVE <<1, d>> = Rat(1, d)
  BY RationalsClosed, RatOfRational
<1> QED BY <1>1, <1>2 DEF Zero, One

\* A fraction of nothing, and of the whole.
LEMMA RatEnds ==
  ASSUME NEW d \in Denominators
  PROVE  /\ Rat(0, d) = Zero
         /\ \A n \in Int : Rat(n * d, d) = <<n, 1>>
<1>1. 1 \in Denominators /\ 0 * 1 = 0 * d
  BY DEF Denominators
<1>2. Rat(0, d) = Zero
  BY <1>1, Whole, RatEqual
<1>3. ASSUME NEW n \in Int PROVE Rat(n * d, d) = <<n, 1>>
  <2>1. n * d \in Int /\ (n * d) * 1 = n * d
    BY DEF Denominators
  <2> QED BY <1>1, <2>1, Whole, RatEqual
<1> QED BY <1>2, <1>3

\* Fractions with the same denominator.
LEMMA AddParts ==
  ASSUME NEW a \in Int, NEW b \in Int, NEW d \in Denominators
  PROVE  Rat(a, d) ++ Rat(b, d) = Rat(a + b, d)
<1>1. Rat(a, d) ++ Rat(b, d) = Rat(a * d + b * d, d * d)
  BY AddFractions
<1>2. (a * d + b * d) * d = (a + b) * (d * d)
  BY DEF Denominators
<1>3. a * d + b * d \in Int /\ d * d \in Denominators /\ a + b \in Int
  BY Products DEF Denominators
<1> QED BY <1>1, <1>2, <1>3, RatEqual

\* Addition: commutative, associative, with a zero.
LEMMA AddLaws ==
  ASSUME NEW x \in Rationals, NEW y \in Rationals, NEW z \in Rationals
  PROVE  /\ x ++ y = y ++ x
         /\ (x ++ y) ++ z = x ++ (y ++ z)
         /\ x ++ Zero = x /\ Zero ++ x = x
<1>1. PICK a \in Int, b \in Denominators : x = Rat(a, b)
  BY RatOfRational
<1>2. PICK c \in Int, d \in Denominators : y = Rat(c, d)
  BY RatOfRational
<1>3. PICK e \in Int, f \in Denominators : z = Rat(e, f)
  BY RatOfRational
<1>4. /\ b * d \in Denominators /\ d * b \in Denominators /\ d * f \in Denominators
      /\ (b * d) * f \in Denominators /\ b * (d * f) \in Denominators
  BY Products
<1>5. /\ a * d + c * b \in Int /\ c * b + a * d \in Int /\ c * f + e * d \in Int
      /\ (a * d + c * b) * f + e * (b * d) \in Int
      /\ a * (d * f) + (c * f + e * d) * b \in Int
  BY DEF Denominators
<1>6. x ++ y = y ++ x
  <2>1. (a * d + c * b) * (d * b) = (c * b + a * d) * (b * d)
    BY DEF Denominators
  <2>2. Rat(a * d + c * b, b * d) = Rat(c * b + a * d, d * b)
    BY <1>4, <1>5, <2>1, RatEqual
  <2> QED BY <1>1, <1>2, <2>2, AddFractions
<1>7. (x ++ y) ++ z = x ++ (y ++ z)
  <2>1. (x ++ y) ++ z = Rat((a * d + c * b) * f + e * (b * d), (b * d) * f)
    BY <1>1, <1>2, <1>3, <1>4, <1>5, AddFractions
  <2>2. x ++ (y ++ z) = Rat(a * (d * f) + (c * f + e * d) * b, b * (d * f))
    BY <1>1, <1>2, <1>3, <1>4, <1>5, AddFractions
  <2>3. ((a * d + c * b) * f + e * (b * d)) = (a * (d * f) + (c * f + e * d) * b)
    BY DEF Denominators
  <2>4. (b * d) * f = b * (d * f)
    BY DEF Denominators
  <2> QED BY <2>1, <2>2, <2>3, <2>4
<1>8. x ++ Zero = x
  <2>1. 1 \in Denominators /\ a * 1 + 0 * b = a /\ b * 1 = b
    BY DEF Denominators
  <2> QED BY <1>1, <2>1, AddFractions, Whole
<1>9. Zero ++ x = x
  <2>1. 1 \in Denominators /\ 0 * b + a * 1 = a /\ 1 * b = b
    BY DEF Denominators
  <2> QED BY <1>1, <2>1, AddFractions, Whole
<1> QED BY <1>6, <1>7, <1>8, <1>9

\* Multiplication: commutative, associative, distributive, with a one.
LEMMA MultiplyLaws ==
  ASSUME NEW x \in Rationals, NEW y \in Rationals, NEW z \in Rationals
  PROVE  /\ x ** y = y ** x
         /\ (x ** y) ** z = x ** (y ** z)
         /\ x ** (y ++ z) = (x ** y) ++ (x ** z)
         /\ x ** One = x /\ x ** Zero = Zero
<1>1. PICK a \in Int, b \in Denominators : x = Rat(a, b)
  BY RatOfRational
<1>2. PICK c \in Int, d \in Denominators : y = Rat(c, d)
  BY RatOfRational
<1>3. PICK e \in Int, f \in Denominators : z = Rat(e, f)
  BY RatOfRational
<1>4. b * d \in Denominators /\ d * f \in Denominators /\ b * f \in Denominators
  BY Products
<1>5. a * c \in Int /\ c * e \in Int /\ a * e \in Int /\ c * f + e * d \in Int
  BY DEF Denominators
<1>6. x ** y = y ** x
  <2>1. a * c = c * a /\ b * d = d * b
    BY DEF Denominators
  <2> QED BY <1>1, <1>2, <2>1, MultiplyFractions
<1>7. (x ** y) ** z = x ** (y ** z)
  <2>1. (x ** y) ** z = Rat((a * c) * e, (b * d) * f)
    BY <1>1, <1>2, <1>3, <1>4, <1>5, MultiplyFractions
  <2>2. x ** (y ** z) = Rat(a * (c * e), b * (d * f))
    BY <1>1, <1>2, <1>3, <1>4, <1>5, MultiplyFractions
  <2>3. (a * c) * e = a * (c * e) /\ (b * d) * f = b * (d * f)
    BY DEF Denominators
  <2> QED BY <2>1, <2>2, <2>3
<1>8. x ** (y ++ z) = (x ** y) ++ (x ** z)
  <2>1. x ** (y ++ z) = Rat(a * (c * f + e * d), b * (d * f))
    BY <1>1, <1>2, <1>3, <1>4, <1>5, AddFractions, MultiplyFractions
  <2>2. (x ** y) ++ (x ** z) = Rat((a * c) * (b * f) + (a * e) * (b * d), (b * d) * (b * f))
    BY <1>1, <1>2, <1>3, <1>4, <1>5, AddFractions, MultiplyFractions
  <2>3. /\ a * (c * f + e * d) \in Int /\ (a * c) * (b * f) + (a * e) * (b * d) \in Int
        /\ b * (d * f) \in Denominators /\ (b * d) * (b * f) \in Denominators
    <3>1. a * (c * f + e * d) \in Int /\ (a * c) * (b * f) + (a * e) * (b * d) \in Int
      BY DEF Denominators
    <3> QED BY <1>4, <3>1, Products
  <2>4. (a * (c * f + e * d)) * ((b * d) * (b * f))
          = ((a * c) * (b * f) + (a * e) * (b * d)) * (b * (d * f))
    BY DEF Denominators
  <2> QED BY <2>1, <2>2, <2>3, <2>4, RatEqual
<1>9. x ** One = x
  <2>1. 1 \in Denominators /\ a * 1 = a /\ b * 1 = b
    BY DEF Denominators
  <2> QED BY <1>1, <2>1, MultiplyFractions, Whole
<1>10. x ** Zero = Zero
  <2>1. 1 \in Denominators /\ a * 0 = 0 /\ b * 1 = b
    BY DEF Denominators
  <2> QED BY <1>1, <2>1, MultiplyFractions, Whole, RatEnds
<1> QED BY <1>6, <1>7, <1>8, <1>9, <1>10

Negative(x) == <<-x[1], x[2]>>

\* The opposite of a rational.
LEMMA NegativeRat ==
  ASSUME NEW x \in Rationals
  PROVE  /\ Negative(x) \in Rationals
         /\ Negative(Negative(x)) = x
         /\ x ++ Negative(x) = Zero
<1>1. x[1] \in Int /\ x[2] \in Denominators /\ x = <<x[1], x[2]>> /\ x = Rat(x[1], x[2])
  BY RatOfRational DEF Rationals
<1>2. PICK u \in Int, v \in Int : u * x[1] + v * x[2] = 1
  BY DEF Rationals, Lowest
<1>3. \E s, t \in Int : s * (-x[1]) + t * x[2] = 1
  <2>1. (-u) * (-x[1]) = u * x[1]
    BY <1>1
  <2>2. (-u) * (-x[1]) + v * x[2] = 1
    BY <1>2, <2>1
  <2> QED BY <2>2
<1>4. Negative(x) \in Int \X Denominators /\ Negative(x)[1] = -x[1] /\ Negative(x)[2] = x[2]
  BY <1>1 DEF Negative
<1>5. Negative(x) \in Rationals
  BY <1>3, <1>4 DEF Rationals, Lowest
<1>6. Negative(Negative(x)) = x
  <2>1. -(-x[1]) = x[1]
    BY <1>1
  <2> QED BY <1>1, <1>4, <2>1 DEF Negative
<1>7. x ++ Negative(x) = Zero
  <2> DEFINE a == x[1]
             b == x[2]
  <2>1. Negative(x) = Rat(-a, b) /\ x = Rat(a, b)
    BY <1>1, <1>4, <1>5, RatOfRational
  <2>2. a \in Int /\ b \in Denominators
    BY <1>1
  <2> HIDE DEF a, b
  <2>3. -a \in Int /\ a + -a = 0
    BY <2>2
  <2> QED BY <2>1, <2>2, <2>3, AddParts, RatEnds
<1> QED BY <1>5, <1>6, <1>7

\* Subtraction is the addition of the opposite.
LEMMA SubtractLaws ==
  ASSUME NEW x \in Rationals, NEW y \in Rationals
  PROVE  /\ x -- y \in Rationals
         /\ (x -- y) ++ y = x
         /\ x -- x = Zero
         /\ x -- y = Negative(y -- x)
<1>1. \A u, v \in Rationals : u -- v = u ++ Negative(v)
  BY DEF --, Negative
<1>2. Negative(x) \in Rationals /\ Negative(y) \in Rationals
  BY NegativeRat
<1>3. x -- y \in Rationals /\ y -- x \in Rationals
  BY <1>1, <1>2, RationalsClosed
<1>4. (x -- y) ++ y = x
  <2>1. (x ++ Negative(y)) ++ y = x ++ (Negative(y) ++ y)
    BY <1>2, AddLaws
  <2>2. Negative(y) ++ y = Zero
    BY <1>2, NegativeRat, AddLaws
  <2> QED BY <1>1, <2>1, <2>2, AddLaws
<1>5. (y -- x) ++ x = y
  <2>1. (y ++ Negative(x)) ++ x = y ++ (Negative(x) ++ x)
    BY <1>2, AddLaws
  <2>2. Negative(x) ++ x = Zero
    BY <1>2, NegativeRat, AddLaws
  <2> QED BY <1>1, <2>1, <2>2, AddLaws
<1>6. x -- y = Negative(y -- x)
  <2> DEFINE d == x -- y
             e == y -- x
             n == Negative(e)
  <2>1. d \in Rationals /\ e \in Rationals /\ d ++ y = x /\ e ++ x = y
    BY <1>3, <1>4, <1>5
  <2> HIDE DEF d, e
  <2>2. n \in Rationals /\ e ++ n = Zero
    BY <2>1, NegativeRat
  <2> HIDE DEF n
  <2>3. (d ++ e) ++ x = x
    <3>1. (d ++ e) ++ x = d ++ (e ++ x)
      BY <2>1, AddLaws
    <3> QED BY <2>1, <3>1
  <2>4. d ++ e = Zero
    <3>0. d ++ e \in Rationals
      BY <2>1, RationalsClosed
    <3>1. ((d ++ e) ++ x) ++ Negative(x) = (d ++ e) ++ (x ++ Negative(x))
      BY <3>0, <1>2, AddLaws
    <3>2. x ++ Negative(x) = Zero
      BY NegativeRat
    <3> QED BY <2>3, <3>0, <3>1, <3>2, AddLaws
  <2>5. d = n
    <3>1. (d ++ e) ++ n = d ++ (e ++ n)
      BY <2>1, <2>2, AddLaws
    <3> QED BY <2>1, <2>2, <2>4, <3>1, AddLaws
  <2> QED BY <2>5 DEF d, e, n
<1>7. x -- x = Zero
  BY <1>1, NegativeRat
<1> QED BY <1>3, <1>4, <1>6, <1>7

\* An amount that is added to both sides may be dropped.
LEMMA AddCancel ==
  ASSUME NEW x \in Rationals, NEW y \in Rationals, NEW z \in Rationals, x ++ z = y ++ z
  PROVE  x = y
<1>1. Negative(z) \in Rationals /\ z ++ Negative(z) = Zero
  BY NegativeRat
<1>2. \A u \in Rationals : (u ++ z) ++ Negative(z) = u
  <2> TAKE u \in Rationals
  <2>1. (u ++ z) ++ Negative(z) = u ++ (z ++ Negative(z))
    BY <1>1, AddLaws
  <2> QED BY <1>1, <2>1, AddLaws
<1> QED BY <1>2

\* Four amounts may be added in any order.
LEMMA AddFour ==
  ASSUME NEW a \in Rationals, NEW b \in Rationals, NEW c \in Rationals, NEW d \in Rationals
  PROVE  (a ++ b) ++ (c ++ d) = (a ++ c) ++ (b ++ d)
<1>1. /\ a ++ b \in Rationals /\ c ++ d \in Rationals /\ b ++ d \in Rationals
      /\ a ++ c \in Rationals
  BY RationalsClosed
<1>2. (a ++ b) ++ (c ++ d) = ((a ++ b) ++ c) ++ d
  BY <1>1, AddLaws
<1>3. (a ++ b) ++ c = a ++ (b ++ c) /\ b ++ c = c ++ b /\ a ++ (c ++ b) = (a ++ c) ++ b
  BY AddLaws
<1>4. ((a ++ c) ++ b) ++ d = (a ++ c) ++ (b ++ d)
  BY <1>1, AddLaws
<1> QED BY <1>2, <1>3, <1>4

Amounts == {x \in Rationals : x[1] >= 0}

\* Amounts of energy add up and multiply to amounts, and a sum is nothing only
\* if both parts are.
LEMMA AmountsClosed ==
  /\ \A x, y \in Amounts : x ++ y \in Amounts /\ x ** y \in Amounts
  /\ \A x, y \in Amounts : x ++ y = Zero => x = Zero /\ y = Zero
  /\ Zero \in Amounts /\ One \in Amounts
  /\ \A n \in Nat : <<n, 1>> \in Amounts
  /\ \A d \in Denominators : <<1, d>> \in Amounts
<1>1. ASSUME NEW x \in Amounts, NEW y \in Amounts
      PROVE  /\ x ++ y \in Amounts /\ x ** y \in Amounts
             /\ x ++ y = Zero => x = Zero /\ y = Zero
  <2>0. x \in Rationals /\ y \in Rationals /\ x[1] >= 0 /\ y[1] >= 0
    BY DEF Amounts
  <2>1. PICK a \in Int, b \in Denominators : x = Rat(a, b) /\ a >= 0
    BY <2>0, RatOfRational
  <2>2. PICK c \in Int, d \in Denominators : y = Rat(c, d) /\ c >= 0
    BY <2>0, RatOfRational
  <2>3. b * d \in Denominators
    BY Products
  <2>4. a * d \in Nat /\ c * b \in Nat /\ a * c \in Nat
    BY <2>1, <2>2 DEF Denominators
  <2>5. x ++ y = Rat(a * d + c * b, b * d) /\ x ** y = Rat(a * c, b * d)
    BY <2>1, <2>2, AddFractions, MultiplyFractions
  <2>6. \A n \in Nat : Rat(n, b * d) \in Amounts
    BY <2>3, RatIsRational, RatSign DEF Amounts
  <2>7. x ++ y \in Amounts /\ x ** y \in Amounts
    BY <2>4, <2>5, <2>6
  <2>8. ASSUME x ++ y = Zero PROVE x = Zero /\ y = Zero
    <3>1. Zero[1] = 0
      BY DEF Zero
    <3>2. ~(a * d + c * b > 0)
      BY <2>3, <2>4, <2>5, <2>8, <3>1, RatSign
    <3>3. a * d = 0 /\ c * b = 0
      BY <2>4, <3>2
    <3>4. a = 0 /\ c = 0
      <4>1. 0 * d = 0 /\ 0 * b = 0
        BY DEF Denominators
      <4> QED BY <3>3, <4>1, Cancel
    <3> QED BY <2>1, <2>2, <3>4, RatEnds
  <2> QED BY <2>7, <2>8
<1>2. ASSUME NEW n \in Nat PROVE <<n, 1>> \in Amounts
  <2>1. <<n, 1>> \in Rationals /\ <<n, 1>>[1] = n /\ n >= 0
    BY RationalsClosed
  <2> QED BY <2>1 DEF Amounts
<1>3. ASSUME NEW d \in Denominators PROVE <<1, d>> \in Amounts
  <2>1. <<1, d>> \in Rationals /\ <<1, d>>[1] = 1
    BY RationalsClosed
  <2> QED BY <2>1 DEF Amounts
<1> QED BY <1>1, <1>2, <1>3 DEF Zero, One

\* A fraction of two naturals is an amount.
LEMMA RatIsAmount ==
  ASSUME NEW n \in Nat, NEW d \in Denominators
  PROVE  Rat(n, d) \in Amounts
BY RatIsRational, RatSign DEF Amounts

\* Division by an amount that is not zero.
LEMMA DivideLaws ==
  ASSUME NEW y \in Amounts, y # Zero
  PROVE  /\ <<y[2], y[1]>> \in Amounts
         /\ y ** <<y[2], y[1]>> = One
         /\ \A x \in Rationals : x // y \in Rationals /\ y ** (x // y) = x
         /\ \A x \in Amounts : x // y \in Amounts
<1> DEFINE i == <<y[2], y[1]>>
<1>1. /\ y \in Rationals /\ y[1] \in Int /\ y[1] >= 0 /\ y[2] \in Denominators
      /\ y = Rat(y[1], y[2]) /\ Lowest(y)
  BY RatOfRational DEF Amounts, Rationals
<1>2. y[1] # 0
  BY <1>1, RatEnds
<1>3. y[1] \in Denominators /\ y[2] \in Int /\ y[2] >= 0
  BY <1>1, <1>2 DEF Denominators
<1>4. i \in Amounts
  <2>1. PICK u \in Int, v \in Int : u * y[1] + v * y[2] = 1
    BY <1>1 DEF Lowest
  <2>2. v * y[2] + u * y[1] = 1
    <3>1. u * y[1] \in Int /\ v * y[2] \in Int
      BY <1>1, <1>3
    <3> QED BY <2>1, <3>1
  <2>3. i \in Int \X Denominators /\ i[1] = y[2] /\ i[2] = y[1]
    BY <1>3
  <2> HIDE DEF i
  <2>4. Lowest(i)
    BY <2>2, <2>3 DEF Lowest
  <2> QED BY <1>3, <2>3, <2>4 DEF Amounts, Rationals
<1>5. i \in Rationals
  BY <1>4 DEF Amounts
<1>6. i = Rat(y[2], y[1])
  BY <1>5, RatOfRational
<1>7. y ** i = One
  <2> DEFINE a == y[1]
             b == y[2]
  <2>1. a \in Denominators /\ b \in Denominators /\ a \in Int /\ b \in Int
    BY <1>1, <1>3
  <2>2. y ** i = Rat(a * b, b * a)
    BY <1>1, <1>3, <1>6, MultiplyFractions
  <2> HIDE DEF a, b
  <2>3. a * b = 1 * (b * a) /\ b * a \in Denominators
    BY <2>1, Products
  <2>4. Rat(1 * (b * a), b * a) = One
    BY <2>3, RatEnds DEF One
  <2> QED BY <2>2, <2>3, <2>4
<1>8. \A x \in Rationals : x // y = x ** i
  BY DEF //
<1> HIDE DEF i
<1>9. ASSUME NEW x \in Rationals PROVE x // y \in Rationals /\ y ** (x // y) = x
  <2>1. x ** i \in Rationals /\ x ** i = i ** x
    BY <1>5, RationalsClosed, MultiplyLaws
  <2>2. y ** (i ** x) = (y ** i) ** x
    BY <1>1, <1>5, MultiplyLaws
  <2>3. One \in Rationals
    BY RationalsClosed
  <2>4. One ** x = x
    BY <2>3, MultiplyLaws
  <2> QED BY <1>7, <1>8, <2>1, <2>2, <2>4
<1>10. ASSUME NEW x \in Amounts PROVE x // y \in Amounts
  <2>1. x \in Rationals
    BY DEF Amounts
  <2> QED BY <1>4, <1>8, <2>1, AmountsClosed
<1>11. i \in Amounts /\ y ** i = One
  BY <1>4, <1>7
<1> QED BY <1>9, <1>10, <1>11 DEF i

\* What is over on one side and what is missing on the other.
LEMMA PositiveLaws ==
  ASSUME NEW x \in Rationals, NEW y \in Rationals
  PROVE  /\ Positive(x) \in Amounts
         /\ Positive(x -- y) ++ y = Positive(y -- x) ++ x
<1>1. ASSUME NEW z \in Rationals PROVE Positive(z) \in Amounts
  <2>1. z[1] \in Int
    BY RatOfRational
  <2> QED BY <2>1, AmountsClosed DEF Positive, Amounts
<1> DEFINE d == x -- y
           e == y -- x
<1>2. d \in Rationals /\ e \in Rationals /\ d = Negative(e) /\ d ++ y = x /\ e ++ x = y
  BY SubtractLaws
<1>3. d[1] \in Int /\ e[1] \in Int /\ d[1] = -e[1]
  <2>1. Negative(e)[1] = -e[1]
    BY DEF Negative
  <2> QED BY <1>2, <2>1, RatOfRational
<1> HIDE DEF d, e
<1>4. Zero ++ x = x /\ Zero ++ y = y
  BY AddLaws
<1>5. CASE d[1] > 0
  <2>1. Positive(d) = d /\ Positive(e) = Zero
    BY <1>3, <1>5 DEF Positive
  <2>2. Positive(d) ++ y = Positive(e) ++ x
    BY <1>2, <1>4, <2>1
  <2> QED BY <1>1, <2>2 DEF d, e
<1>6. CASE e[1] > 0
  <2>1. Positive(e) = e /\ Positive(d) = Zero
    BY <1>3, <1>6 DEF Positive
  <2>2. Positive(d) ++ y = Positive(e) ++ x
    BY <1>2, <1>4, <2>1
  <2> QED BY <1>1, <2>2 DEF d, e
<1>7. CASE d[1] = 0
  <2>1. e[1] = 0
    BY <1>3, <1>7
  <2>2. \A z \in Rationals : z[1] = 0 => z = Zero
    BY RatOfRational, RatEnds
  <2>3. d = Zero /\ e = Zero
    BY <1>2, <1>7, <2>1, <2>2
  <2>4. Positive(d) ++ y = Positive(e) ++ x
    BY <1>2, <1>4, <2>3 DEF Positive
  <2> QED BY <1>1, <2>4 DEF d, e
<1> QED BY <1>3, <1>5, <1>6, <1>7

\* An amount has nothing that is not positive.
LEMMA PositiveOfAmount == ASSUME NEW x \in Amounts PROVE Positive(x) = x
<1>1. x[1] \in Int /\ x[1] >= 0 /\ x = Rat(x[1], x[2]) /\ x[2] \in Denominators
  BY RatOfRational DEF Amounts
<1>2. x[1] = 0 => x = Zero
  BY <1>1, RatEnds
<1> QED BY <1>1, <1>2 DEF Positive

\* A share of what is over.
LEMMA PositiveOfShare ==
  ASSUME NEW z \in Rationals, NEW w \in Amounts
  PROVE  Positive(z ** w) = Positive(z) ** w
<1>1. w \in Rationals /\ w[1] >= 0
  BY DEF Amounts
<1>2. PICK a \in Int, b \in Denominators : z = Rat(a, b) /\ z[1] = a
  BY RatOfRational
<1>3. PICK c \in Int, d \in Denominators : w = Rat(c, d) /\ c >= 0
  BY <1>1, RatOfRational
<1>4. z ** w = Rat(a * c, b * d) /\ b * d \in Denominators /\ a * c \in Int
  BY <1>2, <1>3, MultiplyFractions, Products
<1>5. Zero \in Rationals
  BY RationalsClosed
<1>6. Zero ** w = Zero
  BY <1>1, <1>5, MultiplyLaws
<1>7. CASE z[1] > 0
  <2>1. Positive(z) = z /\ z \in Amounts
    BY <1>2, <1>7 DEF Positive, Amounts
  <2> QED BY <2>1, AmountsClosed, PositiveOfAmount
<1>8. CASE ~(z[1] > 0)
  <2>1. ~(a * c > 0)
    BY <1>2, <1>3, <1>8
  <2>2. ~((z ** w)[1] > 0)
    BY <1>4, <2>1, RatSign
  <2> QED BY <1>6, <1>8, <2>2 DEF Positive
<1> QED BY <1>7, <1>8

\* The product of a difference.
LEMMA MultiplySubtract ==
  ASSUME NEW x \in Rationals, NEW y \in Rationals, NEW w \in Rationals
  PROVE  (x ** w) -- (y ** w) = (x -- y) ** w
<1> DEFINE d == x -- y
<1>1. d \in Rationals /\ d ++ y = x
  BY SubtractLaws
<1> HIDE DEF d
<1>2. /\ d ** w = w ** d /\ y ** w = w ** y /\ x ** w = w ** x
      /\ w ** (d ++ y) = (w ** d) ++ (w ** y)
  BY <1>1, MultiplyLaws
<1>3. d ** w \in Rationals /\ y ** w \in Rationals /\ x ** w \in Rationals
  BY <1>1, RationalsClosed
<1>4. (d ** w) ++ (y ** w) = x ** w
  BY <1>1, <1>2
<1>5. (x ** w) -- (y ** w) \in Rationals /\ ((x ** w) -- (y ** w)) ++ (y ** w) = x ** w
  BY <1>3, SubtractLaws
<1>6. (x ** w) -- (y ** w) = d ** w
  BY <1>3, <1>4, <1>5, AddCancel
<1> QED BY <1>6 DEF d

-----------------------------------------------------------------------------
(* Sums.                                                                    *)

\* The largest member of a nonempty set of positions.
LEMMA MaxIsLargest ==
  ASSUME NEW n \in Nat, NEW s \in SUBSET (1 .. n), s # {}
  PROVE  Max(s) \in s /\ \A y \in s : Max(s) >= y
<1> DEFINE Good == {k \in Nat : \A t \in SUBSET (1 .. k) : t # {} => \E x \in t : \A y \in t : x >= y}
<1>1. 0 \in Good
  <2>1. \A t \in SUBSET (1 .. 0) : t = {}
    OBVIOUS
  <2> QED BY <2>1
<1>2. ASSUME NEW k \in Nat, k \in Good PROVE k + 1 \in Good
  <2> SUFFICES ASSUME NEW t \in SUBSET (1 .. k + 1), t # {}
               PROVE  \E x \in t : \A y \in t : x >= y
    OBVIOUS
  <2>1. CASE k + 1 \in t
    <3>1. \A y \in t : k + 1 >= y
      OBVIOUS
    <3> QED BY <2>1, <3>1
  <2>2. CASE k + 1 \notin t
    <3>1. t \in SUBSET (1 .. k)
      BY <2>2
    <3> QED BY <1>2, <3>1
  <2> QED BY <2>1, <2>2
<1> HIDE DEF Good
<1>3. n \in Good
  BY <1>1, <1>2, NatSetInduction
<1>4. \E x \in s : \A y \in s : x >= y
  BY <1>3 DEF Good
<1> QED BY <1>4 DEF Max

\* The recursive function that SumOver defines for n terms.
RatFold(f, n, g) ==
  g = [s \in SUBSET (1 .. n) |-> IF s = {} THEN Zero ELSE g[s \ {Max(s)}] ++ f[Max(s)]]

\* FoldLeft is defined by such a recursion.
LEMMA SumOverUnfolds ==
  ASSUME NEW f, NEW n, DOMAIN f = 1 .. n
  PROVE  SumOver(f) = (CHOOSE g : RatFold(f, n, g))[1 .. n]
BY DEF SumOver, FoldLeft, MapThenFoldSet, RatFold

\* The recursion takes one term away at a time: there is such a function.
LEMMA RatFoldExists == ASSUME NEW f PROVE \A n \in Nat : \E g : RatFold(f, n, g)
<1> DEFINE Good == {n \in Nat : \E g : RatFold(f, n, g)}
<1>1. 0 \in Good
  <2>1. \A s \in SUBSET (1 .. 0) : s = {}
    OBVIOUS
  <2>2. RatFold(f, 0, [s \in SUBSET (1 .. 0) |-> Zero])
    BY <2>1 DEF RatFold
  <2> QED BY <2>2
<1>2. ASSUME NEW n \in Nat, n \in Good PROVE n + 1 \in Good
  <2>1. PICK g : RatFold(f, n, g)
    BY <1>2
  <2> DEFINE h == [s \in SUBSET (1 .. n + 1) |->
                     IF n + 1 \in s THEN g[s \ {n + 1}] ++ f[n + 1] ELSE g[s]]
  <2>2. ASSUME NEW s \in SUBSET (1 .. n + 1)
        PROVE  h[s] = IF s = {} THEN Zero ELSE h[s \ {Max(s)}] ++ f[Max(s)]
    <3>1. CASE n + 1 \in s
      <4>1. Max(s) = n + 1
        <5>1. Max(s) \in s /\ \A y \in s : Max(s) >= y
          <6>1. n + 1 \in Nat /\ s # {}
            BY <3>1
          <6> QED BY <6>1, MaxIsLargest
        <5>2. Max(s) \in 1 .. n + 1 /\ Max(s) >= n + 1
          BY <3>1, <5>1
        <5> QED BY <5>2
      <4>2. s \ {n + 1} \in SUBSET (1 .. n + 1) /\ n + 1 \notin s \ {n + 1}
        OBVIOUS
      <4>3. h[s \ {n + 1}] = g[s \ {n + 1}]
        BY <4>2
      <4> QED BY <3>1, <4>1, <4>3
    <3>2. CASE n + 1 \notin s
      <4>1. s \in SUBSET (1 .. n)
        BY <3>2
      <4>2. h[s] = g[s]
        BY <3>2
      <4>3. g[s] = IF s = {} THEN Zero ELSE g[s \ {Max(s)}] ++ f[Max(s)]
        <5> HIDE DEF h
        <5> QED BY <2>1, <4>1 DEF RatFold
      <4>4. h[s \ {Max(s)}] = g[s \ {Max(s)}]
        BY <3>2
      <4> QED BY <4>2, <4>3, <4>4
    <3> QED BY <3>1, <3>2
  <2>3. RatFold(f, n + 1, h)
    <3>1. h = [s \in SUBSET (1 .. n + 1) |-> h[s]]
      OBVIOUS
    <3> HIDE DEF h
    <3> QED BY <2>2, <3>1 DEF RatFold
  <2> QED BY <2>3
<1> HIDE DEF Good
<1>3. \A n \in Nat : n \in Good
  BY <1>1, <1>2, NatSetInduction
<1> QED BY <1>3 DEF Good

\* There is only one.
LEMMA RatFoldUnique ==
  ASSUME NEW f, NEW n \in Nat, NEW g, NEW h, RatFold(f, n, g), RatFold(f, n, h)
  PROVE  g = h
<1> DEFINE S    == 1 .. n
           Good == {s \in SUBSET S : g[s] = h[s]}
<1>1. IsFiniteSet(S)
  BY FS_Interval
<1>2. ASSUME NEW s \in SUBSET S, \A u \in SUBSET s : u # s => u \in Good
      PROVE  s \in Good
  <2>1. CASE s = {}
    BY <2>1 DEF RatFold
  <2>2. CASE s # {}
    <3>1. Max(s) \in s
      BY <2>2, MaxIsLargest
    <3>2. s \ {Max(s)} \in Good
      BY <1>2, <3>1
    <3>3. /\ g[s] = g[s \ {Max(s)}] ++ f[Max(s)]
          /\ h[s] = h[s \ {Max(s)}] ++ f[Max(s)]
      BY <2>2 DEF RatFold
    <3> QED BY <3>2, <3>3
  <2> QED BY <2>1, <2>2
<1>3. \A s \in SUBSET S : s \in Good
  <2> HIDE DEF Good
  <2> QED BY <1>1, <1>2, StrongSubsetInduction
<1>4. g = [s \in SUBSET S |-> g[s]] /\ h = [s \in SUBSET S |-> h[s]]
  BY DEF RatFold
<1> QED BY <1>3, <1>4

\* A sum is the value of any function that follows the recursion.
LEMMA RatFoldIsSum ==
  ASSUME NEW f, NEW n \in Nat, DOMAIN f = 1 .. n, NEW g, RatFold(f, n, g)
  PROVE  SumOver(f) = g[1 .. n]
<1> DEFINE c == CHOOSE h : RatFold(f, n, h)
<1>1. RatFold(f, n, c)
  BY RatFoldExists
<1>2. SumOver(f) = c[1 .. n]
  BY SumOverUnfolds
<1> HIDE DEF c
<1> QED BY <1>1, <1>2, RatFoldUnique

\* The first k terms.
Prefix(f, k) == [i \in 1 .. k |-> f[i]]

Total(f, k) == SumOver(Prefix(f, k))

\* Sums grow term by term.
LEMMA TotalUnfolds ==
  ASSUME NEW f
  PROVE  /\ Total(f, 0) = Zero
         /\ \A k \in Nat : Total(f, k + 1) = Total(f, k) ++ f[k + 1]
<1>1. Total(f, 0) = Zero
  <2>1. PICK g : RatFold(Prefix(f, 0), 0, g)
    BY RatFoldExists
  <2>2. 1 .. 0 = {} /\ {} \in SUBSET (1 .. 0)
    OBVIOUS
  <2>3. g[{}] = Zero
    BY <2>1, <2>2 DEF RatFold
  <2>4. SumOver(Prefix(f, 0)) = g[1 .. 0]
    BY <2>1, RatFoldIsSum DEF Prefix
  <2> QED BY <2>2, <2>3, <2>4 DEF Total
<1>2. ASSUME NEW k \in Nat PROVE Total(f, k + 1) = Total(f, k) ++ f[k + 1]
  <2>1. PICK g : RatFold(Prefix(f, k + 1), k + 1, g)
    BY RatFoldExists
  <2>2. \A s \in SUBSET (1 .. k + 1) :
          g[s] = IF s = {} THEN Zero ELSE g[s \ {Max(s)}] ++ Prefix(f, k + 1)[Max(s)]
    BY <2>1 DEF RatFold
  <2> DEFINE h == [s \in SUBSET (1 .. k) |-> g[s]]
  <2>3. ASSUME NEW s \in SUBSET (1 .. k)
        PROVE  h[s] = IF s = {} THEN Zero ELSE h[s \ {Max(s)}] ++ Prefix(f, k)[Max(s)]
    <3>1. CASE s = {}
      BY <2>2, <3>1
    <3>2. CASE s # {}
      <4>1. Max(s) \in s
        BY <3>2, MaxIsLargest
      <4>2. Max(s) \in 1 .. k /\ Max(s) \in 1 .. k + 1 /\ s \in SUBSET (1 .. k + 1)
        <5>1. \A i \in 1 .. k : i \in 1 .. k + 1
          OBVIOUS
        <5> QED BY <4>1, <5>1
      <4>3. Prefix(f, k + 1)[Max(s)] = Prefix(f, k)[Max(s)]
        BY <4>2 DEF Prefix
      <4>4. g[s] = g[s \ {Max(s)}] ++ Prefix(f, k + 1)[Max(s)]
        BY <2>2, <3>2, <4>2
      <4> QED BY <3>2, <4>3, <4>4
    <3> QED BY <3>1, <3>2
  <2>4. RatFold(Prefix(f, k), k, h)
    <3>1. h = [s \in SUBSET (1 .. k) |-> h[s]]
      OBVIOUS
    <3> HIDE DEF h
    <3> QED BY <2>3, <3>1 DEF RatFold
  <2>5. Total(f, k) = h[1 .. k]
    <3> HIDE DEF h
    <3> QED BY <2>4, RatFoldIsSum DEF Prefix, Total
  <2>6. Total(f, k + 1) = g[1 .. k + 1]
    BY <2>1, RatFoldIsSum DEF Prefix, Total
  <2> DEFINE s == 1 .. k + 1
  <2>7. Max(s) = k + 1
    <3>1. s # {} /\ k + 1 \in s
      OBVIOUS
    <3>2. Max(s) \in s /\ \A y \in s : Max(s) >= y
      <4>1. k + 1 \in Nat /\ s \in SUBSET (1 .. k + 1)
        OBVIOUS
      <4> HIDE DEF s
      <4> QED BY <3>1, <4>1, MaxIsLargest
    <3>3. Max(s) \in 1 .. k + 1 /\ Max(s) >= k + 1
      BY <3>1, <3>2
    <3> QED BY <3>3
  <2>8. s # {} /\ s \ {k + 1} = 1 .. k /\ Prefix(f, k + 1)[k + 1] = f[k + 1] /\ s \in SUBSET (1 .. k + 1)
    BY DEF Prefix
  <2>9. g[s] = g[1 .. k] ++ f[k + 1]
    BY <2>2, <2>7, <2>8
  <2> QED BY <2>5, <2>6, <2>9
<1> QED BY <1>1, <1>2

\* A sum over all its terms.
LEMMA TotalOfAll ==
  ASSUME NEW f, NEW n \in Nat, NEW D, f \in [1 .. n -> D]
  PROVE  SumOver(f) = Total(f, n)
<1>1. Prefix(f, n) = f
  BY DEF Prefix
<1> QED BY <1>1 DEF Total

\* Every partial sum of rationals is a rational.
LEMMA TotalClosed ==
  ASSUME NEW n \in Nat, NEW f \in [1 .. n -> Rationals]
  PROVE  \A k \in 0 .. n : Total(f, k) \in Rationals
<1> DEFINE Good == {k \in Nat : k <= n => Total(f, k) \in Rationals}
<1>1. 0 \in Good
  BY TotalUnfolds, RationalsClosed
<1>2. ASSUME NEW k \in Nat, k \in Good PROVE k + 1 \in Good
  <2> SUFFICES ASSUME k + 1 <= n PROVE Total(f, k + 1) \in Rationals
    OBVIOUS
  <2>1. Total(f, k) \in Rationals /\ f[k + 1] \in Rationals
    BY <1>2
  <2> QED BY <2>1, TotalUnfolds, RationalsClosed
<1> HIDE DEF Good
<1>3. \A k \in Nat : k \in Good
  BY <1>1, <1>2, NatSetInduction
<1> QED BY <1>3 DEF Good

\* So is the whole sum.
LEMMA SumClosed ==
  ASSUME NEW n \in Nat, NEW f \in [1 .. n -> Rationals]
  PROVE  SumOver(f) \in Rationals
BY TotalOfAll, TotalClosed

\* A sum of amounts is an amount, and nothing only if every term is.
LEMMA SumAmounts ==
  ASSUME NEW n \in Nat, NEW f \in [1 .. n -> Amounts]
  PROVE  /\ SumOver(f) \in Amounts
         /\ SumOver(f) = Zero => \A i \in 1 .. n : f[i] = Zero
<1> DEFINE Good == {k \in Nat : k <= n => /\ Total(f, k) \in Amounts
                                          /\ Total(f, k) = Zero => \A i \in 1 .. k : f[i] = Zero}
<1>1. 0 \in Good
  BY TotalUnfolds, AmountsClosed
<1>2. ASSUME NEW k \in Nat, k \in Good PROVE k + 1 \in Good
  <2> SUFFICES ASSUME k + 1 <= n
               PROVE  /\ Total(f, k + 1) \in Amounts
                      /\ Total(f, k + 1) = Zero => \A i \in 1 .. k + 1 : f[i] = Zero
    OBVIOUS
  <2>1. Total(f, k) \in Amounts /\ f[k + 1] \in Amounts
    BY <1>2
  <2>2. Total(f, k) = Zero => \A i \in 1 .. k : f[i] = Zero
    BY <1>2
  <2>3. Total(f, k + 1) = Total(f, k) ++ f[k + 1]
    BY TotalUnfolds
  <2>4. Total(f, k + 1) \in Amounts
    BY <2>1, <2>3, AmountsClosed
  <2>5. ASSUME Total(f, k + 1) = Zero, NEW i \in 1 .. k + 1 PROVE f[i] = Zero
    <3>1. Total(f, k) = Zero /\ f[k + 1] = Zero
      BY <2>1, <2>3, <2>5, AmountsClosed
    <3>2. i \in 1 .. k \/ i = k + 1
      OBVIOUS
    <3> QED BY <2>2, <3>1, <3>2
  <2> QED BY <2>4, <2>5
<1> HIDE DEF Good
<1>3. n \in Good
  BY <1>1, <1>2, NatSetInduction
<1> QED BY <1>3, TotalOfAll DEF Good

\* The sum of sums, term by term.
LEMMA SumAddition ==
  ASSUME NEW n \in Nat, NEW f \in [1 .. n -> Rationals], NEW g \in [1 .. n -> Rationals],
         NEW h \in [1 .. n -> Rationals], \A i \in 1 .. n : h[i] = f[i] ++ g[i]
  PROVE  SumOver(h) = SumOver(f) ++ SumOver(g)
<1> DEFINE Good == {k \in Nat : k <= n => Total(h, k) = Total(f, k) ++ Total(g, k)}
<1>1. 0 \in Good
  <2>1. Zero \in Rationals
    BY RationalsClosed
  <2>2. Zero ++ Zero = Zero
    BY <2>1, AddLaws
  <2> QED BY <2>2, TotalUnfolds
<1>2. ASSUME NEW k \in Nat, k \in Good PROVE k + 1 \in Good
  <2> SUFFICES ASSUME k + 1 <= n PROVE Total(h, k + 1) = Total(f, k + 1) ++ Total(g, k + 1)
    OBVIOUS
  <2>1. k + 1 \in 1 .. n /\ k \in 0 .. n
    OBVIOUS
  <2>2. Total(f, k) \in Rationals /\ Total(g, k) \in Rationals
    BY <2>1, TotalClosed
  <2>3. f[k + 1] \in Rationals /\ g[k + 1] \in Rationals /\ h[k + 1] = f[k + 1] ++ g[k + 1]
    BY <2>1
  <2>4. /\ Total(h, k + 1) = Total(h, k) ++ h[k + 1]
        /\ Total(f, k + 1) = Total(f, k) ++ f[k + 1]
        /\ Total(g, k + 1) = Total(g, k) ++ g[k + 1]
    BY TotalUnfolds
  <2>5. Total(h, k) = Total(f, k) ++ Total(g, k)
    BY <1>2
  <2>6. (Total(f, k) ++ Total(g, k)) ++ (f[k + 1] ++ g[k + 1])
          = (Total(f, k) ++ f[k + 1]) ++ (Total(g, k) ++ g[k + 1])
    BY <2>2, <2>3, AddFour
  <2> QED BY <2>3, <2>4, <2>5, <2>6
<1> HIDE DEF Good
<1>3. n \in Good
  BY <1>1, <1>2, NatSetInduction
<1> QED BY <1>3, TotalOfAll DEF Good

\* A common factor.
LEMMA SumScale ==
  ASSUME NEW n \in Nat, NEW f \in [1 .. n -> Rationals], NEW x \in Rationals,
         NEW h \in [1 .. n -> Rationals], \A i \in 1 .. n : h[i] = x ** f[i]
  PROVE  SumOver(h) = x ** SumOver(f)
<1> DEFINE Good == {k \in Nat : k <= n => Total(h, k) = x ** Total(f, k)}
<1>1. 0 \in Good
  BY TotalUnfolds, MultiplyLaws
<1>2. ASSUME NEW k \in Nat, k \in Good PROVE k + 1 \in Good
  <2> SUFFICES ASSUME k + 1 <= n PROVE Total(h, k + 1) = x ** Total(f, k + 1)
    OBVIOUS
  <2>1. k + 1 \in 1 .. n /\ k \in 0 .. n
    OBVIOUS
  <2>2. Total(f, k) \in Rationals /\ f[k + 1] \in Rationals /\ h[k + 1] = x ** f[k + 1]
    BY <2>1, TotalClosed
  <2>3. Total(h, k + 1) = Total(h, k) ++ h[k + 1] /\ Total(f, k + 1) = Total(f, k) ++ f[k + 1]
    BY TotalUnfolds
  <2>4. Total(h, k) = x ** Total(f, k)
    BY <1>2
  <2>5. x ** (Total(f, k) ++ f[k + 1]) = (x ** Total(f, k)) ++ (x ** f[k + 1])
    BY <2>2, MultiplyLaws
  <2> QED BY <2>2, <2>3, <2>4, <2>5
<1> HIDE DEF Good
<1>3. n \in Good
  BY <1>1, <1>2, NatSetInduction
<1> QED BY <1>3, TotalOfAll DEF Good

\* A sum of which only the first term is not zero.
LEMMA SumFirst ==
  ASSUME NEW n \in Nat \ {0}, NEW f \in [1 .. n -> Rationals], \A i \in 2 .. n : f[i] = Zero
  PROVE  SumOver(f) = f[1]
<1> DEFINE Good == {k \in Nat : k + 1 <= n => Total(f, k + 1) = f[1]}
<1>1. 0 \in Good
  <2>1. 0 + 1 = 1 /\ f[1] \in Rationals
    OBVIOUS
  <2>2. Total(f, 0 + 1) = Total(f, 0) ++ f[0 + 1]
    BY TotalUnfolds
  <2>3. Total(f, 1) = Zero ++ f[1]
    BY <2>1, <2>2, TotalUnfolds
  <2>4. Zero ++ f[1] = f[1]
    BY <2>1, AddLaws
  <2> QED BY <2>1, <2>3, <2>4
<1>2. ASSUME NEW k \in Nat, k \in Good PROVE k + 1 \in Good
  <2> SUFFICES ASSUME (k + 1) + 1 <= n PROVE Total(f, (k + 1) + 1) = f[1]
    OBVIOUS
  <2>1. (k + 1) + 1 \in 2 .. n /\ k + 1 \in Nat
    OBVIOUS
  <2>2. f[(k + 1) + 1] = Zero
    BY <2>1
  <2>3. Total(f, (k + 1) + 1) = Total(f, k + 1) ++ f[(k + 1) + 1]
    BY <2>1, TotalUnfolds
  <2>4. Total(f, k + 1) = f[1]
    BY <1>2
  <2>5. f[1] \in Rationals
    OBVIOUS
  <2>6. f[1] ++ Zero = f[1]
    BY <2>5, AddLaws
  <2> QED BY <2>2, <2>3, <2>4, <2>6
<1> HIDE DEF Good
<1>3. n - 1 \in Good
  <2>1. n - 1 \in Nat
    OBVIOUS
  <2>2. \A k \in Nat : k \in Good
    BY <1>1, <1>2, NatSetInduction
  <2> QED BY <2>1, <2>2
<1>4. n - 1 + 1 = n
  OBVIOUS
<1>5. Total(f, n) = f[1]
  BY <1>3, <1>4 DEF Good
<1> QED BY <1>5, TotalOfAll

\* Nothing but zeros.
LEMMA SumZeros ==
  ASSUME NEW n \in Nat, NEW f \in [1 .. n -> {Zero}]
  PROVE  SumOver(f) = Zero
<1>0. Zero \in Rationals
  BY RationalsClosed
<1>1. CASE n = 0
  BY <1>1, TotalOfAll, TotalUnfolds
<1>2. CASE n # 0
  <2>1. f \in [1 .. n -> Rationals] /\ f[1] = Zero /\ \A i \in 2 .. n : f[i] = Zero
    BY <1>0, <1>2
  <2> QED BY <1>2, <2>1, SumFirst
<1> QED BY <1>1, <1>2

\* n parts of one n-th make a whole.
LEMMA SumEqualParts ==
  ASSUME NEW n \in Nat \ {0}, NEW f, f = [i \in 1 .. n |-> <<1, n>>]
  PROVE  SumOver(f) = One
<1> DEFINE Good == {k \in Nat : k <= n => Total(f, k) = Rat(k, n)}
<1>0. n \in Denominators
  BY DEF Denominators
<1>1. 0 \in Good
  BY <1>0, TotalUnfolds, RatEnds
<1>2. ASSUME NEW k \in Nat, k \in Good PROVE k + 1 \in Good
  <2> SUFFICES ASSUME k + 1 <= n PROVE Total(f, k + 1) = Rat(k + 1, n)
    OBVIOUS
  <2>1. k + 1 \in 1 .. n
    OBVIOUS
  <2>2. f[k + 1] = Rat(1, n)
    BY <1>0, <2>1, Whole
  <2>3. Total(f, k + 1) = Rat(k, n) ++ Rat(1, n)
    <3>1. Total(f, k) = Rat(k, n)
      BY <1>2
    <3>2. Total(f, k + 1) = Total(f, k) ++ f[k + 1]
      <4> HIDE DEF Good
      <4> QED BY TotalUnfolds
    <3> QED BY <2>2, <3>1, <3>2
  <2> QED BY <1>0, <2>3, AddParts
<1>3. n \in Good
  <2> HIDE DEF Good
  <2> QED BY <1>1, <1>2, NatSetInduction
<1>4. Rat(n, n) = One
  <2>1. 1 * n = n
    OBVIOUS
  <2> QED BY <1>0, <2>1, RatEnds DEF One
<1>5. f \in [1 .. n -> {<<1, n>>}]
  OBVIOUS
<1>6. SumOver(f) = Total(f, n)
  BY <1>5, TotalOfAll
<1> QED BY <1>3, <1>4, <1>6

\* Columns may be added before rows.
LEMMA SumSwap ==
  ASSUME NEW n \in Nat, NEW m \in Nat, NEW f \in [1 .. n -> [1 .. m -> Rationals]]
  PROVE  SumOver([i \in 1 .. n |-> SumOver(f[i])])
           = SumOver([j \in 1 .. m |-> SumOver([i \in 1 .. n |-> f[i][j]])])
<1> DEFINE r == [i \in 1 .. n |-> SumOver(f[i])]
           c(j) == [i \in 1 .. n |-> f[i][j]]
           s(k) == [j \in 1 .. m |-> Total(c(j), k)]
           Good == {k \in Nat : k <= n => Total(r, k) = SumOver(s(k))}
<1>1. r \in [1 .. n -> Rationals]
  BY SumClosed
<1>2. ASSUME NEW j \in 1 .. m PROVE c(j) \in [1 .. n -> Rationals]
  OBVIOUS
<1>3. ASSUME NEW k \in 0 .. n PROVE s(k) \in [1 .. m -> Rationals]
  <2>1. \A j \in 1 .. m : Total(c(j), k) \in Rationals
    <3> HIDE DEF c
    <3> QED BY <1>2, TotalClosed
  <2> HIDE DEF c
  <2> QED BY <2>1
<1>4. 0 \in Good
  <2>1. s(0) \in [1 .. m -> {Zero}]
    <3> HIDE DEF c
    <3> QED BY TotalUnfolds
  <2>2. SumOver(s(0)) = Zero
    <3> HIDE DEF s
    <3> QED BY <2>1, SumZeros
  <2>3. Total(r, 0) = Zero
    BY TotalUnfolds
  <2> QED BY <2>2, <2>3
<1>5. ASSUME NEW k \in Nat, k \in Good PROVE k + 1 \in Good
  <2> SUFFICES ASSUME k + 1 <= n PROVE Total(r, k + 1) = SumOver(s(k + 1))
    OBVIOUS
  <2>1. k \in 0 .. n /\ k + 1 \in 0 .. n /\ k + 1 \in 1 .. n
    OBVIOUS
  <2>2. Total(r, k + 1) = Total(r, k) ++ r[k + 1] /\ r[k + 1] = SumOver(f[k + 1])
    BY <2>1, TotalUnfolds
  <2>3. Total(r, k) = SumOver(s(k))
    BY <1>5, <2>1
  <2>4. s(k) \in [1 .. m -> Rationals] /\ s(k + 1) \in [1 .. m -> Rationals]
    BY <1>3, <2>1
  <2>5. f[k + 1] \in [1 .. m -> Rationals]
    BY <2>1
  <2>6. ASSUME NEW j \in 1 .. m PROVE s(k + 1)[j] = s(k)[j] ++ f[k + 1][j]
    <3>1. c(j)[k + 1] = f[k + 1][j]
      BY <2>1
    <3>2. Total(c(j), k + 1) = Total(c(j), k) ++ c(j)[k + 1]
      <4> HIDE DEF c
      <4> QED BY TotalUnfolds
    <3>3. s(k + 1)[j] = Total(c(j), k + 1) /\ s(k)[j] = Total(c(j), k)
      <4> HIDE DEF c
      <4> QED OBVIOUS
    <3> QED BY <3>1, <3>2, <3>3
  <2> HIDE DEF s, r
  <2>7. SumOver(s(k + 1)) = SumOver(s(k)) ++ SumOver(f[k + 1])
    BY <2>4, <2>5, <2>6, SumAddition
  <2> QED BY <2>2, <2>3, <2>7
<1>6. n \in Good
  <2> HIDE DEF Good
  <2> QED BY <1>4, <1>5, NatSetInduction
<1>7. Total(r, n) = SumOver(s(n))
  BY <1>6
<1>8. SumOver(r) = Total(r, n)
  <2> HIDE DEF r
  <2> QED BY <1>1, TotalOfAll
<1>9. s(n) = [j \in 1 .. m |-> SumOver(c(j))]
  <2>1. \A j \in 1 .. m : Total(c(j), n) = SumOver(c(j))
    <3> HIDE DEF c
    <3> QED BY <1>2, TotalOfAll
  <2> HIDE DEF c
  <2> QED BY <2>1
<1> QED BY <1>7, <1>8, <1>9

\* An amount is a rational.
LEMMA AmountIsRational == Amounts \subseteq Rationals
BY DEF Amounts

\* Nothing taken from an amount, and an amount taken from nothing.
LEMMA SubtractZero ==
  ASSUME NEW x \in Amounts
  PROVE  x -- Zero = x /\ Positive(x -- Zero) = x /\ Positive(Zero -- x) = Zero
<1>0. x \in Rationals /\ Zero \in Rationals
  BY AmountIsRational, RationalsClosed
<1>1. x -- Zero = x
  <2>1. x -- Zero \in Rationals /\ (x -- Zero) ++ Zero = x
    BY <1>0, SubtractLaws
  <2> QED BY <2>1, AddLaws
<1>2. Positive(x -- Zero) = x
  BY <1>1, PositiveOfAmount
<1>3. Positive(Zero -- x) = Zero
  <2> DEFINE q == Positive(Zero -- x)
  <2>1. Zero -- x \in Rationals
    BY <1>0, SubtractLaws
  <2>2. q \in Rationals
    BY <2>1, PositiveLaws, AmountIsRational
  <2>3. q ++ x = Positive(x -- Zero) ++ Zero
    BY <1>0, PositiveLaws
  <2> HIDE DEF q
  <2>4. q ++ x = Zero ++ x
    BY <1>0, <1>2, <2>3, AddLaws
  <2>5. q = Zero
    BY <1>0, <2>2, <2>4, AddCancel
  <2> QED BY <2>5 DEF q
<1> QED BY <1>1, <1>2, <1>3

\* The shares of a total that is not zero sum to one.
LEMMA SharesOfTotal ==
  ASSUME NEW n \in Nat, NEW x \in [1 .. n -> Amounts], SumOver(x) # Zero,
         NEW w, w = [i \in 1 .. n |-> x[i] // SumOver(x)]
  PROVE  w \in [1 .. n -> Amounts] /\ SumOver(w) = One
<1> DEFINE total == SumOver(x)
           inv   == <<total[2], total[1]>>
<1>1. total \in Amounts /\ total # Zero
  BY SumAmounts
<1>2. inv \in Amounts /\ total ** inv = One
  BY <1>1, DivideLaws
<1>3. \A i \in 1 .. n : w[i] = x[i] ** inv /\ w[i] \in Amounts
  <2>1. \A i \in 1 .. n : x[i] // total = x[i] ** inv
    BY DEF //
  <2>2. \A i \in 1 .. n : x[i] // total \in Amounts
    <3> HIDE DEF total
    <3> QED BY <1>1, DivideLaws
  <2>3. \A i \in 1 .. n : w[i] = x[i] // total
    OBVIOUS
  <2> HIDE DEF total, inv
  <2> QED BY <2>1, <2>2, <2>3
<1>4. w \in [1 .. n -> Amounts]
  <2>1. w = [i \in 1 .. n |-> w[i]]
    OBVIOUS
  <2> HIDE DEF inv
  <2> QED BY <1>3, <2>1
<1> HIDE DEF inv
<1>5. inv \in Rationals /\ x \in [1 .. n -> Rationals] /\ w \in [1 .. n -> Rationals]
  BY <1>2, <1>4, AmountIsRational
<1>6. ASSUME NEW i \in 1 .. n PROVE w[i] = inv ** x[i]
  <2>1. x[i] \in Rationals
    BY <1>5
  <2> QED BY <1>3, <1>5, <2>1, MultiplyLaws
<1>7. SumOver(w) = inv ** total
  BY <1>5, <1>6, SumScale
<1>8. inv ** total = total ** inv
  BY <1>1, <1>5, MultiplyLaws, AmountIsRational
<1> QED BY <1>2, <1>4, <1>7, <1>8

\* What prorata hands out of the energy p to n consumers who want x.
ProrataColumn(n, x, p) ==
  [c \in 1 .. n |-> IF SumOver(x) = Zero THEN (IF c = 1 THEN p ELSE Zero)
                                         ELSE p ** (x[c] // SumOver(x))]

\* What of a goes beyond x.
Excess(n, a, x) == [c \in 1 .. n |-> Positive(a[c] -- x[c])]

\* What of k is not in x.
Used(n, k, x) == [c \in 1 .. n |-> k[c] -- x[c]]

\* One time step of an iteration that hands out a: what is over, what each
\* consumer still wants and what all have used so far.
LEMMA BalanceStep ==
  ASSUME NEW n \in Nat, NEW x \in [1 .. n -> Amounts], NEW a \in [1 .. n -> Amounts],
         NEW k \in [1 .. n -> Rationals], NEW s, NEW d, NEW e,
         s = Excess(n, a, x), d = Used(n, k, x), e = Used(n, k, Excess(n, x, a))
  PROVE  /\ s \in [1 .. n -> Amounts] /\ d \in [1 .. n -> Rationals] /\ e \in [1 .. n -> Rationals]
         /\ SumOver(s) ++ SumOver(e) = SumOver(d) ++ SumOver(a)
<1> USE DEF Excess, Used
<1>1. ASSUME NEW c \in 1 .. n
      PROVE  /\ s[c] \in Amounts /\ d[c] \in Rationals /\ e[c] \in Rationals
             /\ s[c] ++ e[c] = d[c] ++ a[c]
  <2> DEFINE X == x[c]
             A == a[c]
             K == k[c]
             Y == Positive(X -- A)
             S == s[c]
             D == d[c]
             E == e[c]
  <2>1. X \in Rationals /\ A \in Rationals /\ K \in Rationals
    BY AmountIsRational
  <2>2. S = Positive(A -- X) /\ D = K -- X /\ E = K -- Y
    OBVIOUS
  <2> HIDE DEF X, A, K, S, D, E
  <2>3. X -- A \in Rationals /\ A -- X \in Rationals
    BY <2>1, SubtractLaws
  <2>4. Y \in Amounts /\ S \in Amounts
    BY <2>2, <2>3, PositiveLaws
  <2>5. S ++ X = Y ++ A
    BY <2>1, <2>2, PositiveLaws
  <2> HIDE DEF Y
  <2>6. Y \in Rationals /\ S \in Rationals
    BY <2>4, AmountIsRational
  <2>7. D \in Rationals /\ E \in Rationals /\ D ++ X = K /\ E ++ Y = K
    BY <2>1, <2>2, <2>6, SubtractLaws
  <2>8. (S ++ E) ++ (X ++ Y) = (S ++ X) ++ (E ++ Y)
    BY <2>1, <2>6, <2>7, AddFour
  <2>9. (D ++ A) ++ (X ++ Y) = (D ++ X) ++ (A ++ Y)
    BY <2>1, <2>6, <2>7, AddFour
  <2>10. Y ++ A \in Rationals /\ S ++ E \in Rationals /\ D ++ A \in Rationals /\ X ++ Y \in Rationals
    BY <2>1, <2>6, <2>7, RationalsClosed
  <2>11. (Y ++ A) ++ K = K ++ (A ++ Y)
    <3>1. Y ++ A = A ++ Y
      BY <2>1, <2>6, AddLaws
    <3>2. (Y ++ A) ++ K = K ++ (Y ++ A)
      BY <2>1, <2>10, AddLaws
    <3> QED BY <3>1, <3>2
  <2>12. S ++ E = D ++ A
    <3>1. (S ++ E) ++ (X ++ Y) = (D ++ A) ++ (X ++ Y)
      BY <2>5, <2>7, <2>8, <2>9, <2>11
    <3> QED BY <2>10, <3>1, AddCancel
  <2> QED BY <2>4, <2>7, <2>12 DEF S, D, E, A
<1>2. s \in [1 .. n -> Amounts] /\ d \in [1 .. n -> Rationals] /\ e \in [1 .. n -> Rationals]
  <2>1. s = [c \in 1 .. n |-> s[c]] /\ d = [c \in 1 .. n |-> d[c]] /\ e = [c \in 1 .. n |-> e[c]]
    OBVIOUS
  <2>2. \A c \in 1 .. n : s[c] \in Amounts /\ d[c] \in Rationals /\ e[c] \in Rationals
    BY <1>1
  <2> QED BY ONLY <2>1, <2>2
<1>3. s \in [1 .. n -> Rationals] /\ a \in [1 .. n -> Rationals]
  BY <1>2, AmountIsRational
<1> DEFINE h == [c \in 1 .. n |-> s[c] ++ e[c]]
<1>4. \A c \in 1 .. n : h[c] = s[c] ++ e[c] /\ h[c] = d[c] ++ a[c]
  <2>1. \A c \in 1 .. n : h[c] = s[c] ++ e[c]
    OBVIOUS
  <2> HIDE DEF h
  <2> QED BY <1>1, <2>1
<1>5. h \in [1 .. n -> Rationals]
  <2>1. \A c \in 1 .. n : s[c] ++ e[c] \in Rationals
    <3>1. \A c \in 1 .. n : s[c] \in Rationals /\ e[c] \in Rationals
      BY <1>2, <1>3
    <3> QED BY <3>1, RationalsClosed
  <2> QED BY ONLY <2>1
<1> HIDE DEF h
<1>n. n \in Nat
  OBVIOUS
<1>6. SumOver(h) = SumOver(s) ++ SumOver(e)
  <2>1. \A c \in 1 .. n : h[c] = s[c] ++ e[c]
    BY ONLY <1>4
  <2>2. s \in [1 .. n -> Rationals]
    BY ONLY <1>3
  <2>3. e \in [1 .. n -> Rationals]
    BY ONLY <1>2
  <2> QED BY ONLY <1>n, <1>5, <2>1, <2>2, <2>3, SumAddition
<1>7. SumOver(h) = SumOver(d) ++ SumOver(a)
  <2>1. \A c \in 1 .. n : h[c] = d[c] ++ a[c]
    BY ONLY <1>4
  <2>2. d \in [1 .. n -> Rationals]
    BY ONLY <1>2
  <2>3. a \in [1 .. n -> Rationals]
    BY ONLY <1>3
  <2> QED BY ONLY <1>n, <1>5, <2>1, <2>2, <2>3, SumAddition
<1> QED BY <1>2, <1>6, <1>7

\* One time step of prorata: what is over is what the energy p exceeds the
\* demand by.
LEMMA ProrataStep ==
  ASSUME NEW n \in Nat \ {0}, NEW x \in [1 .. n -> Amounts], NEW p \in Amounts, NEW a, NEW s,
         a = ProrataColumn(n, x, p), s = Excess(n, a, x)
  PROVE  /\ a \in [1 .. n -> Amounts]
         /\ SumOver(a) = p
         /\ SumOver(s) = Positive(p -- SumOver(x))
<1> USE DEF ProrataColumn, Excess
<1> DEFINE total == SumOver(x)
<1>1. total \in Amounts /\ p \in Rationals /\ total \in Rationals /\ n \in Nat
  BY SumAmounts, AmountIsRational
<1>2. CASE total = Zero
  <2>1. \A c \in 1 .. n : x[c] = Zero
    BY <1>2, SumAmounts
  <2>2. \A c \in 1 .. n : a[c] = IF c = 1 THEN p ELSE Zero
    BY <1>2
  <2>3. a \in [1 .. n -> Amounts]
    <3>1. a = [c \in 1 .. n |-> a[c]]
      OBVIOUS
    <3>2. \A c \in 1 .. n : a[c] \in Amounts
      BY <2>2, AmountsClosed
    <3> QED BY ONLY <3>1, <3>2
  <2>4. SumOver(a) = p
    <3>1. a \in [1 .. n -> Rationals] /\ (\A c \in 2 .. n : a[c] = Zero) /\ a[1] = p
      BY <2>2, <2>3, AmountIsRational
    <3> QED BY <3>1, SumFirst
  <2>5. s = a
    <3>1. \A c \in 1 .. n : Positive(a[c] -- x[c]) = a[c]
      <4>1. \A c \in 1 .. n : a[c] \in Amounts /\ x[c] = Zero
        BY <2>1, <2>3
      <4> QED BY <4>1, SubtractZero
    <3>2. a = [c \in 1 .. n |-> a[c]]
      OBVIOUS
    <3>3. s = [c \in 1 .. n |-> Positive(a[c] -- x[c])]
      OBVIOUS
    <3> QED BY ONLY <3>1, <3>2, <3>3
  <2>6. Positive(p -- total) = p
    BY <1>2, SubtractZero
  <2> QED BY <2>3, <2>4, <2>5, <2>6
<1>3. CASE total # Zero
  <2> DEFINE w == [c \in 1 .. n |-> x[c] // SumOver(x)]
             o == Positive(p -- total)
  <2>1. w \in [1 .. n -> Amounts] /\ SumOver(w) = One
    BY <1>1, <1>3, SharesOfTotal
  <2>2. \A c \in 1 .. n : a[c] = p ** w[c]
    BY <1>3
  <2>3. \A c \in 1 .. n : x[c] = total ** w[c]
    <3>1. \A c \in 1 .. n : w[c] = x[c] // total
      OBVIOUS
    <3>2. \A c \in 1 .. n : x[c] \in Rationals
      BY AmountIsRational
    <3> HIDE DEF w, total
    <3> QED BY <1>1, <1>3, <3>1, <3>2, DivideLaws
  <2> HIDE DEF w
  <2>4. a \in [1 .. n -> Amounts]
    <3>1. a = [c \in 1 .. n |-> a[c]]
      OBVIOUS
    <3>2. \A c \in 1 .. n : a[c] \in Amounts
      BY <2>1, <2>2, AmountsClosed
    <3> QED BY ONLY <3>1, <3>2
  <2>5. w \in [1 .. n -> Rationals] /\ a \in [1 .. n -> Rationals]
    BY <2>1, <2>4, AmountIsRational
  <2>6. SumOver(a) = p
    <3>1. SumOver(a) = p ** SumOver(w)
      BY <1>1, <2>2, <2>5, SumScale
    <3> QED BY <1>1, <2>1, <3>1, MultiplyLaws
  <2>7. o \in Amounts
    BY <1>1, SubtractLaws, PositiveLaws
  <2>8. ASSUME NEW c \in 1 .. n PROVE s[c] = o ** w[c]
    <3>1. s[c] = Positive(a[c] -- x[c])
      OBVIOUS
    <3>2. w[c] \in Rationals /\ w[c] \in Amounts
      BY <2>1, <2>5
    <3>3. (p ** w[c]) -- (total ** w[c]) = (p -- total) ** w[c]
      BY <1>1, <3>2, MultiplySubtract
    <3>4. p -- total \in Rationals
      BY <1>1, SubtractLaws
    <3>5. Positive((p -- total) ** w[c]) = o ** w[c]
      BY <3>2, <3>4, PositiveOfShare
    <3>6. a[c] = p ** w[c] /\ x[c] = total ** w[c]
      BY <2>2, <2>3
    <3> HIDE DEF o, total
    <3> QED BY <3>1, <3>3, <3>5, <3>6
  <2>9. s \in [1 .. n -> Rationals]
    <3>1. s = [c \in 1 .. n |-> s[c]]
      OBVIOUS
    <3>2. \A c \in 1 .. n : s[c] \in Amounts
      <4> HIDE DEF o
      <4> QED BY <2>1, <2>7, <2>8, AmountsClosed
    <3>3. \A c \in 1 .. n : s[c] \in Rationals
      BY <3>2, AmountIsRational
    <3> QED BY ONLY <3>1, <3>3
  <2> HIDE DEF o
  <2>10. o \in Rationals
    BY <2>7, AmountIsRational
  <2>11. SumOver(s) = o ** SumOver(w)
    BY <1>1, <2>5, <2>8, <2>9, <2>10, SumScale
  <2>12. o ** One = o
    BY <2>10, MultiplyLaws
  <2> QED BY <2>1, <2>4, <2>6, <2>11, <2>12 DEF o
<1> QED BY <1>2, <1>3

-----------------------------------------------------------------------------
(* The distribution functions.                                              *)

\* What the constants of BruteForce are.
LEMMA KeyConstants ==
  /\ NumConsumers \in Nat \ {0} /\ NumConsumers \in Denominators
  /\ Horizon \in Nat \ {0} /\ Parts \in Denominators
  /\ MaxEnergy \in Nat /\ Iterations \subseteq 1 .. 3
BY BruteForceAssumption DEF Denominators

\* The entries of all consumers at a time step.
EntriesAt(f, t) == [c \in Consumers |-> f[c][t]]

Algorithms == {"egalitaire", "prorata_total", "prorata"}

Ledgers == [Consumers -> [Times -> Amounts]]

\* The function hands out the whole profile at every time step.
HandsOutAll(a, profile) ==
  a \in Ledgers /\ \A t \in Times : SumOver(EntriesAt(a, t)) = profile[t]

\* A column of a ledger.
LEMMA EntriesType ==
  ASSUME NEW a \in Ledgers, NEW t \in Times
  PROVE  /\ EntriesAt(a, t) \in [1 .. NumConsumers -> Amounts]
         /\ \A c \in Consumers : EntriesAt(a, t)[c] = a[c][t]
BY DEF Ledgers, EntriesAt, Consumers

\* One weight for each consumer, the same at every time step.
LEMMA WeightsHandOut ==
  ASSUME NEW w \in [1 .. NumConsumers -> Amounts], SumOver(w) = One,
         NEW profile \in [Times -> Amounts],
         NEW a, a = [c \in Consumers |-> [t \in Times |-> profile[t] ** w[c]]]
  PROVE  HandsOutAll(a, profile)
<1>1. \A c \in Consumers : \A t \in Times : profile[t] ** w[c] \in Amounts
  BY AmountsClosed DEF Consumers
<1>2. a \in Ledgers
  BY <1>1 DEF Ledgers
<1>3. ASSUME NEW t \in Times PROVE SumOver(EntriesAt(a, t)) = profile[t]
  <2> DEFINE h == EntriesAt(a, t)
             p == profile[t]
  <2>1. \A c \in 1 .. NumConsumers : h[c] = p ** w[c]
    BY DEF EntriesAt, Consumers
  <2>2. h \in [1 .. NumConsumers -> Amounts]
    BY <1>2, EntriesType
  <2>3. p \in Amounts /\ NumConsumers \in Nat
    BY KeyConstants
  <2> HIDE DEF h, p
  <2>4. h \in [1 .. NumConsumers -> Rationals] /\ w \in [1 .. NumConsumers -> Rationals] /\ p \in Rationals
    BY <2>2, <2>3, AmountIsRational
  <2>5. SumOver(h) = p ** SumOver(w)
    BY <2>1, <2>3, <2>4, SumScale
  <2>6. p ** One = p
    BY <2>4, MultiplyLaws
  <2> QED BY <2>5, <2>6 DEF h, p
<1> QED BY <1>2, <1>3 DEF HandsOutAll

\* Equal weights.
LEMMA EgalitaireHandsOut ==
  ASSUME NEW profile \in [Times -> Amounts]
  PROVE  HandsOutAll(egalitaire(profile), profile)
<1> DEFINE w == [c \in 1 .. NumConsumers |-> <<1, NumConsumers>>]
<1>1. SumOver(w) = One
  BY KeyConstants, SumEqualParts
<1>2. w \in [1 .. NumConsumers -> Amounts]
  BY KeyConstants, AmountsClosed
<1>3. egalitaire(profile) = [c \in Consumers |-> [t \in Times |-> profile[t] ** w[c]]]
  BY DEF egalitaire, Consumers
<1> HIDE DEF w
<1> QED BY <1>1, <1>2, <1>3, WeightsHandOut

\* What a consumer still wants over all time steps.
Wanted == [c \in 1 .. NumConsumers |-> SumOver(consumption[c])]

\* The weights of prorata_total.
TotalWeight(c) ==
  IF ConsumptionTotal = Zero THEN (IF c = 1 THEN One ELSE Zero) ELSE Share(c)

\* The weights of prorata_total sum to one.
LEMMA TotalWeights ==
  ASSUME consumption \in Ledgers, NEW w, w = [c \in 1 .. NumConsumers |-> TotalWeight(c)]
  PROVE  w \in [1 .. NumConsumers -> Amounts] /\ SumOver(w) = One
<1>1. Wanted \in [1 .. NumConsumers -> Amounts]
  <2>1. ASSUME NEW c \in 1 .. NumConsumers PROVE SumOver(consumption[c]) \in Amounts
    <3>1. consumption[c] \in [1 .. Horizon -> Amounts] /\ Horizon \in Nat
      BY KeyConstants DEF Ledgers, Consumers, Times
    <3> QED BY <3>1, SumAmounts
  <2> QED BY <2>1 DEF Wanted
<1>2. ConsumptionTotal = SumOver(Wanted)
  BY DEF ConsumptionTotal, Wanted, Consumers
<1>3. CASE ConsumptionTotal = Zero
  <2>1. w = [c \in 1 .. NumConsumers |-> IF c = 1 THEN One ELSE Zero]
    BY <1>3 DEF TotalWeight
  <2>2. w \in [1 .. NumConsumers -> Amounts]
    BY <2>1, AmountsClosed
  <2>3. /\ w \in [1 .. NumConsumers -> Rationals] /\ w[1] = One
        /\ \A c \in 2 .. NumConsumers : w[c] = Zero
    BY <2>1, <2>2, AmountIsRational, KeyConstants
  <2>4. SumOver(w) = w[1]
    BY ONLY <2>3, KeyConstants, SumFirst
  <2> QED BY <2>2, <2>3, <2>4
<1>4. CASE ConsumptionTotal # Zero
  <2>1. w = [c \in 1 .. NumConsumers |-> Wanted[c] // SumOver(Wanted)]
    BY <1>2, <1>4 DEF TotalWeight, Share, Wanted
  <2> QED BY <1>1, <1>2, <1>4, <2>1, KeyConstants, SharesOfTotal
<1> QED BY <1>3, <1>4

\* Weights by the whole demand.
LEMMA ProrataTotalHandsOut ==
  ASSUME consumption \in Ledgers, NEW profile \in [Times -> Amounts]
  PROVE  HandsOutAll(prorata_total(profile), profile)
<1> DEFINE w == [c \in 1 .. NumConsumers |-> TotalWeight(c)]
<1>1. w \in [1 .. NumConsumers -> Amounts] /\ SumOver(w) = One
  BY TotalWeights
<1>2. \A c \in Consumers : w[c] = TotalWeight(c)
  BY DEF Consumers
<1> HIDE DEF w
<1>3. ASSUME NEW c \in Consumers, NEW t \in Times
      PROVE  (IF ConsumptionTotal = Zero THEN (IF c = 1 THEN profile[t] ELSE Zero)
                                         ELSE profile[t] ** Share(c)) = profile[t] ** w[c]
  <2>1. profile[t] \in Rationals
    BY AmountIsRational
  <2>2. profile[t] ** One = profile[t] /\ profile[t] ** Zero = Zero
    BY <2>1, MultiplyLaws
  <2> QED BY <1>2, <2>2 DEF TotalWeight
<1>4. prorata_total(profile) = [c \in Consumers |-> [t \in Times |-> profile[t] ** w[c]]]
  BY <1>3 DEF prorata_total
<1> QED BY <1>1, <1>4, WeightsHandOut

\* Weights by the demand of each time step; what is left over is what the
\* profile exceeds the demand by.
LEMMA ProrataHandsOut ==
  ASSUME consumption \in Ledgers, NEW profile \in [Times -> Amounts], NEW a, a = prorata(profile)
  PROVE  /\ HandsOutAll(a, profile)
         /\ \A t \in Times :
              SumOver([c \in Consumers |-> Positive(a[c][t] -- consumption[c][t])])
                = Positive(profile[t] -- TotalAt(t))
<1>1. ASSUME NEW t \in Times
      PROVE  /\ EntriesAt(a, t) \in [1 .. NumConsumers -> Amounts]
             /\ SumOver(EntriesAt(a, t)) = profile[t]
             /\ SumOver([c \in Consumers |-> Positive(a[c][t] -- consumption[c][t])])
                  = Positive(profile[t] -- TotalAt(t))
  <2> DEFINE x == EntriesAt(consumption, t)
             b == EntriesAt(a, t)
             p == profile[t]
             s == [c \in 1 .. NumConsumers |-> Positive(b[c] -- x[c])]
  <2>1. TotalAt(t) = SumOver(x)
    BY DEF TotalAt, EntriesAt
  <2>2. x \in [1 .. NumConsumers -> Amounts] /\ \A c \in 1 .. NumConsumers : x[c] = consumption[c][t]
    BY EntriesType DEF Consumers
  <2>3. b = [c \in 1 .. NumConsumers |-> IF SumOver(x) = Zero THEN (IF c = 1 THEN p ELSE Zero)
                                                              ELSE p ** (x[c] // SumOver(x))]
    <3>1. ASSUME NEW c \in Consumers
          PROVE  a[c][t] = IF SumOver(x) = Zero THEN (IF c = 1 THEN p ELSE Zero)
                                                ELSE p ** (consumption[c][t] // SumOver(x))
      <4> HIDE DEF x
      <4> QED BY <2>1 DEF prorata
    <3>2. b = [c \in 1 .. NumConsumers |-> a[c][t]]
      BY DEF EntriesAt, Consumers
    <3> HIDE DEF x, b
    <3> QED BY <2>2, <3>1, <3>2 DEF Consumers
  <2>4. [c \in Consumers |-> Positive(a[c][t] -- consumption[c][t])] = s
    <3>1. \A c \in 1 .. NumConsumers : b[c] = a[c][t]
      BY DEF EntriesAt, Consumers
    <3> HIDE DEF x, b
    <3> QED BY <2>2, <3>1 DEF Consumers
  <2>5. p \in Amounts /\ NumConsumers \in Nat \ {0}
    BY KeyConstants
  <2>6. s = [c \in 1 .. NumConsumers |-> Positive(b[c] -- x[c])]
    OBVIOUS
  <2>7. /\ b \in [1 .. NumConsumers -> Amounts] /\ SumOver(b) = p
        /\ SumOver(s) = Positive(p -- SumOver(x))
    <3> HIDE DEF x, b, p, s
    <3>1. x \in [1 .. NumConsumers -> Amounts]
      BY <2>2
    <3>2. b = ProrataColumn(NumConsumers, x, p) /\ s = Excess(NumConsumers, b, x)
      BY ONLY <2>3, <2>6 DEF ProrataColumn, Excess
    <3> QED BY ONLY <3>1, <3>2, <2>5, ProrataStep
  <2> HIDE DEF x, s
  <2> QED BY <2>1, <2>4, <2>7
<1>2. a \in Ledgers
  <2>1. ASSUME NEW c \in Consumers, NEW t \in Times PROVE a[c][t] \in Amounts
    <3>1. EntriesAt(a, t)[c] = a[c][t]
      BY DEF EntriesAt
    <3>2. EntriesAt(a, t)[c] \in Amounts
      BY <1>1 DEF Consumers
    <3> QED BY <3>1, <3>2
  <2>2. a = [c \in Consumers |-> [t \in Times |-> a[c][t]]]
    BY DEF prorata
  <2> QED BY ONLY <2>1, <2>2 DEF Ledgers
<1> QED BY <1>1, <1>2 DEF HandsOutAll

-----------------------------------------------------------------------------
(* The keys.                                                                *)

KeyTypes ==
  /\ C \in [Consumers -> [Times -> Nat]] /\ VA \in [Times -> Nat]
  /\ split \in Splits
  /\ names \in Seq(Algorithms) /\ Len(names) <= Len(split)
  /\ consumption \in Ledgers
  /\ surplus \in [Times -> Amounts]

\* The parts that the iterations of a key receive are those of the whole
\* production.
LEMMA SplitFacts ==
  ASSUME NEW s \in Splits
  PROVE  /\ Len(s) \in 1 .. 3 /\ s \in [1 .. Len(s) -> 0 .. Parts]
         /\ SumFunctionOnSet(s, 1 .. Len(s)) = Parts
         /\ \A k \in 0 .. Len(s) : SumFunctionOnSet(s, 1 .. k) \in Nat
         /\ \A k \in 0 .. Len(s) : k < Len(s) =>
              SumFunctionOnSet(s, 1 .. k + 1) = SumFunctionOnSet(s, 1 .. k) + s[k + 1]
<1>0. Parts \in Nat
  BY KeyConstants DEF Denominators
<1>1. PICK n \in Iterations : s \in [1 .. n -> 0 .. Parts] /\ SumFunction(s) = Parts
  BY DEF Splits
<1>2. n \in 1 .. 3 /\ Len(s) = n
  BY <1>0, <1>1, KeyConstants
<1>3. SumFunctionOnSet(s, 1 .. n) = Parts
  BY <1>1, SumDomain
<1>4. ASSUME NEW k \in 0 .. n
      PROVE  IsFiniteSet(1 .. k) /\ \A i \in 1 .. k : s[i] \in Nat
  <2>1. IsFiniteSet(1 .. k)
    BY FS_Interval
  <2>2. \A i \in 1 .. k : i \in 1 .. n
    BY <1>2
  <2> QED BY <1>0, <1>1, <2>1, <2>2
<1>5. ASSUME NEW k \in 0 .. n PROVE SumFunctionOnSet(s, 1 .. k) \in Nat
  BY <1>4, SumNat
<1>6. ASSUME NEW k \in 0 .. n, k < n
      PROVE  SumFunctionOnSet(s, 1 .. k + 1) = SumFunctionOnSet(s, 1 .. k) + s[k + 1]
  <2>1. k + 1 \in 0 .. n /\ k + 1 \in 1 .. k + 1 /\ k + 1 \in 1 .. n
    BY <1>2, <1>6
  <2>2. (1 .. k + 1) \ {k + 1} = 1 .. k
    BY <1>2
  <2>3. \A i \in 1 .. k + 1 : s[i] \in Int
    BY <1>4, <2>1
  <2>4. SumFunctionOnSet(s, 1 .. k + 1) = s[k + 1] + SumFunctionOnSet(s, (1 .. k + 1) \ {k + 1})
    BY <1>4, <2>1, <2>3, SumRemove
  <2>5. SumFunctionOnSet(s, 1 .. k) \in Nat /\ s[k + 1] \in Int
    BY <1>5, <2>1, <2>3
  <2>6. SumFunctionOnSet(s, 1 .. k + 1) = s[k + 1] + SumFunctionOnSet(s, 1 .. k)
    BY ONLY <2>2, <2>4
  <2>7. \A a \in Nat : \A b \in Int : b + a = a + b
    OBVIOUS
  <2> QED BY <2>5, <2>6, <2>7
<1> QED BY <1>1, <1>2, <1>3, <1>5, <1>6

\* The energy of an iteration.
LEMMA ProfileType ==
  ASSUME KeyTypes, NEW k \in 1 .. Len(split)
  PROVE  Profile(k) \in [Times -> Amounts]
<1>1. ASSUME NEW t \in Times PROVE Rat(VA[t] * split[k], Parts) ++ surplus[t] \in Amounts
  <2>1. split[k] \in 0 .. Parts /\ Parts \in Denominators
    BY SplitFacts, KeyConstants DEF KeyTypes
  <2>2. VA[t] \in Nat /\ split[k] \in Nat
    BY <2>1 DEF KeyTypes, Denominators
  <2>3. VA[t] * split[k] \in Nat
    BY <2>2
  <2>4. Rat(VA[t] * split[k], Parts) \in Amounts
    BY <2>1, <2>3, RatIsAmount
  <2>5. surplus[t] \in Amounts
    BY DEF KeyTypes
  <2> QED BY <2>4, <2>5, AmountsClosed
<1> QED BY <1>1 DEF Profile

\* Each function hands out its whole profile.
LEMMA DistributeHandsOut ==
  ASSUME KeyTypes, NEW algo \in Algorithms, NEW profile \in [Times -> Amounts]
  PROVE  HandsOutAll(Distribute(algo, profile), profile)
<1>1. consumption \in Ledgers
  BY DEF KeyTypes
<1>2. CASE algo = "egalitaire"
  BY <1>2, EgalitaireHandsOut DEF Distribute
<1>3. CASE algo = "prorata_total"
  BY <1>1, <1>3, ProrataTotalHandsOut DEF Distribute
<1>4. CASE algo = "prorata"
  BY <1>1, <1>4, ProrataHandsOut DEF Distribute
<1> QED BY <1>2, <1>3, <1>4 DEF Algorithms

\* The part of ProrataLastIsOptimal about prorata.
ProrataLeavesOptimum ==
  KeyComplete /\ names[Len(names)] = "prorata" => SumOver(surplus) = Optimum

\* The first state.
LEMMA InitSound == Init => KeyTypes /\ EnergyBalances /\ SharesSumToOne /\ ProrataLeavesOptimum
<1> SUFFICES ASSUME Init PROVE KeyTypes /\ EnergyBalances /\ SharesSumToOne /\ ProrataLeavesOptimum
  OBVIOUS
<1>1. KeyTypes
  <2>1. C \in [Consumers -> [Times -> Nat]] /\ VA \in [Times -> Nat]
    BY KeyConstants DEF Init
  <2>2. consumption \in Ledgers /\ surplus \in [Times -> Amounts]
    BY <2>1, AmountsClosed DEF Init, Ledgers
  <2>3. split \in Splits /\ names = <<>> /\ Len(split) \in 1 .. 3
    BY SplitFacts DEF Init
  <2> QED BY <2>1, <2>2, <2>3 DEF KeyTypes
<1>2. ASSUME NEW t \in Times
      PROVE  surplus[t] ++ SumOver([c \in Consumers |-> <<C[c][t], 1>> -- consumption[c][t]])
               = Rat(VA[t] * PartsGiven, Parts)
  <2> DEFINE d == [c \in Consumers |-> <<C[c][t], 1>> -- consumption[c][t]]
  <2>1. \A c \in Consumers : <<C[c][t], 1>> -- consumption[c][t] = Zero
    <3> TAKE c \in Consumers
    <3>1. consumption[c][t] = <<C[c][t], 1>> /\ C[c][t] \in Nat
      BY <1>1 DEF Init, KeyTypes
    <3>2. <<C[c][t], 1>> \in Rationals
      BY <3>1, RationalsClosed
    <3> QED BY <3>1, <3>2, SubtractLaws
  <2>2. d \in [1 .. NumConsumers -> {Zero}]
    BY <2>1 DEF Consumers
  <2> HIDE DEF d
  <2>3. SumOver(d) = Zero
    BY <2>2, KeyConstants, SumZeros
  <2>4. surplus[t] = Zero /\ Zero \in Rationals
    BY RationalsClosed DEF Init
  <2>5. Zero ++ Zero = Zero
    BY <2>4, AddLaws
  <2>6. PartsGiven = 0
    <3>1. names = <<>> /\ Len(<<>>) = 0 /\ 1 .. 0 = {}
      BY DEF Init
    <3> QED BY <3>1, SumEmpty DEF PartsGiven
  <2>7. VA[t] * 0 = 0
    BY <1>1 DEF KeyTypes
  <2>8. Rat(0, Parts) = Zero
    BY KeyConstants, RatEnds
  <2> QED BY <2>3, <2>4, <2>5, <2>6, <2>7, <2>8 DEF d
<1>3. names = <<>> /\ Len(names) = 0 /\ Len(split) # 0
  <2>1. Len(split) \in 1 .. 3
    BY SplitFacts DEF Init
  <2>2. names = <<>>
    BY DEF Init
  <2> QED BY <2>1, <2>2
<1> QED BY <1>1, <1>2, <1>3 DEF EnergyBalances, SharesSumToOne, ProrataLeavesOptimum, KeyComplete

\* The demand of the consumers at a time step as amounts.
Demand(t) == [c \in Consumers |-> <<C[c][t], 1>>]

\* What the consumers have used at a time step.
UsedAt(t) == SumOver([c \in Consumers |-> <<C[c][t], 1>> -- consumption[c][t]])

\* The demand is in amounts.
LEMMA DemandType ==
  ASSUME KeyTypes, NEW t \in Times
  PROVE  /\ Demand(t) \in [1 .. NumConsumers -> Rationals]
         /\ \A c \in Consumers : Demand(t)[c] = <<C[c][t], 1>>
<1>1. \A c \in Consumers : C[c][t] \in Int
  BY DEF KeyTypes
<1>2. \A c \in Consumers : <<C[c][t], 1>> \in Rationals
  BY <1>1, RationalsClosed
<1> QED BY <1>2 DEF Demand, Consumers

\* What is used and what is wanted still make up the demand.
LEMMA UsedAndWanted ==
  ASSUME KeyTypes, NEW t \in Times
  PROVE  /\ UsedAt(t) \in Rationals /\ TotalAt(t) \in Amounts
         /\ SumOver(Demand(t)) \in Rationals
         /\ UsedAt(t) ++ TotalAt(t) = SumOver(Demand(t))
<1> DEFINE x == EntriesAt(consumption, t)
           k == Demand(t)
           d == [c \in 1 .. NumConsumers |-> k[c] -- x[c]]
<1>1. x \in [1 .. NumConsumers -> Amounts] /\ \A c \in Consumers : x[c] = consumption[c][t]
  BY EntriesType DEF KeyTypes
<1>2. k \in [1 .. NumConsumers -> Rationals] /\ \A c \in Consumers : k[c] = <<C[c][t], 1>>
  BY DemandType
<1>3. TotalAt(t) = SumOver(x) /\ NumConsumers \in Nat
  BY KeyConstants DEF TotalAt, EntriesAt
<1> HIDE DEF x, k
<1>4. UsedAt(t) = SumOver(d)
  <2>1. [c \in Consumers |-> <<C[c][t], 1>> -- consumption[c][t]] = d
    BY <1>1, <1>2 DEF Consumers
  <2> QED BY ONLY <2>1 DEF UsedAt
<1>5. x \in [1 .. NumConsumers -> Rationals]
  BY <1>1, AmountIsRational
<1>6. ASSUME NEW c \in 1 .. NumConsumers PROVE d[c] \in Rationals /\ k[c] = d[c] ++ x[c]
  <2>1. d[c] = k[c] -- x[c] /\ k[c] \in Rationals /\ x[c] \in Rationals
    BY <1>2, <1>5
  <2> HIDE DEF d
  <2> QED BY <2>1, SubtractLaws
<1>7. d \in [1 .. NumConsumers -> Rationals]
  <2>1. d = [c \in 1 .. NumConsumers |-> d[c]]
    OBVIOUS
  <2>2. \A c \in 1 .. NumConsumers : d[c] \in Rationals
    BY <1>6
  <2> QED BY ONLY <2>1, <2>2
<1> HIDE DEF d
<1>8. SumOver(k) = SumOver(d) ++ SumOver(x)
  <2>1. k \in [1 .. NumConsumers -> Rationals]
    BY <1>2
  <2>2. \A c \in 1 .. NumConsumers : k[c] = d[c] ++ x[c]
    BY <1>6
  <2> QED BY ONLY <1>3, <1>5, <1>7, <2>1, <2>2, SumAddition
<1>9. SumOver(d) \in Rationals /\ SumOver(k) \in Rationals /\ SumOver(x) \in Amounts
  BY <1>1, <1>2, <1>3, <1>7, SumClosed, SumAmounts
<1> QED BY <1>3, <1>4, <1>8, <1>9 DEF k

\* One time step of an iteration that hands out b, whatever the function.
LEMMA IterationAt ==
  ASSUME KeyTypes, NEW t \in Times, NEW a \in Ledgers
  PROVE  LET over == SumOver([c \in Consumers |-> Positive(a[c][t] -- consumption[c][t])])
             spent == SumOver([c \in Consumers |->
                               <<C[c][t], 1>> -- Positive(consumption[c][t] -- a[c][t])])
         IN  /\ over \in Amounts /\ spent \in Rationals
             /\ over ++ spent = UsedAt(t) ++ SumOver(EntriesAt(a, t))
<1> DEFINE x == EntriesAt(consumption, t)
           b == EntriesAt(a, t)
           k == Demand(t)
           n == NumConsumers
<1>1. x \in [1 .. n -> Amounts] /\ \A c \in Consumers : x[c] = consumption[c][t]
  BY EntriesType DEF KeyTypes
<1>2. b \in [1 .. n -> Amounts] /\ \A c \in Consumers : b[c] = a[c][t]
  BY EntriesType
<1>3. k \in [1 .. n -> Rationals] /\ \A c \in Consumers : k[c] = <<C[c][t], 1>>
  BY DemandType
<1>4. n \in Nat /\ Consumers = 1 .. n
  BY KeyConstants DEF Consumers
<1> HIDE DEF x, b, k, n
<1>5. [c \in Consumers |-> Positive(a[c][t] -- consumption[c][t])] = Excess(n, b, x)
  BY <1>1, <1>2, <1>4 DEF Excess
<1>6. [c \in Consumers |-> <<C[c][t], 1>> -- Positive(consumption[c][t] -- a[c][t])]
        = Used(n, k, Excess(n, x, b))
  BY <1>1, <1>2, <1>3, <1>4 DEF Excess, Used
<1>7. [c \in Consumers |-> <<C[c][t], 1>> -- consumption[c][t]] = Used(n, k, x)
  BY <1>1, <1>3, <1>4 DEF Used
<1> DEFINE s == Excess(n, b, x)
           d == Used(n, k, x)
           e == Used(n, k, Excess(n, x, b))
<1>8. s = Excess(n, b, x) /\ d = Used(n, k, x) /\ e = Used(n, k, Excess(n, x, b))
  OBVIOUS
<1> HIDE DEF s, d, e
<1>9. /\ s \in [1 .. n -> Amounts] /\ d \in [1 .. n -> Rationals] /\ e \in [1 .. n -> Rationals]
      /\ SumOver(s) ++ SumOver(e) = SumOver(d) ++ SumOver(b)
  <2>1. x \in [1 .. n -> Amounts] /\ b \in [1 .. n -> Amounts] /\ k \in [1 .. n -> Rationals] /\ n \in Nat
    BY <1>1, <1>2, <1>3, <1>4
  <2> QED BY ONLY <1>8, <2>1, BalanceStep
<1>10. SumOver(s) \in Amounts /\ SumOver(e) \in Rationals
  BY <1>4, <1>9, SumAmounts, SumClosed
<1>11. UsedAt(t) = SumOver(d)
  BY ONLY <1>7, <1>8 DEF UsedAt
<1> QED BY ONLY <1>5, <1>6, <1>8, <1>9, <1>10, <1>11 DEF b

\* An iteration keeps the types and the balance.
LEMMA ApplyBalances ==
  ASSUME KeyTypes, EnergyBalances, NEW algo \in Algorithms, Apply(algo)
  PROVE  KeyTypes' /\ EnergyBalances'
<1> DEFINE k == Len(names) + 1
           profile == Profile(k)
           a == Distribute(algo, profile)
<1>1. Len(names) \in Nat /\ Len(split) \in Nat /\ k \in 1 .. Len(split)
  BY SplitFacts DEF KeyTypes, Apply
<1>2. profile \in [Times -> Amounts]
  BY <1>1, ProfileType
<1>3. a \in Ledgers /\ \A t \in Times : SumOver(EntriesAt(a, t)) = profile[t]
  <2> HIDE DEF profile
  <2> QED BY <1>2, DistributeHandsOut DEF HandsOutAll
<1>4. /\ consumption' = [c \in Consumers |-> [t \in Times |-> Positive(consumption[c][t] -- a[c][t])]]
      /\ surplus' = [t \in Times |-> SumOver([c \in Consumers |-> Positive(a[c][t] -- consumption[c][t])])]
      /\ names' = Append(names, algo) /\ C' = C /\ VA' = VA /\ split' = split
  BY DEF Apply
<1>5. \A t \in Times : profile[t] = Rat(VA[t] * split[k], Parts) ++ surplus[t]
  BY DEF Profile
<1> HIDE DEF a, profile
<1>6. KeyTypes'
  <2>1. consumption' \in Ledgers
    <3>1. ASSUME NEW c \in Consumers, NEW t \in Times
          PROVE  Positive(consumption[c][t] -- a[c][t]) \in Amounts
      <4>1. consumption[c][t] \in Rationals /\ a[c][t] \in Rationals
        BY <1>3, AmountIsRational DEF KeyTypes, Ledgers
      <4> QED BY <4>1, SubtractLaws, PositiveLaws
    <3> QED BY <1>4, <3>1 DEF Ledgers
  <2>2. surplus' \in [Times -> Amounts]
    <3>1. \A t \in Times : SumOver([c \in Consumers |-> Positive(a[c][t] -- consumption[c][t])]) \in Amounts
      BY <1>3, IterationAt
    <3> QED BY <1>4, <3>1
  <2>3. names' \in Seq(Algorithms) /\ Len(names') = k
    BY <1>4 DEF KeyTypes
  <2>4. Len(names') <= Len(split')
    BY <1>1, <1>4, <2>3
  <2> QED BY <1>4, <2>1, <2>2, <2>3, <2>4 DEF KeyTypes
<1>7. PartsGiven \in Nat /\ PartsGiven' = PartsGiven + split[k] /\ split[k] \in Nat
  <2> DEFINE l == Len(names)
  <2>1. l \in 0 .. Len(split) /\ l < Len(split) /\ Len(names') = l + 1
    BY <1>1, <1>4 DEF KeyTypes
  <2>2. split \in Splits /\ split' = split
    BY <1>4 DEF KeyTypes
  <2>3. PartsGiven = SumFunctionOnSet(split, 1 .. l) /\ PartsGiven' = SumFunctionOnSet(split, 1 .. l + 1)
    BY <1>4, <2>1 DEF PartsGiven
  <2>4. split[k] \in 0 .. Parts /\ Parts \in Nat
    BY <1>1, <2>2, SplitFacts, KeyConstants DEF Denominators
  <2> HIDE DEF l
  <2>5. SumFunctionOnSet(split, 1 .. l) \in Nat
    BY <2>1, <2>2, SplitFacts
  <2>6. SumFunctionOnSet(split, 1 .. l + 1) = SumFunctionOnSet(split, 1 .. l) + split[l + 1]
    BY <2>1, <2>2, SplitFacts
  <2> QED BY <2>3, <2>4, <2>5, <2>6 DEF l
<1>8. ASSUME NEW t \in Times
      PROVE  surplus'[t] ++ SumOver([c \in Consumers |-> <<C'[c][t], 1>> -- consumption'[c][t]])
               = Rat(VA'[t] * PartsGiven', Parts)
  <2> DEFINE over == SumOver([c \in Consumers |-> Positive(a[c][t] -- consumption[c][t])])
             spent == SumOver([c \in Consumers |->
                               <<C[c][t], 1>> -- Positive(consumption[c][t] -- a[c][t])])
             u == UsedAt(t)
             g == Rat(VA[t] * PartsGiven, Parts)
             h == Rat(VA[t] * split[k], Parts)
             s == surplus[t]
  <2>1. surplus'[t] = over
    BY <1>4
  <2>2. SumOver([c \in Consumers |-> <<C'[c][t], 1>> -- consumption'[c][t]]) = spent
    <3>1. [c \in Consumers |-> <<C'[c][t], 1>> -- consumption'[c][t]]
            = [c \in Consumers |-> <<C[c][t], 1>> -- Positive(consumption[c][t] -- a[c][t])]
      BY <1>4
    <3> QED BY <3>1
  <2>3. over ++ spent = u ++ SumOver(EntriesAt(a, t))
    BY <1>3, IterationAt
  <2>4. SumOver(EntriesAt(a, t)) = h ++ s
    BY <1>3, <1>5
  <2>5. s ++ u = g
    BY DEF EnergyBalances, UsedAt
  <2>6. u \in Rationals /\ s \in Rationals
    BY UsedAndWanted, AmountIsRational DEF KeyTypes
  <2>7. VA[t] \in Nat /\ Parts \in Denominators
    BY KeyConstants DEF KeyTypes
  <2>8. VA[t] * PartsGiven \in Int /\ VA[t] * split[k] \in Int
    BY <1>7, <2>7
  <2>9. VA[t] * PartsGiven + VA[t] * split[k] = VA[t] * (PartsGiven + split[k])
    BY <1>7, <2>7
  <2>10. g ++ h = Rat(VA[t] * PartsGiven + VA[t] * split[k], Parts)
    BY <2>7, <2>8, AddParts
  <2>11. h \in Rationals
    BY <2>7, <2>8, RatIsRational
  <2> HIDE DEF over, spent, u, g, h, s
  <2>12. u ++ (h ++ s) = (s ++ u) ++ h
    <3>1. h ++ s = s ++ h /\ s ++ u = u ++ s /\ (u ++ s) ++ h = u ++ (s ++ h)
      BY <2>6, <2>11, AddLaws
    <3> QED BY <3>1
  <2>13. over ++ spent = Rat(VA[t] * (PartsGiven + split[k]), Parts)
    BY <2>3, <2>4, <2>5, <2>9, <2>10, <2>12
  <2> QED BY <1>4, <1>7, <2>1, <2>2, <2>13
<1> QED BY <1>6, <1>8 DEF EnergyBalances

\* What a consumer receives over all time steps.
Received(a) == [c \in 1 .. NumConsumers |-> SumOver(a[c])]

\* What the consumers receive is the whole profile.
LEMMA ReceivedAll ==
  ASSUME NEW profile \in [Times -> Amounts], NEW a, HandsOutAll(a, profile)
  PROVE  Received(a) \in [1 .. NumConsumers -> Amounts] /\ SumOver(Received(a)) = SumOver(profile)
<1>1. NumConsumers \in Nat /\ Horizon \in Nat
  BY KeyConstants
<1>2. a \in [1 .. NumConsumers -> [1 .. Horizon -> Amounts]]
  BY DEF HandsOutAll, Ledgers, Consumers, Times
<1>3. Received(a) \in [1 .. NumConsumers -> Amounts]
  <2>1. \A c \in 1 .. NumConsumers : SumOver(a[c]) \in Amounts
    BY <1>1, <1>2, SumAmounts
  <2> QED BY <2>1 DEF Received
<1>4. a \in [1 .. NumConsumers -> [1 .. Horizon -> Rationals]]
  BY <1>2, AmountIsRational
<1>5. SumOver(Received(a))
        = SumOver([t \in 1 .. Horizon |-> SumOver([c \in 1 .. NumConsumers |-> a[c][t]])])
  BY ONLY <1>1, <1>4, SumSwap DEF Received
<1>6. [t \in 1 .. Horizon |-> SumOver([c \in 1 .. NumConsumers |-> a[c][t]])] = profile
  <2>1. \A t \in 1 .. Horizon : SumOver([c \in 1 .. NumConsumers |-> a[c][t]]) = profile[t]
    BY DEF HandsOutAll, EntriesAt, Consumers, Times
  <2>2. profile = [t \in 1 .. Horizon |-> profile[t]]
    BY DEF Times
  <2> QED BY ONLY <2>1, <2>2
<1> QED BY ONLY <1>3, <1>5, <1>6

\* An iteration reports shares of the whole.
LEMMA ApplyShares ==
  ASSUME KeyTypes, NEW algo \in Algorithms, Apply(algo)
  PROVE  SharesSumToOne'
<1> DEFINE k == Len(names) + 1
           profile == Profile(k)
           a == Distribute(algo, profile)
<1>1. Len(names) \in Nat /\ Len(split) \in Nat /\ k \in 1 .. Len(split)
  BY SplitFacts DEF KeyTypes, Apply
<1>2. profile \in [Times -> Amounts]
  BY <1>1, ProfileType
<1>3. HandsOutAll(a, profile)
  <2> HIDE DEF profile
  <2> QED BY <1>2, DistributeHandsOut
<1>4. /\ percentages' = [c \in Consumers |-> Percentage(algo, profile, a, c)]
      /\ surplus' = [t \in Times |-> SumOver([c \in Consumers |-> Positive(a[c][t] -- consumption[c][t])])]
      /\ names' = Append(names, algo)
  BY DEF Apply
<1> HIDE DEF a, profile
<1>5. names'[Len(names')] = algo
  BY <1>4 DEF KeyTypes
<1>6. NumConsumers \in Nat /\ Consumers = 1 .. NumConsumers
  BY KeyConstants DEF Consumers
<1>7. CASE algo = "egalitaire"
  <2>1. percentages' = [c \in 1 .. NumConsumers |-> <<1, NumConsumers>>]
    BY <1>4, <1>6, <1>7 DEF Percentage
  <2>2. SumOver(percentages') = One
    BY <2>1, KeyConstants, SumEqualParts
  <2> QED BY <2>2 DEF SharesSumToOne
<1>8. CASE algo = "prorata_total"
  <2>1. percentages' = [c \in 1 .. NumConsumers |-> TotalWeight(c)]
    BY <1>4, <1>6, <1>8 DEF Percentage, TotalWeight
  <2>2. SumOver(percentages') = One
    BY <2>1, TotalWeights DEF KeyTypes
  <2> QED BY <2>2 DEF SharesSumToOne
<1>9. CASE algo = "prorata"
  <2> DEFINE r == Received(a)
  <2>1. r \in [1 .. NumConsumers -> Amounts] /\ SumOver(r) = SumOver(profile)
    BY <1>2, <1>3, ReceivedAll
  <2>2. \A c \in 1 .. NumConsumers : r[c] = SumOver(a[c])
    BY DEF Received
  <2> HIDE DEF r
  <2>3. CASE SumOver(profile) = Zero
    <3>1. \A c \in Consumers : percentages'[c] = Zero
      BY <1>4, <1>9, <2>3 DEF Percentage, Collapsed
    <3>2. \A t \in Times : profile[t] = Zero
      BY <1>2, <2>3, KeyConstants, SumAmounts DEF Times
    <3>3. ASSUME NEW t \in Times PROVE surplus'[t] = Zero
      <4>1. EntriesAt(a, t) \in [1 .. NumConsumers -> Amounts] /\ SumOver(EntriesAt(a, t)) = Zero
        BY <1>3, <3>2, EntriesType DEF HandsOutAll
      <4>2. \A c \in 1 .. NumConsumers : EntriesAt(a, t)[c] = Zero
        BY <1>6, <4>1, SumAmounts
      <4>3. \A c \in Consumers : a[c][t] = Zero
        BY <1>3, <1>6, <4>2, EntriesType DEF HandsOutAll
      <4>4. \A c \in Consumers : consumption[c][t] \in Amounts
        BY DEF KeyTypes, Ledgers
      <4>5. \A c \in Consumers : Positive(a[c][t] -- consumption[c][t]) = Zero
        BY <4>3, <4>4, SubtractZero
      <4> DEFINE z == [c \in Consumers |-> Positive(a[c][t] -- consumption[c][t])]
      <4>6. z \in [1 .. NumConsumers -> {Zero}]
        BY <1>6, <4>5
      <4>7. surplus'[t] = SumOver(z)
        BY <1>4
      <4> HIDE DEF z
      <4> QED BY <1>6, <4>6, <4>7, SumZeros
    <3> QED BY <1>5, <1>9, <3>1, <3>3 DEF SharesSumToOne
  <2>4. CASE SumOver(profile) # Zero
    <3>1. percentages' = [c \in 1 .. NumConsumers |-> r[c] // SumOver(r)]
      BY <1>4, <1>6, <1>9, <2>1, <2>2, <2>4 DEF Percentage, Collapsed
    <3>2. SumOver(percentages') = One
      BY <1>6, <2>1, <2>4, <3>1, SharesOfTotal
    <3> QED BY <3>2 DEF SharesSumToOne
  <2> QED BY <2>3, <2>4
<1> QED BY <1>7, <1>8, <1>9 DEF Algorithms

\* The last iteration of a key receives the production that no iteration
\* before has received: with what they have used it is all of the production.
LEMMA LastProfile ==
  ASSUME KeyTypes, EnergyBalances, NEW k, k = Len(names) + 1, k = Len(split), NEW t \in Times
  PROVE  Profile(k)[t] -- TotalAt(t) = <<VA[t], 1>> -- SumOver(Demand(t))
<1> DEFINE s == surplus[t]
           u == UsedAt(t)
           x == TotalAt(t)
           w == SumOver(Demand(t))
           v == <<VA[t], 1>>
           g == Rat(VA[t] * PartsGiven, Parts)
           h == Rat(VA[t] * split[k], Parts)
           p == Profile(k)[t]
<1>1. p = h ++ s
  BY DEF Profile
<1>2. s ++ u = g
  BY DEF EnergyBalances, UsedAt
<1>3. u \in Rationals /\ x \in Rationals /\ w \in Rationals /\ u ++ x = w /\ s \in Rationals
  BY UsedAndWanted, AmountIsRational DEF KeyTypes
<1>4. PartsGiven \in Nat /\ split[k] \in Nat /\ PartsGiven + split[k] = Parts
  <2> DEFINE l == Len(names)
  <2>1. l \in 0 .. Len(split) /\ l < Len(split) /\ k = l + 1 /\ split \in Splits /\ k \in 1 .. Len(split)
    BY SplitFacts DEF KeyTypes
  <2>2. PartsGiven = SumFunctionOnSet(split, 1 .. l)
    BY DEF PartsGiven
  <2> HIDE DEF l
  <2>3. split[k] \in 0 .. Parts /\ Parts \in Nat
    BY <2>1, SplitFacts, KeyConstants DEF Denominators
  <2>4. SumFunctionOnSet(split, 1 .. l) \in Nat /\ SumFunctionOnSet(split, 1 .. Len(split)) = Parts
    BY <2>1, SplitFacts
  <2>5. SumFunctionOnSet(split, 1 .. l + 1) = SumFunctionOnSet(split, 1 .. l) + split[l + 1]
    BY <2>1, SplitFacts
  <2>6. l + 1 = Len(split)
    BY <2>1
  <2> QED BY <2>1, <2>2, <2>3, <2>4, <2>5, <2>6
<1>5. VA[t] \in Nat /\ Parts \in Denominators
  BY KeyConstants DEF KeyTypes
<1>6. VA[t] * PartsGiven \in Int /\ VA[t] * split[k] \in Int
  BY <1>4, <1>5
<1>7. VA[t] * PartsGiven + VA[t] * split[k] = VA[t] * Parts
  <2>1. VA[t] * PartsGiven + VA[t] * split[k] = VA[t] * (PartsGiven + split[k])
    BY <1>4, <1>5
  <2> QED BY <1>4, <2>1
<1>8. g ++ h = v /\ h \in Rationals /\ v \in Rationals
  <2>1. g ++ h = Rat(VA[t] * PartsGiven + VA[t] * split[k], Parts)
    BY <1>5, <1>6, AddParts
  <2>2. Rat(VA[t] * Parts, Parts) = <<VA[t], 1>>
    BY <1>5, RatEnds
  <2>3. h \in Rationals /\ v \in Rationals
    BY <1>5, <1>6, RatIsRational, RationalsClosed
  <2> QED BY <1>7, <2>1, <2>2, <2>3
<1> HIDE DEF s, u, x, w, v, g, h, p
<1>9. p \in Rationals
  BY <1>1, <1>3, <1>8, RationalsClosed
<1>10. p ++ u = v
  <2>1. (h ++ s) ++ u = h ++ (s ++ u)
    BY <1>3, <1>8, AddLaws
  <2>2. h ++ g = g ++ h
    <3>1. g \in Rationals
      BY <1>2, <1>3, RationalsClosed
    <3> QED BY <1>8, <3>1, AddLaws
  <2> QED BY <1>1, <1>2, <1>8, <2>1, <2>2
<1> DEFINE y == p -- x
           z == v -- w
<1>11. y \in Rationals /\ y ++ x = p /\ z \in Rationals /\ z ++ w = v
  BY <1>3, <1>8, <1>9, SubtractLaws
<1> HIDE DEF y, z
<1>12. y ++ w = v
  <2>1. x ++ u = u ++ x
    BY <1>3, AddLaws
  <2>2. (y ++ x) ++ u = y ++ (x ++ u)
    BY <1>3, <1>11, AddLaws
  <2> QED BY <1>3, <1>10, <1>11, <2>1, <2>2
<1>13. y = z
  BY <1>3, <1>11, <1>12, AddCancel
<1> QED BY <1>13 DEF y, z, p, x, v, w

\* A last iteration by prorata leaves the least surplus.
LEMMA ApplyOptimal ==
  ASSUME KeyTypes, EnergyBalances, NEW algo \in Algorithms, Apply(algo)
  PROVE  ProrataLeavesOptimum'
<1> DEFINE k == Len(names) + 1
           profile == Profile(k)
           a == prorata(profile)
<1>1. Len(names) \in Nat /\ Len(split) \in Nat /\ k \in 1 .. Len(split)
  BY SplitFacts DEF KeyTypes, Apply
<1>2. names' = Append(names, algo) /\ split' = split /\ C' = C /\ VA' = VA
  BY DEF Apply
<1>3. Len(names') = k /\ names'[Len(names')] = algo
  BY <1>2 DEF KeyTypes
<1> SUFFICES ASSUME k = Len(split), algo = "prorata"
             PROVE  SumOver(surplus') = Optimum'
  BY <1>2, <1>3 DEF ProrataLeavesOptimum, KeyComplete
<1>4. profile \in [Times -> Amounts]
  BY <1>1, ProfileType
<1>5. surplus' = [t \in Times |-> SumOver([c \in Consumers |-> Positive(a[c][t] -- consumption[c][t])])]
  BY DEF Apply, Distribute
<1>6. ASSUME NEW t \in Times
      PROVE  surplus'[t] = Positive(<<VA[t], 1>> -- SumOver([c \in Consumers |-> <<C[c][t], 1>>]))
  <2>1. surplus'[t] = SumOver([c \in Consumers |-> Positive(a[c][t] -- consumption[c][t])])
    BY <1>5
  <2>2. SumOver([c \in Consumers |-> Positive(a[c][t] -- consumption[c][t])])
          = Positive(profile[t] -- TotalAt(t))
    <3> HIDE DEF profile
    <3> QED BY <1>4, ProrataHandsOut DEF KeyTypes
  <2>3. profile[t] -- TotalAt(t) = <<VA[t], 1>> -- SumOver(Demand(t))
    BY LastProfile
  <2> HIDE DEF profile, a
  <2> QED BY <2>1, <2>2, <2>3 DEF Demand
<1>7. surplus' = [t \in Times |-> Positive(<<VA[t], 1>> -- SumOver([c \in Consumers |-> <<C[c][t], 1>>]))]
  <2>1. surplus' = [t \in Times |-> surplus'[t]]
    <3> HIDE DEF a
    <3> QED BY <1>5
  <2> QED BY ONLY <1>6, <2>1
<1>8. Optimum' = SumOver([t \in Times |->
                   Positive(<<VA[t], 1>> -- SumOver([c \in Consumers |-> <<C[c][t], 1>>]))])
  BY <1>2 DEF Optimum
<1> QED BY ONLY <1>7, <1>8

\* What holds of every key: the induction needs the balance of the iterations
\* before, the shares and the optimum only the types and that balance.
KeyInv == KeyTypes /\ EnergyBalances /\ SharesSumToOne /\ ProrataLeavesOptimum

\* Every iteration keeps it.
LEMMA KeyInvHolds == Spec => []KeyInv
<1>1. Init => KeyInv
  BY InitSound DEF KeyInv
<1>2. KeyInv /\ [Next]_vars => KeyInv'
  <2> SUFFICES ASSUME KeyInv, [Next]_vars PROVE KeyInv'
    OBVIOUS
  <2>1. ASSUME NEW algo \in Algorithms, Apply(algo) PROVE KeyInv'
    BY <2>1, ApplyBalances, ApplyShares, ApplyOptimal DEF KeyInv
  <2>2. CASE UNCHANGED vars
    <3>1. KeyTypes'
      BY <2>2 DEF KeyInv, KeyTypes, vars
    <3>2. EnergyBalances' /\ SharesSumToOne' /\ ProrataLeavesOptimum'
      BY <2>2 DEF KeyInv, EnergyBalances, SharesSumToOne, ProrataLeavesOptimum, vars,
                  PartsGiven, KeyComplete, Optimum
    <3> QED BY <3>1, <3>2 DEF KeyInv
  <2> QED BY <2>1, <2>2 DEF Next, Algorithms
<1> QED BY <1>1, <1>2, PTL DEF Spec

\* At every time step and after every iteration of a key, the energy that the
\* consumers have used and the surplus add up to the production handed out so
\* far, and the shares that the iteration reports are shares of the whole.
THEOREM KeysAreSound == Spec => []SoundKey
<1>1. KeyInv => SoundKey
  BY DEF KeyInv, SoundKey
<1> QED BY <1>1, KeyInvHolds, PTL

\* A complete key has handed out the whole production, so that it leaves no
\* less than what the production exceeds the demand by.
LEMMA SurplusAt ==
  ASSUME KeyTypes, EnergyBalances, KeyComplete, NEW t \in Times,
         NEW o, o = Positive(<<VA[t], 1>> -- SumOver(Demand(t)))
  PROVE  o \in Amounts /\ surplus[t] -- o \in Amounts
<1> DEFINE s == surplus[t]
           u == UsedAt(t)
           x == TotalAt(t)
           w == SumOver(Demand(t))
           v == <<VA[t], 1>>
           z == v -- w
<1>1. s ++ u = v
  <2>1. PartsGiven = Parts
    BY SplitFacts DEF KeyTypes, KeyComplete, PartsGiven
  <2>2. VA[t] \in Int /\ Parts \in Denominators
    BY KeyConstants DEF KeyTypes
  <2>3. Rat(VA[t] * Parts, Parts) = v
    BY <2>2, RatEnds
  <2> QED BY <2>1, <2>3 DEF EnergyBalances, UsedAt
<1>2. /\ u \in Rationals /\ x \in Amounts /\ x \in Rationals /\ w \in Rationals /\ u ++ x = w
      /\ s \in Rationals /\ s \in Amounts
  BY UsedAndWanted, AmountIsRational DEF KeyTypes
<1>3. v \in Rationals
  BY RationalsClosed DEF KeyTypes
<1>4. o = Positive(z)
  OBVIOUS
<1> HIDE DEF s, u, x, w, v
<1>5. z \in Rationals /\ z ++ w = v
  BY <1>2, <1>3, SubtractLaws
<1> HIDE DEF z
<1>6. o \in Amounts
  BY <1>4, <1>5, PositiveLaws
<1>7. s = x ++ z
  <2>1. ((x ++ z) ++ u) = v
    <3>1. (x ++ z) ++ u = (z ++ x) ++ u /\ (z ++ x) ++ u = z ++ (x ++ u) /\ x ++ u = u ++ x
      BY <1>2, <1>5, AddLaws
    <3> QED BY <1>2, <1>5, <3>1
  <2>2. x ++ z \in Rationals
    BY <1>2, <1>5, RationalsClosed
  <2> QED BY <1>1, <1>2, <2>1, <2>2, AddCancel
<1>8. CASE o = z
  <2> DEFINE d == s -- o
  <2>1. d \in Rationals /\ d ++ z = s
    BY <1>2, <1>5, <1>8, SubtractLaws
  <2> HIDE DEF d
  <2>2. d = x
    BY <1>2, <1>5, <1>7, <2>1, AddCancel
  <2>3. d \in Amounts
    BY <1>2, <2>2
  <2> QED BY <1>6, <2>3 DEF d, s
<1>9. CASE o = Zero
  <2>1. s -- o \in Amounts
    BY <1>2, <1>9, SubtractZero
  <2> QED BY <1>6, <2>1 DEF s
<1> QED BY <1>4, <1>8, <1>9 DEF Positive

\* The same over all time steps.
LEMMA NoLessThanOptimum ==
  ASSUME KeyTypes, EnergyBalances, KeyComplete
  PROVE  (SumOver(surplus) -- Optimum)[1] >= 0
<1> DEFINE o == [t \in 1 .. Horizon |-> Positive(<<VA[t], 1>> -- SumOver(Demand(t)))]
           r == [t \in 1 .. Horizon |-> surplus[t] -- o[t]]
<1>1. Optimum = SumOver(o) /\ Horizon \in Nat
  BY KeyConstants DEF Optimum, Demand, Times
<1>2. surplus \in [1 .. Horizon -> Amounts]
  BY DEF KeyTypes, Times
<1>3. ASSUME NEW t \in 1 .. Horizon PROVE o[t] \in Amounts /\ surplus[t] -- o[t] \in Amounts
  <2>1. o[t] = Positive(<<VA[t], 1>> -- SumOver(Demand(t))) /\ t \in Times
    BY DEF Times
  <2> HIDE DEF o
  <2> QED BY <2>1, SurplusAt
<1>4. o \in [1 .. Horizon -> Amounts]
  <2>1. o = [t \in 1 .. Horizon |-> o[t]]
    OBVIOUS
  <2>2. \A t \in 1 .. Horizon : o[t] \in Amounts
    BY <1>3
  <2> QED BY ONLY <2>1, <2>2
<1> HIDE DEF o
<1>5. r \in [1 .. Horizon -> Amounts] /\ \A t \in 1 .. Horizon : r[t] = surplus[t] -- o[t]
  BY <1>3
<1> HIDE DEF r
<1>6. /\ surplus \in [1 .. Horizon -> Rationals] /\ o \in [1 .. Horizon -> Rationals]
      /\ r \in [1 .. Horizon -> Rationals]
  BY <1>2, <1>4, <1>5, AmountIsRational
<1>7. ASSUME NEW t \in 1 .. Horizon PROVE surplus[t] = r[t] ++ o[t]
  <2>1. surplus[t] \in Rationals /\ o[t] \in Rationals
    BY <1>6
  <2> QED BY <1>5, <2>1, SubtractLaws
<1>8. SumOver(surplus) = SumOver(r) ++ SumOver(o)
  BY <1>1, <1>6, <1>7, SumAddition
<1>9. SumOver(r) \in Amounts
  BY <1>1, <1>5, SumAmounts
<1> DEFINE a == SumOver(surplus)
           b == SumOver(o)
           q == SumOver(r)
           d == a -- b
<1>10. a \in Rationals /\ b \in Rationals /\ q \in Rationals /\ q ++ b = a
  BY <1>1, <1>6, <1>8, SumClosed
<1> HIDE DEF a, b, q
<1>11. d \in Rationals /\ d ++ b = a
  BY <1>10, SubtractLaws
<1> HIDE DEF d
<1>12. d = q
  BY <1>10, <1>11, AddCancel
<1>13. d[1] >= 0
  BY <1>9, <1>12 DEF Amounts, q
<1> QED BY <1>1, <1>13 DEF a, b, d

\* No key leaves less surplus than what the production exceeds the demand by,
\* and a key whose last iteration is prorata leaves no more, whatever the
\* iterations before it have done.
THEOREM ProrataIsOptimal == Spec => []ProrataLastIsOptimal
<1>1. KeyInv => ProrataLastIsOptimal
  BY NoLessThanOptimum DEF KeyInv, ProrataLeavesOptimum, ProrataLastIsOptimal
<1> QED BY <1>1, KeyInvHolds, PTL

===============================================================================
