------------------------------- MODULE Sums -------------------------------
(***************************************************************************)
(* Facts about SumFunctionOnSet, the sum of the values of a function over  *)
(* a finite set, and about Cardinality, for the proofs about CrmInput,     *)
(* GenerationInput, OlagsaGA and BruteForce.                               *)
(*                                                                         *)
(* Induction is over a SET of good subsets, which is first-order: the      *)
(* smallest bad subset is the one that the order by inclusion, which is    *)
(* well founded on the subsets of a finite set, provides.                  *)
(***************************************************************************)
EXTENDS FiniteSetsExt, FiniteSetTheorems, TLAPS

\* Every subset of a finite set is good if a set is whose proper subsets are.
LEMMA StrongSubsetInduction ==
  ASSUME NEW S, IsFiniteSet(S), NEW Good,
         \A T \in SUBSET S : (\A U \in SUBSET T : U # T => U \in Good) => T \in Good
  PROVE  \A T \in SUBSET S : T \in Good
<1> SUFFICES ASSUME NEW B \in SUBSET S, B \notin Good PROVE FALSE
  OBVIOUS
<1> DEFINE Bad == {T \in SUBSET S : T \notin Good}
<1>1. IsWellFoundedOn(StrictSubsetOrdering(S), SUBSET S)
  <2>1. IsWellFoundedOn(StrictSubsetOrdering(S), FiniteSubsetsOf(S))
    BY FS_StrictSubsetOrderingWellFounded
  <2>2. FiniteSubsetsOf(S) = SUBSET S
    BY FS_FiniteSubsetsOfFinite
  <2> QED BY <2>1, <2>2
<1>2. Bad \subseteq SUBSET S /\ Bad # {}
  OBVIOUS
<1> HIDE DEF Bad
<1>3. PICK T \in Bad : \A U \in Bad : <<U, T>> \notin StrictSubsetOrdering(S)
  BY <1>1, <1>2, WFMin
<1>4. \A U \in SUBSET T : U # T => U \in Good
  BY <1>3 DEF Bad, StrictSubsetOrdering
<1> QED BY <1>3, <1>4 DEF Bad

\* A finite set is good if the empty set is and one more element leaves it so.
LEMMA SubsetInduction ==
  ASSUME NEW S, IsFiniteSet(S), NEW Good, {} \in Good,
         \A T \in SUBSET S : \A x \in T : T \ {x} \in Good => T \in Good
  PROVE  S \in Good
<1>1. ASSUME NEW T \in SUBSET S, \A U \in SUBSET T : U # T => U \in Good
      PROVE  T \in Good
  <2>1. CASE T = {}
    BY <2>1
  <2>2. CASE T # {}
    <3>1. PICK x : x \in T
      BY <2>2
    <3>2. T \ {x} \in SUBSET T /\ T \ {x} # T
      BY <3>1
    <3> QED BY <1>1, <3>1, <3>2
  <2> QED BY <2>1, <2>2
<1> QED BY <1>1, StrongSubsetInduction

\* The same for the natural numbers.
LEMMA NatSetInduction ==
  ASSUME NEW Good, 0 \in Good, \A n \in Nat : n \in Good => n + 1 \in Good
  PROVE  \A n \in Nat : n \in Good
<1> SUFFICES ASSUME NEW b \in Nat, b \notin Good PROVE FALSE
  OBVIOUS
<1> DEFINE Bad == {n \in Nat : n \notin Good}
<1>1. Bad \subseteq Nat /\ Bad # {}
  OBVIOUS
<1> HIDE DEF Bad
<1>2. PICK m \in Bad : \A n \in Bad : ~(n < m)
  <2> DEFINE R == {ss \in Nat \X Nat : ss[1] < ss[2]}
  <2>1. IsWellFoundedOn(R, Nat)
    BY NatLessThanWellFounded DEF OpToRel
  <2> HIDE DEF R
  <2>2. PICK m \in Bad : \A n \in Bad : <<n, m>> \notin R
    BY <1>1, <2>1, WFMin
  <2> QED BY <1>1, <2>2 DEF R
<1>3. m \in Nat /\ m # 0 /\ m - 1 \in Nat
  BY <1>2 DEF Bad
<1>4. m - 1 \notin Bad
  BY <1>2, <1>3
<1>5. m - 1 + 1 = m
  BY <1>3
<1>6. m - 1 \in Good
  BY <1>3, <1>4 DEF Bad
<1> QED BY <1>2, <1>3, <1>5, <1>6 DEF Bad

\* A nonempty set of naturals has a least member, and Min chooses it.
LEMMA MinIsLeast ==
  ASSUME NEW S \in SUBSET Nat, S # {}
  PROVE  Min(S) \in S /\ \A y \in S : Min(S) <= y
<1>1. \E x \in S : \A y \in S : x <= y
  <2> SUFFICES ASSUME \A x \in S : \E y \in S : ~(x <= y) PROVE FALSE
    OBVIOUS
  <2> DEFINE Good == {n \in Nat : \A m \in 0 .. n : m \notin S}
  <2>1. 0 \in Good
    OBVIOUS
  <2>2. ASSUME NEW n \in Nat, n \in Good PROVE n + 1 \in Good
    <3>1. n + 1 \notin S
      <4> SUFFICES ASSUME n + 1 \in S PROVE FALSE
        OBVIOUS
      <4>1. PICK y \in S : ~(n + 1 <= y)
        OBVIOUS
      <4>2. y \in 0 .. n
        BY <4>1
      <4> QED BY <2>2, <4>2
    <3>2. \A m \in 0 .. n + 1 : m \in 0 .. n \/ m = n + 1
      OBVIOUS
    <3> QED BY <2>2, <3>1, <3>2
  <2> HIDE DEF Good
  <2>3. \A n \in Nat : n \in Good
    BY <2>1, <2>2, NatSetInduction
  <2>4. \A n \in Nat : n \notin S
    BY <2>3 DEF Good
  <2> QED BY <2>4
<1> QED BY <1>1 DEF Min

-----------------------------------------------------------------------------
(* What the fold computes.                                                  *)

Picked(s) == CHOOSE x \in s : TRUE

\* The recursive function of the fold, defined on the sets of D.
Partial(f, D, g) ==
  g = [s \in D |-> IF s = {} THEN 0 ELSE f[Picked(s)] + g[s \ {Picked(s)}]]

Small(S, n) == {s \in SUBSET S : Cardinality(s) <= n}

\* The community modules define a sum by such a recursion.
LEMMA SumUnfolds ==
  ASSUME NEW f, NEW S
  PROVE  SumFunctionOnSet(f, S) = (CHOOSE g : Partial(f, SUBSET S, g))[S]
BY DEF SumFunctionOnSet, FoldFunctionOnSet, MapThenFoldSet, Partial, Picked

\* The member taken from a nonempty set is one of its members.
LEMMA PickedIn == ASSUME NEW s, s # {} PROVE Picked(s) \in s
BY DEF Picked

\* The recursion is well defined: it descends to smaller sets.
LEMMA PartialExists ==
  ASSUME NEW f, NEW S, IsFiniteSet(S)
  PROVE  \E g : Partial(f, SUBSET S, g)
<1> DEFINE Good == {n \in Nat : \E g : Partial(f, Small(S, n), g)}
<1>1. 0 \in Good
  <2>1. \A s \in Small(S, 0) : s = {}
    BY FS_Subset, FS_CardinalityType, FS_EmptySet DEF Small
  <2>2. Partial(f, Small(S, 0), [s \in Small(S, 0) |-> 0])
    BY <2>1 DEF Partial
  <2> QED BY <2>2
<1>2. ASSUME NEW n \in Nat, n \in Good PROVE n + 1 \in Good
  <2>1. PICK g : Partial(f, Small(S, n), g)
    BY <1>2
  <2> DEFINE h == [s \in Small(S, n + 1) |-> IF s = {} THEN 0 ELSE f[Picked(s)] + g[s \ {Picked(s)}]]
  <2>2. \A s \in Small(S, n) : s \in Small(S, n + 1)
    BY FS_Subset, FS_CardinalityType DEF Small
  <2>3. \A s \in Small(S, n) : h[s] = g[s]
    BY <2>1, <2>2 DEF Partial
  <2>4. \A s \in Small(S, n + 1) : s # {} => s \ {Picked(s)} \in Small(S, n)
    <3> SUFFICES ASSUME NEW s \in Small(S, n + 1), s # {} PROVE s \ {Picked(s)} \in Small(S, n)
      OBVIOUS
    <3>1. s \in SUBSET S /\ IsFiniteSet(s) /\ Picked(s) \in s /\ Cardinality(s) <= n + 1
      BY FS_Subset, PickedIn DEF Small
    <3>2. Cardinality(s \ {Picked(s)}) = Cardinality(s) - 1 /\ Cardinality(s) \in Nat
      BY <3>1, FS_RemoveElement, FS_CardinalityType
    <3> QED BY <3>1, <3>2 DEF Small
  <2>5. h = [s \in Small(S, n + 1) |-> IF s = {} THEN 0 ELSE f[Picked(s)] + h[s \ {Picked(s)}]]
    <3>1. \A s \in Small(S, n + 1) : s # {} => h[s \ {Picked(s)}] = g[s \ {Picked(s)}]
      BY <2>3, <2>4
    <3> QED BY <3>1
  <2>6. Partial(f, Small(S, n + 1), h)
    BY <2>5 DEF Partial
  <2> QED BY <2>6
<1> HIDE DEF Good
<1>3. \A n \in Nat : n \in Good
  BY <1>1, <1>2, NatSetInduction
<1>4. Small(S, Cardinality(S)) = SUBSET S
  BY FS_Subset DEF Small
<1>5. Cardinality(S) \in Nat
  BY FS_CardinalityType
<1> QED BY <1>3, <1>4, <1>5 DEF Good

\* Two functions that satisfy the recursion agree.
LEMMA PartialUnique ==
  ASSUME NEW f, NEW S, IsFiniteSet(S), NEW g, NEW h,
         Partial(f, SUBSET S, g), Partial(f, SUBSET S, h)
  PROVE  g[S] = h[S]
<1> DEFINE Good == {T \in SUBSET S : g[T] = h[T]}
<1>1. ASSUME NEW T \in SUBSET S, \A U \in SUBSET T : U # T => U \in Good
      PROVE  T \in Good
  <2>1. CASE T = {}
    BY <2>1 DEF Partial
  <2>2. CASE T # {}
    <3>1. Picked(T) \in T /\ T \ {Picked(T)} \in SUBSET T /\ T \ {Picked(T)} # T
      BY <2>2, PickedIn
    <3>2. g[T \ {Picked(T)}] = h[T \ {Picked(T)}]
      BY <1>1, <3>1
    <3>3. g[T] = f[Picked(T)] + g[T \ {Picked(T)}] /\ h[T] = f[Picked(T)] + h[T \ {Picked(T)}]
      BY <2>2 DEF Partial
    <3> QED BY <3>2, <3>3
  <2> QED BY <2>1, <2>2
<1> HIDE DEF Good
<1>2. \A T \in SUBSET S : T \in Good
  BY <1>1, StrongSubsetInduction
<1> QED BY <1>2 DEF Good

\* The sum over a set is the value there of the function of any larger set.
LEMMA PartialIsSum ==
  ASSUME NEW f, NEW S, IsFiniteSet(S), NEW g, Partial(f, SUBSET S, g), NEW T \in SUBSET S
  PROVE  g[T] = SumFunctionOnSet(f, T)
<1> DEFINE h == [s \in SUBSET T |-> g[s]]
<1>1. IsFiniteSet(T)
  BY FS_Subset
<1>2. Partial(f, SUBSET T, h)
  <2>1. \A s \in SUBSET T : s \ {Picked(s)} \in SUBSET T /\ s \in SUBSET S
    OBVIOUS
  <2>2. \A s \in SUBSET T : h[s] = IF s = {} THEN 0 ELSE f[Picked(s)] + h[s \ {Picked(s)}]
    BY <2>1 DEF Partial
  <2> QED BY <2>2 DEF Partial
<1>3. Partial(f, SUBSET T, CHOOSE k : Partial(f, SUBSET T, k))
  BY <1>2
<1>4. h[T] = (CHOOSE k : Partial(f, SUBSET T, k))[T]
  BY <1>1, <1>2, <1>3, PartialUnique
<1> QED BY <1>4, SumUnfolds

\* SumFunction sums over all of a function's domain.
LEMMA SumDomain == ASSUME NEW f, NEW S, DOMAIN f = S PROVE SumFunction(f) = SumFunctionOnSet(f, S)
BY DEF SumFunction

\* Nothing sums to zero.
LEMMA SumEmpty == ASSUME NEW f PROVE SumFunctionOnSet(f, {}) = 0
<1>1. PICK g : Partial(f, SUBSET {}, g)
  BY PartialExists, FS_EmptySet
<1>2. g[{}] = 0
  BY <1>1 DEF Partial
<1> QED BY <1>1, <1>2, PartialIsSum, FS_EmptySet

\* A sum is the member taken first plus the sum of the rest.
LEMMA SumPicked ==
  ASSUME NEW f, NEW S, IsFiniteSet(S), S # {}
  PROVE  SumFunctionOnSet(f, S) = f[Picked(S)] + SumFunctionOnSet(f, S \ {Picked(S)})
<1>1. PICK g : Partial(f, SUBSET S, g)
  BY PartialExists
<1>2. g[S] = f[Picked(S)] + g[S \ {Picked(S)}]
  BY <1>1 DEF Partial
<1>3. g[S] = SumFunctionOnSet(f, S)
  BY <1>1, PartialIsSum
<1>4. S \ {Picked(S)} \in SUBSET S
  OBVIOUS
<1>5. g[S \ {Picked(S)}] = SumFunctionOnSet(f, S \ {Picked(S)})
  BY <1>1, <1>4, PartialIsSum
<1> QED BY <1>2, <1>3, <1>5

-----------------------------------------------------------------------------
(* Sums of integers.                                                        *)

\* A sum of integers is an integer.
LEMMA SumInt ==
  ASSUME NEW S, IsFiniteSet(S), NEW f, \A x \in S : f[x] \in Int
  PROVE  SumFunctionOnSet(f, S) \in Int
<1> DEFINE Good == {T \in SUBSET S : SumFunctionOnSet(f, T) \in Int}
<1>1. ASSUME NEW T \in SUBSET S, \A U \in SUBSET T : U # T => U \in Good
      PROVE  T \in Good
  <2>1. CASE T = {}
    BY <2>1, SumEmpty
  <2>2. CASE T # {}
    <3>1. IsFiniteSet(T) /\ Picked(T) \in T
      BY <2>2, FS_Subset, PickedIn
    <3>2. T \ {Picked(T)} \in Good
      BY <1>1, <3>1
    <3>3. SumFunctionOnSet(f, T) = f[Picked(T)] + SumFunctionOnSet(f, T \ {Picked(T)})
      BY <2>2, <3>1, SumPicked
    <3> QED BY <3>1, <3>2, <3>3
  <2> QED BY <2>1, <2>2
<1> HIDE DEF Good
<1>2. \A T \in SUBSET S : T \in Good
  BY <1>1, StrongSubsetInduction
<1> QED BY <1>2 DEF Good

\* Any element may be taken out first: the order of the fold does not matter.
LEMMA SumRemove ==
  ASSUME NEW S, IsFiniteSet(S), NEW f, \A y \in S : f[y] \in Int, NEW x \in S
  PROVE  SumFunctionOnSet(f, S) = f[x] + SumFunctionOnSet(f, S \ {x})
<1> DEFINE Sum(T) == SumFunctionOnSet(f, T)
           Good == {T \in SUBSET S : \A y \in T : Sum(T) = f[y] + Sum(T \ {y})}
<1>0. \A T \in SUBSET S : IsFiniteSet(T) /\ Sum(T) \in Int
  <2> SUFFICES ASSUME NEW T \in SUBSET S PROVE IsFiniteSet(T) /\ Sum(T) \in Int
    OBVIOUS
  <2>1. IsFiniteSet(T)
    BY FS_Subset
  <2> QED BY <2>1, SumInt
<1>1. ASSUME NEW T \in SUBSET S, \A U \in SUBSET T : U # T => U \in Good
      PROVE  T \in Good
  <2> SUFFICES ASSUME NEW y \in T PROVE Sum(T) = f[y] + Sum(T \ {y})
    OBVIOUS
  <2> DEFINE c == Picked(T)
  <2>1. c \in T /\ IsFiniteSet(T) /\ f[c] \in Int /\ f[y] \in Int
    BY <1>0, PickedIn
  <2>2. Sum(T) = f[c] + Sum(T \ {c})
    BY <2>1, SumPicked
  <2> HIDE DEF c, Sum
  <2>3. CASE c = y
    BY <2>2, <2>3
  <2>4. CASE c # y
    <3>1. y \in T \ {c} /\ c \in T \ {y}
      BY <2>1, <2>4
    <3>2. T \ {c} \in Good /\ T \ {y} \in Good
      BY <1>1, <2>1
    <3>3. Sum(T \ {c}) = f[y] + Sum((T \ {c}) \ {y})
      BY <3>1, <3>2
    <3>4. Sum(T \ {y}) = f[c] + Sum((T \ {y}) \ {c})
      BY <3>1, <3>2
    <3>5. (T \ {c}) \ {y} = (T \ {y}) \ {c} /\ (T \ {c}) \ {y} \in SUBSET S
      OBVIOUS
    <3>6. Sum((T \ {c}) \ {y}) \in Int
      BY <1>0, <3>5
    <3>7. Sum((T \ {y}) \ {c}) = Sum((T \ {c}) \ {y})
      BY <3>5
    <3> QED BY ONLY <2>1, <2>2, <3>3, <3>4, <3>6, <3>7
  <2> QED BY <2>3, <2>4
<1> HIDE DEF Good
<1>2. \A T \in SUBSET S : T \in Good
  BY <1>1, StrongSubsetInduction
<1> QED BY <1>2 DEF Good

\* A larger summand makes a larger sum.
LEMMA SumMonotone ==
  ASSUME NEW S, IsFiniteSet(S), NEW f, NEW g,
         \A x \in S : f[x] \in Int /\ g[x] \in Int /\ f[x] <= g[x]
  PROVE  SumFunctionOnSet(f, S) <= SumFunctionOnSet(g, S)
<1> DEFINE Good == {T \in SUBSET S : SumFunctionOnSet(f, T) <= SumFunctionOnSet(g, T)}
<1>1. {} \in Good
  BY SumEmpty
<1>2. ASSUME NEW T \in SUBSET S, NEW x \in T, T \ {x} \in Good PROVE T \in Good
  <2>1. IsFiniteSet(T) /\ IsFiniteSet(T \ {x})
    BY FS_Subset
  <2>2. SumFunctionOnSet(f, T) = f[x] + SumFunctionOnSet(f, T \ {x})
    BY <2>1, SumRemove
  <2>3. SumFunctionOnSet(g, T) = g[x] + SumFunctionOnSet(g, T \ {x})
    BY <2>1, SumRemove
  <2>4. SumFunctionOnSet(f, T \ {x}) \in Int /\ SumFunctionOnSet(g, T \ {x}) \in Int
    BY <2>1, SumInt
  <2> QED BY <1>2, <2>2, <2>3, <2>4
<1> HIDE DEF Good
<1>3. S \in Good
  BY <1>1, <1>2, SubsetInduction
<1> QED BY <1>3 DEF Good

\* Only the values on the set matter.
LEMMA SumEqual ==
  ASSUME NEW S, IsFiniteSet(S), NEW f, NEW g,
         \A x \in S : f[x] \in Int /\ f[x] = g[x]
  PROVE  SumFunctionOnSet(f, S) = SumFunctionOnSet(g, S)
<1>1. SumFunctionOnSet(f, S) \in Int /\ SumFunctionOnSet(g, S) \in Int
  BY SumInt
<1>2. \A x \in S : f[x] <= g[x] /\ g[x] <= f[x] /\ g[x] \in Int
  OBVIOUS
<1>3. SumFunctionOnSet(f, S) <= SumFunctionOnSet(g, S)
  BY <1>2, SumMonotone
<1>4. SumFunctionOnSet(g, S) <= SumFunctionOnSet(f, S)
  BY <1>2, SumMonotone
<1> QED BY <1>1, <1>3, <1>4

\* A sum of zeros is zero.
LEMMA SumZero ==
  ASSUME NEW S, IsFiniteSet(S), NEW f, \A x \in S : f[x] = 0
  PROVE  SumFunctionOnSet(f, S) = 0
<1> DEFINE Good == {T \in SUBSET S : SumFunctionOnSet(f, T) = 0}
<1>1. {} \in Good
  BY SumEmpty
<1>2. ASSUME NEW T \in SUBSET S, NEW x \in T, T \ {x} \in Good PROVE T \in Good
  <2>1. IsFiniteSet(T)
    BY FS_Subset
  <2>2. SumFunctionOnSet(f, T) = f[x] + SumFunctionOnSet(f, T \ {x})
    BY <2>1, SumRemove
  <2> QED BY <1>2, <2>2
<1> HIDE DEF Good
<1>3. S \in Good
  BY <1>1, <1>2, SubsetInduction
<1> QED BY <1>3 DEF Good

\* A sum of naturals is a natural.
LEMMA SumNat ==
  ASSUME NEW S, IsFiniteSet(S), NEW f, \A x \in S : f[x] \in Nat
  PROVE  SumFunctionOnSet(f, S) \in Nat
<1> DEFINE zero == [x \in S |-> 0]
<1>1. SumFunctionOnSet(zero, S) = 0
  BY SumZero
<1>2. \A x \in S : zero[x] \in Int /\ f[x] \in Int /\ zero[x] <= f[x]
  OBVIOUS
<1> HIDE DEF zero
<1>3. SumFunctionOnSet(zero, S) <= SumFunctionOnSet(f, S)
  BY <1>2, SumMonotone
<1>4. SumFunctionOnSet(f, S) \in Int
  BY SumInt
<1> QED BY <1>1, <1>3, <1>4

\* A set may be summed in two parts.
LEMMA SumUnion ==
  ASSUME NEW S, IsFiniteSet(S), NEW f, \A x \in S : f[x] \in Int,
         NEW A \in SUBSET S
  PROVE  SumFunctionOnSet(f, S) = SumFunctionOnSet(f, A) + SumFunctionOnSet(f, S \ A)
<1> DEFINE Sum(T) == SumFunctionOnSet(f, T)
           B == S \ A
           Good == {T \in SUBSET A : Sum(T \cup B) = Sum(T) + Sum(B)}
<1>0. \A T \in SUBSET S : IsFiniteSet(T) /\ Sum(T) \in Int
  <2> SUFFICES ASSUME NEW T \in SUBSET S PROVE IsFiniteSet(T) /\ Sum(T) \in Int
    OBVIOUS
  <2>1. IsFiniteSet(T)
    BY FS_Subset
  <2> QED BY <2>1, SumInt
<1>1. {} \in Good
  <2>1. Sum(B) \in Int /\ {} \cup B = B
    BY <1>0
  <2>2. Sum({}) = 0
    BY SumEmpty
  <2> HIDE DEF Sum, B
  <2> QED BY <2>1, <2>2
<1>2. ASSUME NEW T \in SUBSET A, NEW x \in T, T \ {x} \in Good PROVE T \in Good
  <2>1. T \cup B \in SUBSET S /\ T \in SUBSET S /\ x \in T \cup B /\ x \in S
        /\ (T \cup B) \ {x} = (T \ {x}) \cup B /\ T \ {x} \in SUBSET S /\ B \in SUBSET S
    OBVIOUS
  <2>2. IsFiniteSet(T) /\ IsFiniteSet(T \cup B)
    BY <1>0, <2>1
  <2>3. Sum(T \cup B) = f[x] + Sum((T \cup B) \ {x})
    BY <2>1, <2>2, SumRemove
  <2>4. Sum(T) = f[x] + Sum(T \ {x})
    BY <2>1, <2>2, SumRemove
  <2>5. Sum(T \ {x}) \in Int /\ Sum(B) \in Int /\ f[x] \in Int
    BY <1>0, <2>1
  <2>6. Sum((T \cup B) \ {x}) = Sum(T \ {x}) + Sum(B)
    BY <1>2, <2>1
  <2>7. Sum(T \cup B) = Sum(T) + Sum(B)
    <3> HIDE DEF Sum, B
    <3> QED BY ONLY <2>3, <2>4, <2>5, <2>6
  <2> QED BY <2>7
<1>3. IsFiniteSet(A)
  BY <1>0
<1> HIDE DEF Good
<1>4. A \in Good
  BY <1>1, <1>2, <1>3, SubsetInduction
<1>5. A \cup B = S
  OBVIOUS
<1> QED BY <1>4, <1>5 DEF Good

-----------------------------------------------------------------------------
(* Sums and cardinalities.                                                  *)

\* A sum of ones counts.
LEMMA SumOfOnes ==
  ASSUME NEW S, IsFiniteSet(S), NEW f, \A x \in S : f[x] = 1
  PROVE  SumFunctionOnSet(f, S) = Cardinality(S)
<1> DEFINE Good == {T \in SUBSET S : SumFunctionOnSet(f, T) = Cardinality(T)}
<1>1. {} \in Good
  BY SumEmpty, FS_EmptySet
<1>2. ASSUME NEW T \in SUBSET S, NEW x \in T, T \ {x} \in Good PROVE T \in Good
  <2>1. IsFiniteSet(T)
    BY FS_Subset
  <2>2. SumFunctionOnSet(f, T) = f[x] + SumFunctionOnSet(f, T \ {x})
    BY <2>1, SumRemove
  <2>3. Cardinality(T \ {x}) = Cardinality(T) - 1 /\ Cardinality(T) \in Nat
    BY <2>1, FS_RemoveElement, FS_CardinalityType
  <2> QED BY <1>2, <2>2, <2>3
<1> HIDE DEF Good
<1>3. S \in Good
  BY <1>1, <1>2, SubsetInduction
<1> QED BY <1>3 DEF Good

\* What counts at least one for each element of P sums to at least their number.
LEMMA SumAtLeastCount ==
  ASSUME NEW S, IsFiniteSet(S), NEW f, \A x \in S : f[x] \in Nat,
         NEW P \in SUBSET S, \A x \in P : f[x] >= 1
  PROVE  Cardinality(P) <= SumFunctionOnSet(f, S)
<1> DEFINE one == [x \in P |-> 1]
<1>1. IsFiniteSet(P) /\ IsFiniteSet(S \ P)
  BY FS_Subset
<1>2. SumFunctionOnSet(one, P) = Cardinality(P)
  BY <1>1, SumOfOnes
<1>3. \A x \in P : one[x] \in Int /\ f[x] \in Int /\ one[x] <= f[x]
  OBVIOUS
<1> HIDE DEF one
<1>4. SumFunctionOnSet(one, P) <= SumFunctionOnSet(f, P)
  BY <1>1, <1>3, SumMonotone
<1>5. SumFunctionOnSet(f, S) = SumFunctionOnSet(f, P) + SumFunctionOnSet(f, S \ P)
  BY SumUnion
<1>6. SumFunctionOnSet(f, P) \in Nat /\ SumFunctionOnSet(f, S \ P) \in Nat
  BY <1>1, SumNat
<1>7. Cardinality(P) \in Nat
  BY <1>1, FS_CardinalityType
<1> QED BY <1>2, <1>4, <1>5, <1>6, <1>7

\* What counts at most one, and none outside of P, sums to at most its number.
LEMMA SumAtMostCount ==
  ASSUME NEW S, IsFiniteSet(S), NEW f, \A x \in S : f[x] \in Nat,
         NEW P \in SUBSET S, \A x \in P : f[x] <= 1, \A x \in S \ P : f[x] = 0
  PROVE  SumFunctionOnSet(f, S) <= Cardinality(P)
<1> DEFINE one == [x \in P |-> 1]
<1>1. IsFiniteSet(P) /\ IsFiniteSet(S \ P)
  BY FS_Subset
<1>2. SumFunctionOnSet(one, P) = Cardinality(P)
  BY <1>1, SumOfOnes
<1>3. \A x \in P : one[x] \in Int /\ f[x] \in Int /\ f[x] <= one[x]
  OBVIOUS
<1> HIDE DEF one
<1>4. SumFunctionOnSet(f, P) <= SumFunctionOnSet(one, P)
  BY <1>1, <1>3, SumMonotone
<1>5. SumFunctionOnSet(f, S) = SumFunctionOnSet(f, P) + SumFunctionOnSet(f, S \ P)
  BY SumUnion
<1>6. SumFunctionOnSet(f, S \ P) = 0
  BY <1>1, SumZero
<1>7. SumFunctionOnSet(f, P) \in Nat
  BY <1>1, SumNat
<1> QED BY <1>2, <1>4, <1>5, <1>6, <1>7

\* A sum that is no more than the number of its positive summands has no
\* summand above one.
LEMMA SumIsCount ==
  ASSUME NEW S, IsFiniteSet(S), NEW f, \A x \in S : f[x] \in Nat,
         SumFunctionOnSet(f, S) = Cardinality({x \in S : f[x] > 0})
  PROVE  \A x \in S : f[x] <= 1
<1> SUFFICES ASSUME NEW x \in S, f[x] > 1 PROVE FALSE
  OBVIOUS
<1> DEFINE P == {y \in S : f[y] > 0}
           Q == P \ {x}
<1>1. IsFiniteSet(P) /\ IsFiniteSet(S \ {x}) /\ Q \in SUBSET (S \ {x}) /\ x \in P
  BY FS_Subset
<1>2. Cardinality(Q) = Cardinality(P) - 1 /\ Cardinality(P) \in Nat
  BY <1>1, FS_RemoveElement, FS_CardinalityType
<1>3. \A y \in Q : f[y] >= 1
  OBVIOUS
<1>4. Cardinality(P) = SumFunctionOnSet(f, S)
  OBVIOUS
<1> HIDE DEF P, Q
<1>5. Cardinality(Q) <= SumFunctionOnSet(f, S \ {x})
  BY <1>1, <1>3, SumAtLeastCount
<1>6. SumFunctionOnSet(f, S) = f[x] + SumFunctionOnSet(f, S \ {x})
  BY SumRemove
<1>7. SumFunctionOnSet(f, S \ {x}) \in Nat
  BY <1>1, SumNat
<1> QED BY <1>2, <1>4, <1>5, <1>6, <1>7

\* The sum of sums is the sum of both.
LEMMA SumAdd ==
  ASSUME NEW S, IsFiniteSet(S), NEW f, NEW g, NEW h,
         \A x \in S : f[x] \in Int /\ g[x] \in Int /\ h[x] = f[x] + g[x]
  PROVE  SumFunctionOnSet(h, S) = SumFunctionOnSet(f, S) + SumFunctionOnSet(g, S)
<1> DEFINE Good == {T \in SUBSET S :
                      SumFunctionOnSet(h, T) = SumFunctionOnSet(f, T) + SumFunctionOnSet(g, T)}
<1>1. {} \in Good
  BY SumEmpty
<1>2. ASSUME NEW T \in SUBSET S, NEW x \in T, T \ {x} \in Good PROVE T \in Good
  <2>1. IsFiniteSet(T) /\ IsFiniteSet(T \ {x})
    BY FS_Subset
  <2>2. \A y \in T : f[y] \in Int /\ g[y] \in Int /\ h[y] \in Int
    OBVIOUS
  <2>3. SumFunctionOnSet(f, T) = f[x] + SumFunctionOnSet(f, T \ {x})
    BY <2>1, <2>2, SumRemove
  <2>4. SumFunctionOnSet(g, T) = g[x] + SumFunctionOnSet(g, T \ {x})
    BY <2>1, <2>2, SumRemove
  <2>5. SumFunctionOnSet(h, T) = h[x] + SumFunctionOnSet(h, T \ {x})
    BY <2>1, <2>2, SumRemove
  <2>6. SumFunctionOnSet(f, T \ {x}) \in Int /\ SumFunctionOnSet(g, T \ {x}) \in Int
    BY <2>1, <2>2, SumInt
  <2>7. h[x] = f[x] + g[x] /\ f[x] \in Int /\ g[x] \in Int
    OBVIOUS
  <2>8. SumFunctionOnSet(h, T \ {x}) = SumFunctionOnSet(f, T \ {x}) + SumFunctionOnSet(g, T \ {x})
    BY <1>2
  <2>9. SumFunctionOnSet(h, T) = SumFunctionOnSet(f, T) + SumFunctionOnSet(g, T)
    BY ONLY <2>3, <2>4, <2>5, <2>6, <2>7, <2>8
  <2> QED BY <2>9
<1> HIDE DEF Good
<1>3. S \in Good
  BY <1>1, <1>2, SubsetInduction
<1> QED BY <1>3 DEF Good

\* Truncated shares of a number add up to no more than the number.
LEMMA SumOfShares ==
  ASSUME NEW S, IsFiniteSet(S), NEW f, NEW total \in Nat, total > 0, NEW whole \in Nat,
         \A x \in S : f[x] \in Nat, SumFunctionOnSet(f, S) <= total,
         NEW g, \A x \in S : g[x] = (f[x] * whole) \div total
  PROVE  (\A x \in S : g[x] \in Nat) /\ SumFunctionOnSet(g, S) <= whole
<1> DEFINE F(T) == SumFunctionOnSet(f, T)
           G(T) == SumFunctionOnSet(g, T)
           Good == {T \in SUBSET S : total * G(T) <= whole * F(T)}
<1>0. \A x \in S : g[x] \in Nat /\ total * g[x] <= f[x] * whole
  <2> SUFFICES ASSUME NEW x \in S PROVE g[x] \in Nat /\ total * g[x] <= f[x] * whole
    OBVIOUS
  <2>1. f[x] * whole \in Nat
    <3>1. \A a, b \in Nat : a * b \in Nat
      OBVIOUS
    <3> QED BY <3>1
  <2>2. \A a \in Nat : a \div total \in Nat /\ total * (a \div total) <= a
    OBVIOUS
  <2> QED BY <2>1, <2>2
<1>1. {} \in Good
  <2>1. F({}) = 0 /\ G({}) = 0
    BY SumEmpty
  <2>2. total * 0 <= whole * 0
    OBVIOUS
  <2> QED BY <2>1, <2>2
<1>2. ASSUME NEW T \in SUBSET S, NEW x \in T, T \ {x} \in Good PROVE T \in Good
  <2>1. IsFiniteSet(T) /\ IsFiniteSet(T \ {x})
    BY FS_Subset
  <2>2. \A y \in T : f[y] \in Int /\ g[y] \in Int
    BY <1>0
  <2>3. F(T) = f[x] + F(T \ {x}) /\ G(T) = g[x] + G(T \ {x})
    BY <2>1, <2>2, SumRemove
  <2>4. F(T \ {x}) \in Int /\ G(T \ {x}) \in Int
    BY <2>1, <2>2, SumInt
  <2>5. total * g[x] <= f[x] * whole /\ f[x] \in Int /\ g[x] \in Int
    BY <1>0
  <2>6. total * G(T \ {x}) <= whole * F(T \ {x})
    BY <1>2
  <2> HIDE DEF F, G
  <2>7. total * (g[x] + G(T \ {x})) = total * g[x] + total * G(T \ {x})
    BY ONLY <2>4, <2>5, total \in Nat
  <2>8. whole * (f[x] + F(T \ {x})) = f[x] * whole + whole * F(T \ {x})
    BY ONLY <2>4, <2>5, whole \in Nat
  <2>9. /\ total * g[x] \in Int /\ total * G(T \ {x}) \in Int
        /\ f[x] * whole \in Int /\ whole * F(T \ {x}) \in Int
    BY ONLY <2>4, <2>5, whole \in Nat, total \in Nat
  <2>10. total * G(T) <= whole * F(T)
    BY ONLY <2>3, <2>5, <2>6, <2>7, <2>8, <2>9
  <2> QED BY <2>10
<1>3. F(S) \in Int /\ G(S) \in Int /\ F(S) <= total
  BY <1>0, SumInt
<1> HIDE DEF Good
<1>4. S \in Good
  BY <1>1, <1>2, SubsetInduction
<1>5. total * G(S) <= whole * F(S)
  BY <1>4 DEF Good
<1> HIDE DEF F, G
<1>6. whole * F(S) <= whole * total
  BY ONLY <1>3, whole \in Nat, total \in Nat
<1>7. G(S) <= whole
  <2> SUFFICES ASSUME G(S) >= whole + 1 PROVE FALSE
    BY <1>3
  <2>1. total * (whole + 1) <= total * G(S)
    BY ONLY <1>3, G(S) >= whole + 1, whole \in Nat, total \in Nat
  <2>2. total * (whole + 1) = whole * total + total
    OBVIOUS
  <2>3. whole * total \in Int /\ total * G(S) \in Int /\ whole * F(S) \in Int
    BY ONLY <1>3, whole \in Nat, total \in Nat
  <2> QED BY <1>5, <1>6, <2>1, <2>2, <2>3
<1> QED BY <1>0, <1>7 DEF G

\* The members of D that h deals out to s.
Fibre(D, h, s) == {i \in D : h[i] = s}

\* What is dealt out to the members of a set is dealt out once.
LEMMA SumOfFibres ==
  ASSUME NEW S, IsFiniteSet(S), NEW D, IsFiniteSet(D), NEW h, \A i \in D : h[i] \in S,
         NEW c, \A s \in S : c[s] = Cardinality(Fibre(D, h, s))
  PROVE  SumFunctionOnSet(c, S) = Cardinality(D)
<1> DEFINE Good == {T \in SUBSET S : SumFunctionOnSet(c, T) = Cardinality({i \in D : h[i] \in T})}
<1> USE DEF Fibre
<1>0. \A s \in S : c[s] \in Int
  <2> SUFFICES ASSUME NEW s \in S PROVE Cardinality({i \in D : h[i] = s}) \in Int
    OBVIOUS
  <2> QED BY FS_Subset, FS_CardinalityType
<1>1. {} \in Good
  <2>1. {i \in D : h[i] \in {}} = {}
    OBVIOUS
  <2> QED BY <2>1, SumEmpty, FS_EmptySet
<1>2. ASSUME NEW T \in SUBSET S, NEW x \in T, T \ {x} \in Good PROVE T \in Good
  <2> DEFINE A == {i \in D : h[i] \in T \ {x}}
             B == {i \in D : h[i] = x}
             C == {i \in D : h[i] \in T}
  <2>1. IsFiniteSet(T)
    BY FS_Subset
  <2>2. SumFunctionOnSet(c, T) = c[x] + SumFunctionOnSet(c, T \ {x})
    BY <1>0, <2>1, SumRemove
  <2>3. C = A \cup B /\ A \cap B = {}
    OBVIOUS
  <2>4. IsFiniteSet(A) /\ IsFiniteSet(B)
    BY FS_Subset
  <2>5. SumFunctionOnSet(c, T \ {x}) = Cardinality(A) /\ c[x] = Cardinality(B)
    BY <1>2
  <2> HIDE DEF A, B, C
  <2>6. Cardinality(C) = Cardinality(A) + Cardinality(B)
    <3>1. Cardinality(A \cup B) = Cardinality(A) + Cardinality(B) - Cardinality(A \cap B)
      BY <2>4, FS_Union
    <3>2. Cardinality(A) \in Nat /\ Cardinality(B) \in Nat
      BY <2>4, FS_CardinalityType
    <3>3. Cardinality(A \cap B) = 0
      BY <2>3, FS_EmptySet
    <3>4. Cardinality(A \cup B) = Cardinality(A) + Cardinality(B)
      BY ONLY <3>1, <3>2, <3>3
    <3> QED BY ONLY <2>3, <3>4
  <2>7. Cardinality(A) \in Nat /\ Cardinality(B) \in Nat
    BY <2>4, FS_CardinalityType
  <2>8. SumFunctionOnSet(c, T) = Cardinality(C)
    BY <2>2, <2>5, <2>6, <2>7
  <2> QED BY <2>8 DEF C
<1> HIDE DEF Good
<1>3. S \in Good
  BY <1>1, <1>2, SubsetInduction
<1>4. {i \in D : h[i] \in S} = D
  OBVIOUS
<1> QED BY <1>3, <1>4 DEF Good

-----------------------------------------------------------------------------
(* Sums over pairs.                                                         *)

\* g is what f has, on A, at the pairs with second component b.
Column(f, A, b, g) == \A a \in A : f[<<a, b>>] \in Int /\ g[a] = f[<<a, b>>]

\* The pairs with one second component are summed as their first ones.
LEMMA SumColumn ==
  ASSUME NEW A, IsFiniteSet(A), NEW b, NEW f, NEW g, Column(f, A, b, g)
  PROVE  SumFunctionOnSet(f, A \X {b}) = SumFunctionOnSet(g, A)
<1> DEFINE Good == {T \in SUBSET A : SumFunctionOnSet(f, T \X {b}) = SumFunctionOnSet(g, T)}
<1>1. {} \in Good
  <2>1. {} \X {b} = {}
    OBVIOUS
  <2> QED BY <2>1, SumEmpty
<1>2. ASSUME NEW T \in SUBSET A, NEW x \in T, T \ {x} \in Good PROVE T \in Good
  <2>1. IsFiniteSet(T) /\ IsFiniteSet(T \X {b})
    BY FS_Subset, FS_Product, FS_Singleton
  <2>2. <<x, b>> \in T \X {b} /\ (T \X {b}) \ {<<x, b>>} = (T \ {x}) \X {b}
        /\ \A p \in T \X {b} : f[p] \in Int
    BY DEF Column
  <2>3. SumFunctionOnSet(f, T \X {b}) = f[<<x, b>>] + SumFunctionOnSet(f, (T \ {x}) \X {b})
    BY <2>1, <2>2, SumRemove
  <2>4. \A a \in T : g[a] \in Int
    BY DEF Column
  <2>5. g[x] = f[<<x, b>>]
    BY DEF Column
  <2>6. SumFunctionOnSet(g, T) = g[x] + SumFunctionOnSet(g, T \ {x})
    BY <2>1, <2>4, SumRemove
  <2> QED BY <1>2, <2>3, <2>5, <2>6
<1> HIDE DEF Good
<1>3. A \in Good
  BY <1>1, <1>2, SubsetInduction
<1> QED BY <1>3 DEF Good

\* A sum over pairs is the sum of the sums of its columns.
LEMMA SumPairs ==
  ASSUME NEW A, IsFiniteSet(A), NEW B, IsFiniteSet(B), NEW f,
         NEW row, \A b \in B : Column(f, A, b, row[b]), NEW column,
         \A b \in B : column[b] = SumFunctionOnSet(row[b], A)
  PROVE  SumFunctionOnSet(f, A \X B) = SumFunctionOnSet(column, B)
<1> DEFINE Good == {T \in SUBSET B : SumFunctionOnSet(f, A \X T) = SumFunctionOnSet(column, T)}
<1>0. \A b \in B : column[b] \in Int
  <2> SUFFICES ASSUME NEW b \in B PROVE SumFunctionOnSet(row[b], A) \in Int
    OBVIOUS
  <2>1. \A a \in A : row[b][a] \in Int
    BY DEF Column
  <2> QED BY <2>1, SumInt
<1>1. {} \in Good
  <2>1. A \X {} = {}
    OBVIOUS
  <2> QED BY <2>1, SumEmpty
<1>2. ASSUME NEW T \in SUBSET B, NEW x \in T, T \ {x} \in Good PROVE T \in Good
  <2>1. IsFiniteSet(T) /\ IsFiniteSet(A \X T)
    BY FS_Subset, FS_Product
  <2>2. A \X {x} \in SUBSET (A \X T) /\ (A \X T) \ (A \X {x}) = A \X (T \ {x})
        /\ \A p \in A \X T : f[p] \in Int
    BY DEF Column
  <2>3. SumFunctionOnSet(f, A \X T) = SumFunctionOnSet(f, A \X {x}) + SumFunctionOnSet(f, A \X (T \ {x}))
    BY <2>1, <2>2, SumUnion
  <2>4. SumFunctionOnSet(f, A \X {x}) = column[x]
    <3>1. Column(f, A, x, row[x])
      OBVIOUS
    <3>2. SumFunctionOnSet(f, A \X {x}) = SumFunctionOnSet(row[x], A)
      BY <3>1, SumColumn
    <3> QED BY <3>2
  <2>5. SumFunctionOnSet(column, T) = column[x] + SumFunctionOnSet(column, T \ {x})
    BY <1>0, <2>1, SumRemove
  <2> QED BY <1>2, <2>3, <2>4, <2>5
<1> HIDE DEF Good
<1>3. B \in Good
  BY <1>1, <1>2, SubsetInduction
<1> QED BY <1>3 DEF Good
=============================================================================
