---------------------------- MODULE ServicesProofs ----------------------------
(* What the services promise, for any number of requests, orders, pods and   *)
(* the like: one inductive invariant for each, and from it the properties of *)
(* MCServices, those about what clients receive after the others. A          *)
(* behaviour of MCServices is one of each service, as far as the variables   *)
(* of that service go (Behaviours), so each invariant is proved of the steps *)
(* of its service alone.                                                     *)
EXTENDS MCServices, Functions, FiniteSetTheorems, TLAPS

-----------------------------------------------------------------------------
(* Induction and sums.  The induction theorems of the library take the       *)
(* property as an operator, which a proof cannot instantiate; here it is a   *)
(* set, the set of the values that have it.  From them follow the facts      *)
(* about SumFunctionOnSet that proofs about totals need.                     *)

(* Every set of naturals has a least element.                                *)
LEMMA Least ==
  ASSUME NEW T \in SUBSET Nat, T # {}
  PROVE  \E m \in T : \A k \in T : m <= k
<1> DEFINE R == OpToRel(<, Nat)
<1>1. IsWellFoundedOn(R, Nat)
  BY NatLessThanWellFounded
<1>2. \A x, y \in Nat : <<y, x>> \in R <=> y < x
  BY DEF OpToRel
<1> HIDE DEF R
<1>3. PICK x \in T : \A y \in T : ~ (<<y, x>> \in R)
  BY <1>1, WFMin
<1>4. ASSUME NEW k \in T PROVE x <= k
  <2>1. k \in Nat /\ x \in Nat /\ ~ (k < x)
    BY <1>2, <1>3
  <2> QED BY <2>1
<1> QED BY <1>4

(* A set that has 0 and with each number the next one has every number.      *)
LEMMA NumberInduction ==
  ASSUME NEW F, 0 \in F, \A n \in Nat : n \in F => n + 1 \in F
  PROVE  \A n \in Nat : n \in F
<1> DEFINE T == {n \in Nat : n \notin F}
<1> SUFFICES ASSUME T # {} PROVE FALSE
  OBVIOUS
<1>1. PICK m \in T : \A k \in T : m <= k
  BY Least
<1>2. m - 1 \in Nat /\ m - 1 \notin T
  BY <1>1
<1> QED BY <1>1, <1>2

LEMMA SubsetsWellFounded ==
  ASSUME NEW S, IsFiniteSet(S)
  PROVE  IsWellFoundedOn(StrictSubsetOrdering(S), SUBSET S)
<1>1. FiniteSubsetsOf(S) = SUBSET S
  BY FS_FiniteSubsetsOfFinite
<1>2. IsWellFoundedOn(StrictSubsetOrdering(S), FiniteSubsetsOf(S))
  BY FS_StrictSubsetOrderingWellFounded
<1> QED BY <1>1, <1>2

(* A collection that has the empty set and stays closed when an element is   *)
(* added has every finite set.                                               *)
LEMMA SetInduction ==
  ASSUME NEW S, IsFiniteSet(S), NEW F, {} \in F,
         \A T \in SUBSET S : \A x \in S \ T : T \in F => T \cup {x} \in F
  PROVE  \A T \in SUBSET S : T \in F
<1> DEFINE B == {T \in SUBSET S : T \notin F}
<1> SUFFICES ASSUME B # {} PROVE FALSE
  OBVIOUS
<1>1. IsWellFoundedOn(StrictSubsetOrdering(S), SUBSET S)
  BY SubsetsWellFounded
<1>2. PICK T \in B : \A U \in B : ~ (<<U, T>> \in StrictSubsetOrdering(S))
  <2>1. B \subseteq SUBSET S
    OBVIOUS
  <2> HIDE DEF B
  <2> QED BY <1>1, <2>1, WFMin
<1>3. PICK x \in T : TRUE
  OBVIOUS
<1>4. <<T \ {x}, T>> \in StrictSubsetOrdering(S)
  BY DEF StrictSubsetOrdering
<1>5. T \ {x} \in F
  BY <1>2, <1>4
<1>6. (T \ {x}) \cup {x} = T /\ x \in S \ (T \ {x})
  OBVIOUS
<1>7. T \in SUBSET S /\ T \notin F
  BY <1>2
<1>8. T \ {x} \in SUBSET S
  BY <1>7
<1>9. (T \ {x}) \cup {x} \in F
  BY <1>5, <1>6, <1>8
<1> QED BY <1>6, <1>7, <1>9

(* The same, from smaller sets to larger ones.                               *)
LEMMA SubsetInduction ==
  ASSUME NEW S, IsFiniteSet(S), NEW F,
         \A T \in SUBSET S : (\A U \in SUBSET T : U # T => U \in F) => T \in F
  PROVE  \A T \in SUBSET S : T \in F
<1> DEFINE B == {T \in SUBSET S : T \notin F}
<1> SUFFICES ASSUME B # {} PROVE FALSE
  OBVIOUS
<1>1. IsWellFoundedOn(StrictSubsetOrdering(S), SUBSET S)
  BY SubsetsWellFounded
<1>2. PICK T \in B : \A U \in B : ~ (<<U, T>> \in StrictSubsetOrdering(S))
  <2>1. B \subseteq SUBSET S
    OBVIOUS
  <2> HIDE DEF B
  <2> QED BY <1>1, <2>1, WFMin
<1>3. \A U \in SUBSET T : U # T => U \in F
  BY <1>2 DEF StrictSubsetOrdering
<1> QED BY <1>2, <1>3

-----------------------------------------------------------------------------
(* One round of the recursion behind SumFunctionOnSet.                       *)
Step(f, g, s) == IF s = {} THEN 0 ELSE f[CHOOSE x \in s : TRUE] + g[s \ {CHOOSE x \in s : TRUE}]

(* A table of the partial sums over all subsets of S.                        *)
Table(f, S) == CHOOSE g : g = [s \in SUBSET S |-> Step(f, g, s)]

LEMMA SumIsTable == \A f, S : SumFunctionOnSet(f, S) = Table(f, S)[S]
BY DEF SumFunctionOnSet, FoldFunctionOnSet, MapThenFoldSet, Table, Step

LEMMA TableExists ==
  ASSUME NEW f, NEW S, IsFiniteSet(S)
  PROVE  Table(f, S) = [s \in SUBSET S |-> Step(f, Table(f, S), s)]
<1> DEFINE Up(n) == {s \in SUBSET S : Cardinality(s) <= n}
           F == {n \in Nat : \E g : g = [s \in Up(n) |-> Step(f, g, s)]}
<1>0. \A s \in SUBSET S : IsFiniteSet(s) /\ Cardinality(s) \in Nat /\ Cardinality(s) <= Cardinality(S)
      /\ \A x \in s : Cardinality(s \ {x}) = Cardinality(s) - 1
      /\ (Cardinality(s) = 0 <=> s = {})
  BY FS_Subset, FS_CardinalityType, FS_RemoveElement, FS_EmptySet
<1>1. 0 \in F
  <2> DEFINE g == [s \in Up(0) |-> 0]
  <2>1. Up(0) = {{}}
    <3>1. ASSUME NEW s \in SUBSET S, Cardinality(s) <= 0 PROVE s = {}
      <4>1. Cardinality(s) = 0
        BY <1>0, <3>1
      <4> QED BY <1>0, <4>1
    <3>2. Cardinality({}) = 0
      BY FS_EmptySet
    <3> QED BY <3>1, <3>2
  <2>2. g = [s \in Up(0) |-> Step(f, g, s)]
    BY <2>1 DEF Step
  <2> HIDE DEF g
  <2> QED BY <2>2
<1>2. ASSUME NEW n \in Nat, n \in F PROVE n + 1 \in F
  <2>1. PICK g : g = [s \in Up(n) |-> Step(f, g, s)]
    BY <1>2
  <2> DEFINE h == [s \in Up(n + 1) |-> IF s \in Up(n) THEN g[s] ELSE Step(f, g, s)]
  <2>2. ASSUME NEW s \in Up(n + 1) PROVE h[s] = Step(f, h, s)
    <3>1. CASE s = {}
      <4>1. s \in Up(n)
        <5>1. Cardinality(s) = 0
          BY <3>1, FS_EmptySet
        <5> QED BY <5>1
      <4>2. g[s] = Step(f, g, s)
        BY <2>1, <4>1
      <4> QED BY <4>1, <4>2, <3>1 DEF Step
    <3>2. CASE s # {}
      <4> DEFINE x == CHOOSE y \in s : TRUE
      <4>1. x \in s
        BY <3>2
      <4>2. s \ {x} \in Up(n)
        <5>1. Cardinality(s) <= n + 1 /\ Cardinality(s) \in Nat /\ s \in SUBSET S
          BY <1>0
        <5>2. Cardinality(s \ {x}) = Cardinality(s) - 1
          BY <1>0, <4>1, <5>1
        <5>3. Cardinality(s \ {x}) <= n /\ s \ {x} \in SUBSET S
          BY <5>1, <5>2
        <5> QED BY <5>3
      <4>3. h[s \ {x}] = g[s \ {x}]
        BY <4>2, <1>0
      <4>4. Step(f, h, s) = Step(f, g, s)
        BY <4>3, <3>2 DEF Step
      <4>5. s \in Up(n) => g[s] = Step(f, g, s)
        BY <2>1
      <4> QED BY <4>4, <4>5
    <3> QED BY <3>1, <3>2
  <2>3. h = [s \in Up(n + 1) |-> Step(f, h, s)]
    BY <2>2
  <2> HIDE DEF h
  <2> QED BY <2>3
<1>3. \A n \in Nat : n \in F
  <2> HIDE DEF F
  <2> QED BY <1>1, <1>2, NumberInduction
<1>4. Up(Cardinality(S)) = SUBSET S /\ Cardinality(S) \in Nat
  BY <1>0
<1>5. \E g : g = [s \in SUBSET S |-> Step(f, g, s)]
  BY <1>3, <1>4
<1> QED BY <1>5 DEF Table

LEMMA TableStep ==
  ASSUME NEW f, NEW S, IsFiniteSet(S), NEW T \in SUBSET S
  PROVE  Table(f, S)[T] = Step(f, Table(f, S), T)
<1>1. Table(f, S) = [s \in SUBSET S |-> Step(f, Table(f, S), s)]
  BY TableExists
<1> DEFINE g == Table(f, S)
<1> HIDE DEF g
<1>2. g = [s \in SUBSET S |-> Step(f, g, s)]
  BY <1>1 DEF g
<1>3. g[T] = Step(f, g, T)
  BY <1>2
<1> QED BY <1>3 DEF g

(* The table of a set has the sums of its subsets.                           *)
LEMMA TableOfSubset ==
  ASSUME NEW f, NEW S, IsFiniteSet(S), NEW T \in SUBSET S
  PROVE  Table(f, S)[T] = SumFunctionOnSet(f, T)
<1> DEFINE F == {U \in SUBSET T : Table(f, S)[U] = Table(f, T)[U]}
<1>1. IsFiniteSet(T)
  BY FS_Subset
<1>2. ASSUME NEW U \in SUBSET T, \A V \in SUBSET U : V # U => V \in F PROVE U \in F
  <2>1. Table(f, S)[U] = Step(f, Table(f, S), U) /\ Table(f, T)[U] = Step(f, Table(f, T), U)
    BY <1>1, TableStep
  <2>2. CASE U = {}
    BY <2>1, <2>2 DEF Step
  <2>3. CASE U # {}
    <3> DEFINE x == CHOOSE y \in U : TRUE
    <3>1. x \in U
      BY <2>3
    <3>2. U \ {x} \in F
      BY <1>2, <3>1
    <3> QED BY <2>1, <2>3, <3>2 DEF Step
  <2> QED BY <2>2, <2>3
<1>3. T \in F
  <2> HIDE DEF F
  <2> QED BY <1>1, <1>2, SubsetInduction
<1> QED BY <1>3, SumIsTable

LEMMA SumEmpty == \A f : SumFunctionOnSet(f, {}) = 0
<1>1. ASSUME NEW f PROVE Table(f, {})[{}] = 0
  <2>1. Table(f, {})[{}] = Step(f, Table(f, {}), {})
    BY TableStep, FS_EmptySet
  <2> QED BY <2>1 DEF Step
<1> QED BY <1>1, SumIsTable

(* Some element comes out of the sum as the recursion takes it.              *)
LEMMA SumChosen ==
  ASSUME NEW f, NEW S, IsFiniteSet(S), S # {}
  PROVE  \E x \in S : SumFunctionOnSet(f, S) = f[x] + SumFunctionOnSet(f, S \ {x})
<1> DEFINE x == CHOOSE y \in S : TRUE
<1>1. x \in S
  OBVIOUS
<1>2. Table(f, S)[S] = f[x] + Table(f, S)[S \ {x}]
  <2>1. Table(f, S)[S] = Step(f, Table(f, S), S)
    BY TableStep
  <2> QED BY <2>1 DEF Step
<1>3. Table(f, S)[S \ {x}] = SumFunctionOnSet(f, S \ {x})
  BY TableOfSubset
<1> QED BY <1>1, <1>2, <1>3, SumIsTable

(* A sum of integers is an integer, and every element comes out of it.       *)
LEMMA SumInt ==
  ASSUME NEW S, IsFiniteSet(S), NEW f, \A x \in S : f[x] \in Int
  PROVE  SumFunctionOnSet(f, S) \in Int
<1> DEFINE F == {T \in SUBSET S : SumFunctionOnSet(f, T) \in Int}
<1>1. ASSUME NEW T \in SUBSET S, \A U \in SUBSET T : U # T => U \in F PROVE T \in F
  <2>1. IsFiniteSet(T)
    BY FS_Subset
  <2>2. CASE T = {}
    BY <2>2, SumEmpty
  <2>3. CASE T # {}
    <3>1. PICK x \in T : SumFunctionOnSet(f, T) = f[x] + SumFunctionOnSet(f, T \ {x})
      BY <2>1, <2>3, SumChosen
    <3>2. T \ {x} \in F
      BY <1>1
    <3> QED BY <3>1, <3>2
  <2> QED BY <2>2, <2>3
<1>2. S \in F
  <2> HIDE DEF F
  <2> QED BY <1>1, SubsetInduction
<1> QED BY <1>2

LEMMA SumRemove ==
  ASSUME NEW S, IsFiniteSet(S), NEW f, \A x \in S : f[x] \in Int, NEW x \in S
  PROVE  SumFunctionOnSet(f, S) = f[x] + SumFunctionOnSet(f, S \ {x})
<1> DEFINE Out(T) == \A y \in T : SumFunctionOnSet(f, T) = f[y] + SumFunctionOnSet(f, T \ {y})
           F == {T \in SUBSET S : Out(T)}
<1>1. ASSUME NEW T \in SUBSET S, \A U \in SUBSET T : U # T => U \in F PROVE T \in F
  <2> SUFFICES ASSUME NEW y \in T PROVE SumFunctionOnSet(f, T) = f[y] + SumFunctionOnSet(f, T \ {y})
    OBVIOUS
  <2>1. IsFiniteSet(T)
    BY FS_Subset
  <2>2. PICK z \in T : SumFunctionOnSet(f, T) = f[z] + SumFunctionOnSet(f, T \ {z})
    BY <2>1, SumChosen
  <2>3. CASE z = y
    BY <2>2, <2>3
  <2>4. CASE z # y
    <3>1. y \in T \ {z} /\ z \in T \ {y} /\ (T \ {z}) \ {y} = (T \ {y}) \ {z}
      BY <2>4
    <3>2. T \ {z} \in F /\ T \ {y} \in F
      BY <1>1
    <3>3. SumFunctionOnSet(f, T \ {z}) = f[y] + SumFunctionOnSet(f, (T \ {z}) \ {y})
      BY <3>1, <3>2
    <3>4. SumFunctionOnSet(f, T \ {y}) = f[z] + SumFunctionOnSet(f, (T \ {z}) \ {y})
      BY <3>1, <3>2
    <3>5. SumFunctionOnSet(f, (T \ {z}) \ {y}) \in Int
      <4>1. IsFiniteSet((T \ {z}) \ {y})
        BY <2>1, FS_Subset
      <4> QED BY <4>1, SumInt
    <3>6. f[y] \in Int /\ f[z] \in Int
      OBVIOUS
    <3> HIDE DEF F, Out
    <3> QED BY <2>2, <3>3, <3>4, <3>5, <3>6
  <2> QED BY <2>3, <2>4
<1>2. S \in F
  <2> HIDE DEF F
  <2> QED BY <1>1, SubsetInduction
<1> QED BY <1>2

LEMMA SumAdd ==
  ASSUME NEW S, IsFiniteSet(S), NEW f, \A x \in S : f[x] \in Int, NEW x, x \notin S, f[x] \in Int
  PROVE  SumFunctionOnSet(f, S \cup {x}) = f[x] + SumFunctionOnSet(f, S)
<1>1. IsFiniteSet(S \cup {x}) /\ (S \cup {x}) \ {x} = S /\ \A y \in S \cup {x} : f[y] \in Int
  BY FS_AddElement
<1>2. SumFunctionOnSet(f, S \cup {x}) = f[x] + SumFunctionOnSet(f, (S \cup {x}) \ {x})
  BY <1>1, SumRemove
<1> QED BY <1>1, <1>2

(* Larger summands make a sum no smaller.                                    *)
LEMMA SumMonotone ==
  ASSUME NEW S, IsFiniteSet(S), NEW f, NEW g,
         \A x \in S : f[x] \in Int /\ g[x] \in Int /\ f[x] <= g[x]
  PROVE  SumFunctionOnSet(f, S) <= SumFunctionOnSet(g, S)
<1> DEFINE F == {T \in SUBSET S : SumFunctionOnSet(f, T) <= SumFunctionOnSet(g, T)}
<1>1. {} \in F
  BY SumEmpty
<1>2. ASSUME NEW T \in SUBSET S, NEW x \in S \ T, T \in F PROVE T \cup {x} \in F
  <2>1. IsFiniteSet(T)
    BY FS_Subset
  <2>2. SumFunctionOnSet(f, T \cup {x}) = f[x] + SumFunctionOnSet(f, T)
    BY <2>1, SumAdd
  <2>3. SumFunctionOnSet(g, T \cup {x}) = g[x] + SumFunctionOnSet(g, T)
    BY <2>1, SumAdd
  <2>4. SumFunctionOnSet(f, T) \in Int /\ SumFunctionOnSet(g, T) \in Int
    BY <2>1, SumInt
  <2>5. SumFunctionOnSet(f, T) <= SumFunctionOnSet(g, T)
    BY <1>2
  <2>6. f[x] \in Int /\ g[x] \in Int /\ f[x] <= g[x]
    OBVIOUS
  <2>7. SumFunctionOnSet(f, T \cup {x}) <= SumFunctionOnSet(g, T \cup {x})
    BY <2>2, <2>3, <2>4, <2>5, <2>6
  <2> QED BY <2>7
<1>3. S \in F
  <2> HIDE DEF F
  <2> QED BY <1>1, <1>2, SetInduction
<1> QED BY <1>3

LEMMA SumSame ==
  ASSUME NEW S, IsFiniteSet(S), NEW f, NEW g, \A x \in S : f[x] \in Int /\ g[x] = f[x]
  PROVE  SumFunctionOnSet(g, S) = SumFunctionOnSet(f, S)
<1>1. SumFunctionOnSet(f, S) <= SumFunctionOnSet(g, S) /\ SumFunctionOnSet(g, S) <= SumFunctionOnSet(f, S)
  BY SumMonotone
<1>2. SumFunctionOnSet(f, S) \in Int /\ SumFunctionOnSet(g, S) \in Int
  BY SumInt
<1> QED BY <1>1, <1>2

(* The sum of two functions is the sum of their sums.                        *)
LEMMA SumPlus ==
  ASSUME NEW S, IsFiniteSet(S), NEW f, NEW g, NEW h,
         \A x \in S : f[x] \in Int /\ g[x] \in Int /\ h[x] = f[x] + g[x]
  PROVE  SumFunctionOnSet(h, S) = SumFunctionOnSet(f, S) + SumFunctionOnSet(g, S)
<1> DEFINE F == {T \in SUBSET S : SumFunctionOnSet(h, T) = SumFunctionOnSet(f, T) + SumFunctionOnSet(g, T)}
<1>1. {} \in F
  BY SumEmpty
<1>2. ASSUME NEW T \in SUBSET S, NEW x \in S \ T, T \in F PROVE T \cup {x} \in F
  <2>1. IsFiniteSet(T)
    BY FS_Subset
  <2>2. \A y \in S : f[y] \in Int /\ g[y] \in Int /\ h[y] \in Int
    OBVIOUS
  <2>3. /\ SumFunctionOnSet(f, T \cup {x}) = f[x] + SumFunctionOnSet(f, T)
        /\ SumFunctionOnSet(g, T \cup {x}) = g[x] + SumFunctionOnSet(g, T)
        /\ SumFunctionOnSet(h, T \cup {x}) = h[x] + SumFunctionOnSet(h, T)
    BY <2>1, <2>2, SumAdd
  <2>4. SumFunctionOnSet(f, T) \in Int /\ SumFunctionOnSet(g, T) \in Int
    BY <2>1, <2>2, SumInt
  <2>5. SumFunctionOnSet(h, T) = SumFunctionOnSet(f, T) + SumFunctionOnSet(g, T)
    BY <1>2
  <2>6. f[x] \in Int /\ g[x] \in Int /\ h[x] = f[x] + g[x]
    OBVIOUS
  <2>7. SumFunctionOnSet(h, T \cup {x}) = SumFunctionOnSet(f, T \cup {x}) + SumFunctionOnSet(g, T \cup {x})
    BY <2>3, <2>4, <2>5, <2>6
  <2> QED BY <2>7
<1>3. S \in F
  <2> HIDE DEF F
  <2> QED BY <1>1, <1>2, SetInduction
<1> QED BY <1>3

(* Where one summand changes, the sum changes by as much.                    *)
LEMMA SumChange ==
  ASSUME NEW S, IsFiniteSet(S), NEW f, NEW g, NEW x \in S,
         \A y \in S : f[y] \in Int /\ g[y] \in Int /\ (y # x => g[y] = f[y])
  PROVE  SumFunctionOnSet(g, S) = SumFunctionOnSet(f, S) - f[x] + g[x]
<1>1. IsFiniteSet(S \ {x})
  BY FS_RemoveElement
<1>2. SumFunctionOnSet(g, S \ {x}) = SumFunctionOnSet(f, S \ {x})
  BY <1>1, SumSame
<1>3. SumFunctionOnSet(f, S \ {x}) \in Int
  BY <1>1, SumInt
<1>4. SumFunctionOnSet(f, S) = f[x] + SumFunctionOnSet(f, S \ {x})
  BY SumRemove
<1>5. SumFunctionOnSet(g, S) = g[x] + SumFunctionOnSet(g, S \ {x})
  BY SumRemove
<1>6. f[x] \in Int /\ g[x] \in Int
  OBVIOUS
<1> QED BY <1>2, <1>3, <1>4, <1>5, <1>6

LEMMA SumZero ==
  ASSUME NEW S, IsFiniteSet(S), NEW f, \A x \in S : f[x] = 0
  PROVE  SumFunctionOnSet(f, S) = 0
<1> DEFINE F == {T \in SUBSET S : SumFunctionOnSet(f, T) = 0}
<1>1. {} \in F
  BY SumEmpty
<1>2. ASSUME NEW T \in SUBSET S, NEW x \in S \ T, T \in F PROVE T \cup {x} \in F
  <2>1. IsFiniteSet(T)
    BY FS_Subset
  <2>2. f[x] \in Int /\ \A y \in T : f[y] \in Int
    OBVIOUS
  <2>3. SumFunctionOnSet(f, T \cup {x}) = f[x] + SumFunctionOnSet(f, T)
    BY <2>1, <2>2, SumAdd
  <2> QED BY <1>2, <2>3
<1>3. S \in F
  <2> HIDE DEF F
  <2> QED BY <1>1, <1>2, SetInduction
<1> QED BY <1>3

(* A sum of naturals is one, and no summand exceeds it.                      *)
LEMMA SumNat ==
  ASSUME NEW S, IsFiniteSet(S), NEW f, \A x \in S : f[x] \in Nat
  PROVE  /\ SumFunctionOnSet(f, S) \in Nat
         /\ \A x \in S : f[x] <= SumFunctionOnSet(f, S)
<1>1. ASSUME NEW T, IsFiniteSet(T), T \subseteq S PROVE SumFunctionOnSet(f, T) \in Nat
  <2> DEFINE zero == [x \in T |-> 0]
  <2>1. \A x \in T : zero[x] = 0 /\ zero[x] \in Int /\ f[x] \in Int /\ zero[x] <= f[x]
    BY <1>1
  <2> HIDE DEF zero
  <2>2. SumFunctionOnSet(zero, T) = 0
    BY <1>1, <2>1, SumZero
  <2>3. SumFunctionOnSet(zero, T) <= SumFunctionOnSet(f, T)
    BY <1>1, <2>1, SumMonotone
  <2>4. SumFunctionOnSet(f, T) \in Int
    BY <1>1, <2>1, SumInt
  <2> QED BY <2>2, <2>3, <2>4
<1>2. ASSUME NEW x \in S PROVE f[x] <= SumFunctionOnSet(f, S)
  <2>1. SumFunctionOnSet(f, S) = f[x] + SumFunctionOnSet(f, S \ {x})
    BY SumRemove
  <2>2. SumFunctionOnSet(f, S \ {x}) \in Nat
    BY <1>1, FS_RemoveElement
  <2> QED BY <2>1, <2>2
<1> QED BY <1>1, <1>2

-----------------------------------------------------------------------------
(* Every step is a step of a service or leaves its variables as they are.    *)
LEMMA Behaviours ==
  /\ Init => WS!Init /\ DR!Init /\ ST!Init /\ OP!Init /\ SR!Init
             /\ TO!Init /\ GW!Init /\ EG!Init /\ PC!Init /\ OE!Init
  /\ [Next]_vars => /\ [WS!Next]_websockets /\ [DR!Next]_drain /\ [ST!Next]_ordering
                    /\ [OP!Next]_orderpages /\ [SR!Next]_strangler /\ [TO!Next]_bulkheads
                    /\ [GW!Next]_gateway /\ [EG!Next]_edge /\ [PC!Next]_caching
                    /\ [OE!Next]_pipeline
BY DEF Init, Next, vars

(* An instance has operators of the standard modules of its own; they are    *)
(* the same.                                                                 *)
LEMMA SameCardinality == \A S : DR!Cardinality(S) = Cardinality(S)
BY DEF DR!Cardinality, Cardinality

LEMMA SameSum == \A f, S : OE!SumFunctionOnSet(f, S) = SumFunctionOnSet(f, S)
BY DEF OE!SumFunctionOnSet, SumFunctionOnSet, OE!FoldFunctionOnSet, FoldFunctionOnSet, OE!MapThenFoldSet, MapThenFoldSet

-----------------------------------------------------------------------------
(* Example 21: the graceful shutdown.                                       *)

\* TypeOK without the bound of the counter, which follows from Counted.
DrainShape ==
  /\ shutting_down \in BOOLEAN /\ drainIn_flight \in Int
  /\ server \in {"serving", "closing", "lifespan", "pool", "stopped", "killed"}
  /\ pool \in {"open", "closing", "closed"}
  /\ drainAge \in 0..GracePeriod /\ since \in 0..GracePeriod
  /\ handler \in [Requests -> {"none", "acquire", "insert", "inserted", "cancelled", "done"}]
  /\ drainOrders \subseteq Requests
  /\ drainAnswer \in [Requests -> {"none", "201", "500", "503", "lost"}]

\* What an open or answered request has done.
DrainTold(r) ==
  /\ handler[r] = "inserted" => r \in drainOrders
  /\ handler[r] \in {"none", "acquire", "insert"} => r \notin drainOrders
  /\ drainAnswer[r] # "none" => handler[r] = "done"
  /\ drainAnswer[r] = "201" => r \in drainOrders
  /\ drainAnswer[r] = "503" => r \notin drainOrders

\* Only requests that outlived both timeouts are cancelled, and once uvicorn
\* has left no other one is open.
DrainCutOff(r) ==
  /\ handler[r] = "cancelled" \/ drainAnswer[r] = "lost" => drainAge >= DrainDelay + Graceful
  /\ server \notin {"serving", "closing"} => handler[r] \in {"none", "cancelled", "done"}

DrainCounted == drainIn_flight = Cardinality(DR!Open)

\* When the grace period is over, some request has been cut off.
DrainLate == \E r \in Requests : handler[r] = "cancelled" \/ drainAnswer[r] = "lost"

DrainPhases ==
  /\ pool # "open" => server \in {"pool", "stopped", "killed"}
  /\ server \in {"pool", "stopped"} /\ DR!Open # {} => drainAge >= since + DrainWait
  /\ drainAge >= GracePeriod => DrainLate
  /\ server = "killed" => DR!Open = {} /\ \E r \in Requests : drainAnswer[r] = "lost"

DrainInv ==
  /\ DrainShape
  /\ \A r \in Requests : DrainTold(r) /\ DrainCutOff(r)
  /\ server # "killed" => DrainCounted
  /\ drainIn_flight \in 0..Cardinality(Requests)
  /\ DrainPhases

-----------------------------------------------------------------------------
LEMMA DrainOpenFinite == IsFiniteSet(DR!Open) /\ Cardinality(DR!Open) \in 0..Cardinality(Requests)
<1>1. DR!Open \in SUBSET Requests /\ IsFiniteSet(Requests)
  BY DrainAssumption DEF DR!Open
<1>2. IsFiniteSet(DR!Open) /\ Cardinality(DR!Open) <= Cardinality(Requests)
  BY ONLY <1>1, FS_Subset
<1>3. Cardinality(DR!Open) \in Nat /\ Cardinality(Requests) \in Nat
  BY <1>1, <1>2, FS_CardinalityType
<1> QED BY <1>2, <1>3

LEMMA DrainInitially == DR!Init => DrainInv
<1> SUFFICES ASSUME DR!Init PROVE DrainInv
  OBVIOUS
<1>1. DR!Open = {}
  BY DEF DR!Init, DR!Open
<1>2. Cardinality(DR!Open) = 0 /\ Cardinality(Requests) \in Nat
  <2>1. IsFiniteSet(Requests)
    BY DrainAssumption
  <2> QED BY <1>1, <2>1, FS_EmptySet, FS_CardinalityType
<1>3. DrainShape
  <2>1. shutting_down \in BOOLEAN
    BY Zenon DEF DR!Init
  <2> QED BY <2>1, SMT, DrainAssumption DEF DR!Init, DrainShape
<1>4. \A r \in Requests : DrainTold(r) /\ DrainCutOff(r)
  BY DEF DR!Init, DrainTold, DrainCutOff
<1>5. DrainPhases
  BY <1>1, DrainAssumption DEF DR!Init, DrainPhases
<1> QED BY <1>2, <1>3, <1>4, <1>5 DEF DrainInv, DrainCounted, DR!Init

\* How the set of open requests changes, the counter changes with it.
LEMMA DrainCountKept ==
  ASSUME DrainInv, server # "killed",
         NEW r \in Requests,
         \/ DR!Open' = DR!Open /\ drainIn_flight' = drainIn_flight
         \/ r \notin DR!Open /\ DR!Open' = DR!Open \cup {r} /\ drainIn_flight' = drainIn_flight + 1
         \/ r \in DR!Open /\ DR!Open' = DR!Open \ {r} /\ drainIn_flight' = drainIn_flight - 1
  PROVE  DrainCounted'
<1>1. IsFiniteSet(DR!Open) /\ Cardinality(DR!Open) \in Nat /\ DrainCounted
  BY DrainOpenFinite DEF DrainInv
<1>2. Cardinality(DR!Open \cup {r}) = IF r \in DR!Open THEN Cardinality(DR!Open) ELSE Cardinality(DR!Open) + 1
  BY <1>1, FS_AddElement
<1>3. Cardinality(DR!Open \ {r}) = IF r \in DR!Open THEN Cardinality(DR!Open) - 1 ELSE Cardinality(DR!Open)
  BY <1>1, FS_RemoveElement
<1> QED BY <1>1, <1>2, <1>3 DEF DrainCounted

\* A step of one request keeps the invariant if it keeps what is said of this
\* request and of the counter.
LEMMA DrainOneRequest ==
  ASSUME DrainInv, DR!Alive, NEW r \in Requests, UNCHANGED DR!process,
         NEW h \in {"none", "acquire", "insert", "inserted", "cancelled", "done"},
         NEW a \in {"none", "201", "500", "503", "lost"},
         handler' = [handler EXCEPT ![r] = h],
         drainAnswer' = [drainAnswer EXCEPT ![r] = a],
         drainOrders' = drainOrders \/ drainOrders' = drainOrders \cup {r},
         DrainTold(r)', DrainCutOff(r)', DrainCounted',
         handler[r] = "cancelled" \/ drainAnswer[r] = "lost" => h = "cancelled" \/ a = "lost",
         h \in {"none", "done"} \/ r \in DR!Open \/ server \in {"serving", "closing"}
  PROVE  DrainInv'
<1> USE DEF DrainInv
<1>1. handler'[r] = h /\ drainAnswer'[r] = a
  BY DEF DrainShape
<1>2. \A q \in Requests \ {r} : handler'[q] = handler[q] /\ drainAnswer'[q] = drainAnswer[q] /\ (q \in drainOrders' <=> q \in drainOrders)
  BY DEF DrainShape
<1>3. drainIn_flight' \in 0..Cardinality(Requests)
  <2>1. Cardinality(DR!Open') \in 0..Cardinality(Requests)
    <3>1. DR!Open' \in SUBSET Requests /\ IsFiniteSet(Requests)
      BY DrainAssumption DEF DR!Open
    <3>2. IsFiniteSet(DR!Open') /\ Cardinality(DR!Open') <= Cardinality(Requests)
      BY ONLY <3>1, FS_Subset
    <3> QED BY <3>1, <3>2, FS_CardinalityType
  <2> QED BY <2>1 DEF DrainCounted
<1>4. DrainShape'
  BY <1>3 DEF DrainShape, DR!process
<1>5. \A q \in Requests : DrainTold(q)' /\ DrainCutOff(q)'
  <2> SUFFICES ASSUME NEW q \in Requests PROVE DrainTold(q)' /\ DrainCutOff(q)'
    OBVIOUS
  <2>1. CASE q = r
    BY <2>1
  <2>2. CASE q # r
    BY <1>2, <2>2 DEF DrainTold, DrainCutOff, DR!process
  <2> QED BY <2>1, <2>2
<1>6. DrainPhases'
  <2>1. server \in {"pool", "stopped"} /\ DR!Open' # {} => DR!Open # {}
    BY <1>1, <1>2 DEF DR!Open
  <2>2. DrainLate => DrainLate'
    BY <1>1, <1>2 DEF DrainLate
  <2>3. server \notin {"killed", "stopped"}
    BY DEF DR!Alive
  <2> QED BY <2>1, <2>2, <2>3 DEF DrainPhases, DR!process
<1> QED BY <1>3, <1>4, <1>5, <1>6

\* Ending an open request, whatever it is told.
LEMMA DrainFinishing ==
  ASSUME DrainInv, DR!Alive, NEW r \in DR!Open,
         NEW status \in {"201", "500", "lost"}, DR!Finish(r, status),
         status = "201" => handler[r] = "inserted",
         handler[r] = "cancelled" <=> status = "lost"
  PROVE  DrainInv'
<1> USE DEF DrainInv
<1>0. r \in Requests
  BY DEF DR!Open
<1>1. handler' = [handler EXCEPT ![r] = "done"] /\ drainAnswer' = [drainAnswer EXCEPT ![r] = status]
  BY DEF DR!Finish
<1>2. handler'[r] = "done" /\ drainAnswer'[r] = status /\ drainOrders' = drainOrders /\ UNCHANGED DR!process
  BY <1>0, <1>1 DEF DrainShape, DR!Finish
<1>3. DR!Open' = DR!Open \ {r} /\ drainIn_flight' = drainIn_flight - 1
  BY <1>0, <1>1 DEF DR!Finish, DR!Open, DrainShape
<1>4. DrainCounted'
  BY <1>0, <1>3, DrainCountKept DEF DR!Alive
<1>5. DrainTold(r)' /\ DrainCutOff(r)'
  BY <1>0, <1>2 DEF DrainTold, DrainCutOff, DR!process
<1>6. drainAnswer[r] # "lost"
  BY <1>0 DEF DrainTold, DR!Open
<1> QED
  BY <1>0, <1>1, <1>2, <1>4, <1>5, <1>6, DrainOneRequest

LEMMA DrainRequestStep ==
  ASSUME DrainInv, NEW r \in Requests,
         DR!PlaceOrder(r) \/ DR!Acquire(r) \/ DR!Insert(r) \/ DR!Answer(r) \/ DR!Raises(r) \/ DR!Cancelled(r)
  PROVE  DrainInv'
<1> USE DEF DrainInv
<1>0. DrainTold(r) /\ DrainCutOff(r)
  OBVIOUS
<1>1. CASE DR!PlaceOrder(r)
  <2> USE <1>1 DEF DR!PlaceOrder
  <2>1. DR!Alive /\ drainAnswer[r] = "none" /\ r \notin drainOrders /\ r \notin DR!Open
    BY <1>0 DEF DrainTold, DR!Alive, DR!Open
  <2>2. CASE shutting_down
    <3>1. handler' = [handler EXCEPT ![r] = "done"] /\ drainAnswer' = [drainAnswer EXCEPT ![r] = "503"]
      BY <2>2
    <3>2. DR!Open' = DR!Open /\ drainIn_flight' = drainIn_flight
      BY <2>1, <2>2 DEF DR!Open, DrainShape
    <3>3. DrainCounted'
      BY <2>1, <3>2, DrainCountKept DEF DR!Alive
    <3>4. DrainTold(r)' /\ DrainCutOff(r)'
      BY <1>0, <2>1, <3>1 DEF DrainTold, DrainCutOff, DrainShape, DR!process
    <3> QED BY <2>1, <3>1, <3>3, <3>4, DrainOneRequest
  <2>3. CASE ~shutting_down
    <3>1. handler' = [handler EXCEPT ![r] = "acquire"] /\ drainAnswer' = [drainAnswer EXCEPT ![r] = "none"]
      BY <2>1, <2>3 DEF DrainShape
    <3>2. DR!Open' = DR!Open \cup {r} /\ drainIn_flight' = drainIn_flight + 1
      BY <2>1, <2>3 DEF DR!Open, DrainShape
    <3>3. DrainCounted'
      BY <2>1, <3>2, DrainCountKept DEF DR!Alive
    <3>4. DrainTold(r)' /\ DrainCutOff(r)'
      BY <1>0, <2>1, <3>1 DEF DrainTold, DrainCutOff, DrainShape, DR!process
    <3> QED BY <2>1, <3>1, <3>3, <3>4, DrainOneRequest
  <2> QED BY <2>2, <2>3
<1>2. ASSUME NEW h \in {"insert", "inserted"}, handler' = [handler EXCEPT ![r] = h],
             r \in DR!Open, DR!Alive, server \in {"serving", "closing"}, handler[r] # "cancelled",
             drainOrders' = IF h = "inserted" THEN drainOrders \cup {r} ELSE drainOrders,
             h = "insert" => r \notin drainOrders, UNCHANGED <<drainIn_flight, drainAnswer, DR!process>>
      PROVE  DrainInv'
  <2> USE <1>2
  <2>1. drainAnswer[r] = "none" /\ drainAnswer' = [drainAnswer EXCEPT ![r] = "none"]
    BY <1>0 DEF DrainTold, DR!Open, DrainShape
  <2>2. DR!Open' = DR!Open
    BY DEF DR!Open, DrainShape
  <2>3. DrainCounted'
    BY <2>2, DrainCountKept DEF DR!Alive
  <2>4. DrainTold(r)' /\ DrainCutOff(r)'
    BY <1>0, <2>1 DEF DrainTold, DrainCutOff, DrainShape, DR!process
  <2> QED BY <2>1, <2>3, <2>4, DrainOneRequest
<1>3. CASE DR!Acquire(r) \/ DR!Insert(r)
  <2>1. handler[r] \in {"acquire", "insert"} /\ server \in {"serving", "closing"} /\ r \in DR!Open /\ r \notin drainOrders
    BY <1>0, <1>3 DEF DR!Acquire, DR!Insert, DrainCutOff, DrainTold, DR!Open, DrainShape
  <2> QED BY <1>2, <1>3, <2>1 DEF DR!Acquire, DR!Insert, DR!Alive
<1>4. CASE DR!Answer(r)
  BY <1>4, DrainFinishing DEF DR!Answer, DR!Open
<1>5. CASE DR!Raises(r)
  BY <1>5, DrainFinishing DEF DR!Raises, DR!Open
<1>6. CASE DR!Cancelled(r)
  BY <1>6, DrainFinishing DEF DR!Cancelled, DR!Open
<1> QED BY <1>1, <1>3, <1>4, <1>5, <1>6

\* The signal and the timers, as long as the process lives.
LEMMA DrainShutdownStep ==
  ASSUME DrainInv, DR!Sigterm \/ DR!StopServer \/ DR!ClosePool \/ DR!Exit \/ DR!Tick
  PROVE  DrainInv'
<1> USE DEF DrainInv
<1>1. UNCHANGED DR!requests /\ DR!Open' = DR!Open /\ drainIn_flight' = drainIn_flight
  BY DEF DR!Sigterm, DR!StopServer, DR!ClosePool, DR!Exit, DR!Tick, DR!requests, DR!Open
<1>2. drainAge <= drainAge' /\ drainAge' \in 0..GracePeriod
  <2>1. CASE DR!Tick
    BY <2>1, DrainAssumption DEF DR!Tick, DR!Due, DrainShape
  <2> QED BY <2>1, DrainAssumption DEF DR!Sigterm, DR!StopServer, DR!ClosePool, DR!Exit, DrainShape
<1>3. DrainShape'
  BY <1>1, <1>2 DEF DrainShape, DR!requests, DR!Sigterm, DR!StopServer, DR!ClosePool, DR!Exit, DR!Tick
<1>4. server \notin {"serving", "closing"} <=> server' \notin {"serving", "closing"}
  BY DEF DR!Sigterm, DR!StopServer, DR!ClosePool, DR!Exit, DR!Tick, DrainShape
<1>5. \A r \in Requests : DrainTold(r)' /\ DrainCutOff(r)'
  <2> SUFFICES ASSUME NEW r \in Requests PROVE DrainTold(r)' /\ DrainCutOff(r)'
    OBVIOUS
  <2>1. handler' = handler /\ drainAnswer' = drainAnswer /\ drainOrders' = drainOrders
    BY <1>1 DEF DR!requests
  <2>2. drainAge >= DrainDelay + Graceful => drainAge' >= DrainDelay + Graceful
    BY <1>2, DrainAssumption DEF DrainShape
  <2> QED BY <1>4, <2>1, <2>2 DEF DrainTold, DrainCutOff
<1>6. server' # "killed" => DrainCounted'
  <2>1. server' = "killed" <=> server = "killed"
    BY DEF DR!Sigterm, DR!StopServer, DR!ClosePool, DR!Exit, DR!Tick, DrainShape
  <2> QED BY <1>1, <2>1 DEF DrainCounted
<1>7. DrainPhases'
  <2> USE DEF DrainPhases
  <2>1. DrainLate' <=> DrainLate
    BY <1>1 DEF DrainLate, DR!requests
  <2>2. CASE DR!Sigterm \/ DR!StopServer
    BY <1>1, <2>1, <2>2 DEF DR!Sigterm, DR!StopServer, DR!requests
  <2>3. CASE DR!ClosePool
    <3>1. drainIn_flight = 0 => DR!Open = {}
      BY <2>3, DrainOpenFinite, FS_EmptySet DEF DR!ClosePool, DrainCounted
    <3> QED BY <1>1, <2>1, <2>3, <3>1 DEF DR!ClosePool, DR!requests
  <2>4. CASE DR!Exit
    BY <1>1, <2>1, <2>4 DEF DR!Exit, DR!requests
  <2>5. CASE DR!Tick
    <3> USE <2>5 DEF DR!Tick
    <3>1. server # "pool" /\ server # "stopped" /\ server # "killed"
      <4>1. server = "pool" => DR!Connections = {}
        BY DEF DR!Connections, DrainCutOff
      <4> QED BY <4>1 DEF DR!Due, DR!Alive
    <3>2. drainAge' >= GracePeriod => DrainLate'
      <4>1. SUFFICES ASSUME drainAge' >= GracePeriod PROVE DrainLate
        BY <2>1
      <4>2. server = "lifespan" /\ drainIn_flight # 0
        BY <3>1, <4>1, DrainAssumption DEF DR!Due, DrainShape
      <4>3. DR!Open # {}
        BY <3>1, <4>2, FS_EmptySet DEF DrainCounted
      <4> QED BY <4>2, <4>3 DEF DrainLate, DR!Open, DrainCutOff
    <3> QED BY <1>1, <3>1, <3>2
  <2> QED BY <2>2, <2>3, <2>4, <2>5
<1> QED BY <1>1, <1>3, <1>5, <1>6, <1>7

\* uvicorn leaves: whatever is open has outlived both timeouts.
LEMMA DrainLeaveStep == ASSUME DrainInv, DR!LeaveServer PROVE DrainInv'
<1> USE DEF DrainInv, DR!LeaveServer
<1>1. \A r \in Requests :
        handler'[r] = IF r \in DR!Open THEN "cancelled" ELSE handler[r]
  BY DEF DrainShape
<1>2. DR!Open' = DR!Open /\ (DR!Open # {} => drainAge >= DrainDelay + Graceful)
  BY <1>1 DEF DR!Open
<1>3. DrainShape'
  BY DEF DrainShape
<1>4. \A r \in Requests : r \in drainOrders' => r \in drainOrders \/ handler[r] = "insert"
  OBVIOUS
<1>5. \A r \in Requests : DrainTold(r)' /\ DrainCutOff(r)'
  <2> SUFFICES ASSUME NEW r \in Requests PROVE DrainTold(r)' /\ DrainCutOff(r)'
    OBVIOUS
  <2>1. CASE r \in DR!Open
    BY <1>1, <1>2, <2>1 DEF DrainTold, DrainCutOff, DR!Open
  <2>2. CASE r \notin DR!Open
    BY <1>1, <1>4, <2>2 DEF DrainTold, DrainCutOff, DR!Open, DrainShape
  <2> QED BY <2>1, <2>2
<1>6. DrainPhases'
  <2>1. DrainLate => DrainLate'
    BY <1>1 DEF DrainLate, DR!Open
  <2> QED BY <2>1 DEF DrainPhases
<1>7. DrainCounted'
  BY <1>2 DEF DrainCounted
<1> QED BY <1>3, <1>5, <1>6, <1>7

\* SIGKILL finds an open request, or one that was cut off before.
LEMMA DrainKillStep == ASSUME DrainInv, DR!Kill PROVE DrainInv'
<1> USE DEF DrainInv, DR!Kill
<1>1. \A r \in Requests :
        /\ handler'[r] = IF r \in DR!Open THEN "done" ELSE handler[r]
        /\ drainAnswer'[r] = IF r \in DR!Open THEN "lost" ELSE drainAnswer[r]
  BY DEF DrainShape
<1>2. DR!Open' = {}
  BY <1>1 DEF DR!Open
<1>3. DrainShape'
  BY DEF DrainShape
<1>4. drainAge >= DrainDelay + Graceful
  BY DrainAssumption DEF DrainShape
<1>5. \A r \in Requests : DrainTold(r)' /\ DrainCutOff(r)'
  <2> SUFFICES ASSUME NEW r \in Requests PROVE DrainTold(r)' /\ DrainCutOff(r)'
    OBVIOUS
  <2>1. CASE r \in DR!Open
    BY <1>1, <1>4, <2>1 DEF DrainTold, DrainCutOff, DR!Open
  <2>2. CASE r \notin DR!Open
    <3>1. handler'[r] \in {"none", "done"}
      BY <1>1, <2>2 DEF DR!Open, DrainShape
    <3> QED BY <1>1, <1>4, <2>2, <3>1 DEF DrainTold, DrainCutOff, DR!Open
  <2> QED BY <2>1, <2>2
<1>6. \E r \in Requests : drainAnswer'[r] = "lost"
  <2>1. PICK r \in Requests : handler[r] = "cancelled" \/ drainAnswer[r] = "lost"
    BY DEF DrainPhases, DrainLate
  <2> QED BY <1>1, <2>1 DEF DR!Open
<1>7. DrainPhases'
  BY <1>2, <1>6 DEF DrainPhases, DrainLate
<1> QED BY <1>3, <1>5, <1>7

LEMMA DrainSteps == DrainInv /\ [DR!Next]_drain => DrainInv'
<1> SUFFICES ASSUME DrainInv, [DR!Next]_drain PROVE DrainInv'
  OBVIOUS
<1>1. CASE UNCHANGED drain
  BY <1>1 DEF drain, DrainInv, DrainShape, DrainTold, DrainCutOff, DrainCounted, DrainPhases, DrainLate, DR!Open
<1>2. CASE DR!Next
  BY <1>2, DrainRequestStep, DrainShutdownStep, DrainLeaveStep, DrainKillStep DEF DR!Next
<1> QED BY <1>1, <1>2

THEOREM DrainInvariance == Spec => []DrainInv
<1>1. Init => DrainInv
  BY Behaviours, DrainInitially
<1>2. DrainInv /\ [Next]_vars => DrainInv'
  BY Behaviours, DrainSteps
<1> QED BY <1>1, <1>2, PTL DEF Spec

LEMMA DrainTypes == DrainInv => DR!TypeOK
BY SameCardinality, Zenon DEF DrainInv, DrainShape, DR!TypeOK

\* Whatever requests race the signal: answers are true, the counter that the
\* drain waits for is exact, nothing is cut off before both timeouts, and a
\* process that is killed was kept by a request.
THEOREM DrainOrderly == Spec => []OrderlyShutdown
<1>1. DrainInv => OrderlyShutdown
  <2> SUFFICES ASSUME DrainInv PROVE DR!OrderlyShutdown
    BY DEF OrderlyShutdown
  <2> USE DEF DrainInv
  <2>1. DR!AnswersAreTrue
    BY DEF DR!AnswersAreTrue, DrainTold
  <2>2. DR!NoneCutShort
    <3>1. pool # "open" /\ drainAge < DrainDelay + Graceful => DR!Open = {}
      BY DrainAssumption DEF DrainPhases, DrainCutOff, DR!Open, DrainShape
    <3> QED BY <3>1 DEF DR!NoneCutShort, DrainCutOff
  <2>3. DR!DrainWaitsForRequests
    BY SameCardinality DEF DR!DrainWaitsForRequests, DrainPhases, DrainCounted
  <2>4. DR!ExitsBeforeKill
    BY DEF DR!ExitsBeforeKill, DrainPhases
  <2> QED BY <2>1, <2>2, <2>3, <2>4 DEF DR!OrderlyShutdown
<1> QED BY <1>1, DrainInvariance, PTL

-----------------------------------------------------------------------------
(* Example 25: the cache.                                                   *)

\* TypeOK, read one conjunct at a time: no copy is newer than the row.
CacheRows == 0..version
CacheEntries ==
  /\ cache \in [PC!Keys -> CacheRows] /\ cachingAge \in [PC!Keys -> {"fresh", "expiring"}]
  /\ lapsed \in SUBSET PC!Keys
CacheRequests ==
  /\ get \in [Readers -> [at : {"idle", "select", "set"}, key : PC!Keys, row : CacheRows]]
  /\ put \in [Writers -> [at : {"idle", "delete", "select", "set"}, own : CacheRows, row : CacheRows]]
  /\ refresher \in [at : {"idle", "select", "set"}, row : CacheRows]
CacheScalars ==
  /\ version \in 1..MaxVersion /\ answered \in CacheRows /\ redisErrors \in 0..MaxRedisErrors

CacheInv == PC!TypeOK /\ PC!PutsReachTheirEntry

\* Every entry that a step changes is new, dropped or marked.
CacheRenewed ==
  \A k \in PC!Keys : \/ cache'[k] = cache[k] /\ (k \in lapsed => k \in lapsed')
                  \/ cache'[k] \in {0, version}
                  \/ k \in lapsed'

-----------------------------------------------------------------------------
LEMMA CacheShape == PC!TypeOK <=> CacheEntries /\ CacheRequests /\ CacheScalars /\ hot \in BOOLEAN
BY DEF PC!TypeOK, CacheEntries, CacheRequests, CacheScalars, CacheRows

\* Every action but the PUT's own steps leaves the puts as they were.
LEMMA CacheEntriesKept ==
  ASSUME CacheInv, PC!TypeOK', version' = version, put' = put, CacheRenewed
  PROVE  PC!PutsReachTheirEntry'
BY DEF CacheInv, PC!PutsReachTheirEntry, PC!Stale, PC!OpenPut, CacheRenewed

\* What SETEX and DEL do to the entries.
LEMMA CacheSetKeeps ==
  ASSUME PC!TypeOK, NEW k \in PC!Keys, NEW row \in CacheRows, PC!SetEntry(k, row), version' = version
  PROVE  CacheEntries' /\ CacheRenewed
BY DEF PC!SetEntry, PC!TypeOK, CacheEntries, CacheRows, CacheRenewed

LEMMA CacheDropKeeps ==
  ASSUME PC!TypeOK, NEW k \in PC!Keys, PC!DropEntry(k), version' = version
  PROVE  CacheEntries' /\ CacheRenewed
BY DEF PC!DropEntry, PC!TypeOK, CacheEntries, CacheRows, CacheRenewed

LEMMA CacheErrorKeeps == ASSUME PC!TypeOK, PC!RedisError PROVE redisErrors' \in 0..MaxRedisErrors
BY CachingAssumption DEF PC!TypeOK, PC!RedisError

LEMMA CacheInitially == PC!Init => CacheInv
<1> SUFFICES ASSUME PC!Init PROVE CacheInv
  OBVIOUS
<1>1. hot \in BOOLEAN
  BY Zenon DEF PC!Init
<1>2. CacheEntries /\ CacheRequests /\ CacheScalars
  BY CachingAssumption DEF PC!Init, CacheEntries, CacheRequests, CacheScalars, CacheRows, PC!IdleGet, PC!IdlePut, PC!IdleRefresher, PC!Keys
<1>3. PC!PutsReachTheirEntry
  BY DEF PC!Init, PC!PutsReachTheirEntry, PC!Stale
<1> QED BY <1>1, <1>2, <1>3, CacheShape DEF CacheInv

\* GET.
LEMMA CacheGetStep ==
  ASSUME CacheInv, NEW r \in Readers,
         \/ \E k \in Gets : PC!Hit(r, k) \/ PC!Miss(r, k) \/ PC!GetFails(r, k)
         \/ PC!GoOn(r) \/ PC!FillFails(r)
  PROVE  CacheInv'
<1> USE DEF CacheInv
<1>1. CacheEntries /\ CacheRequests /\ CacheScalars /\ hot \in BOOLEAN
  BY CacheShape
<1>2. version' = version /\ put' = put /\ refresher' = refresher /\ answered' = answered
  BY DEF PC!Hit, PC!Miss, PC!GetFails, PC!GoOn, PC!SelectRow, PC!FillEntry, PC!FillFails, PC!entries
<1>3. CacheEntries' /\ CacheRenewed
  <2>1. CASE PC!FillEntry(r)
    <3>1. get[r].key \in PC!Keys /\ get[r].row \in CacheRows
      BY <1>1 DEF CacheRequests
    <3> QED BY <1>2, <2>1, <3>1, CacheSetKeeps DEF PC!FillEntry
  <2>2. CASE ~PC!FillEntry(r)
    <3>1. UNCHANGED PC!entries
      BY <2>2 DEF PC!Hit, PC!Miss, PC!GetFails, PC!GoOn, PC!SelectRow, PC!FillFails
    <3> QED BY <1>1, <1>2, <3>1 DEF PC!entries, CacheEntries, CacheRows, CacheRenewed
  <2> QED BY <2>1, <2>2
<1>4. CacheRequests'
  <2>1. get' \in [Readers -> [at : {"idle", "select", "set"}, key : PC!Keys, row : CacheRows]]
    BY <1>1, CachingAssumption DEF CacheRequests, CacheScalars, CacheRows, PC!Hit, PC!Miss, PC!GetFails, PC!GoOn, PC!SelectRow, PC!FillEntry, PC!FillFails, PC!IdleGet, PC!Keys
  <2> QED BY <1>1, <1>2, <2>1 DEF CacheRequests, CacheRows
<1>5. CacheScalars'
  <2>1. redisErrors' \in 0..MaxRedisErrors
    BY <1>1, CacheErrorKeeps DEF CacheScalars, PC!Hit, PC!Miss, PC!GetFails, PC!GoOn, PC!SelectRow, PC!FillEntry, PC!FillFails
  <2> QED BY <1>1, <1>2, <2>1 DEF CacheScalars, CacheRows
<1>6. hot' \in BOOLEAN
  <2>1. hot' = hot \/ \E k \in Gets : PC!Touch(k)
    BY DEF PC!Hit, PC!Miss, PC!GetFails, PC!GoOn, PC!SelectRow, PC!FillEntry, PC!FillFails
  <2> QED BY <1>1, <2>1, Zenon DEF PC!Touch
<1>7. PC!TypeOK'
  BY <1>3, <1>4, <1>5, <1>6, CacheShape DEF CacheEntries, CacheRequests, CacheScalars, CacheRows, PC!TypeOK
<1> QED BY <1>2, <1>3, <1>7, CacheEntriesKept

\* What the four kinds of variables are after a step of a PUT that leaves the row.
LEMMA CachePutKeeps ==
  ASSUME CacheInv, NEW w \in Writers, version' = version,
         NEW p \in [at : {"idle", "delete", "select", "set"}, own : CacheRows, row : CacheRows],
         put' = [put EXCEPT ![w] = p], CacheEntries', answered' \in CacheRows,
         redisErrors' \in 0..MaxRedisErrors, UNCHANGED <<hot, get, refresher>>,
         NEW k \in {"ca", "wt"},
         put[w].at \in (IF k = "ca" THEN {"delete"} ELSE {"select", "set"}),
         p.at = "set" \/ cache'[k] \in {0, version} \/ k \in lapsed',
         k = "wt" \/ p.at # "set",
         \A j \in PC!Keys \ {k} : cache'[j] = cache[j] /\ (j \in lapsed => j \in lapsed')
  PROVE  CacheInv'
<1> USE DEF CacheInv
<1>1. CacheEntries /\ CacheRequests /\ CacheScalars /\ hot \in BOOLEAN
  BY CacheShape
<1>2. put' \in [Writers -> [at : {"idle", "delete", "select", "set"}, own : CacheRows, row : CacheRows]]
  BY <1>1 DEF CacheRequests
<1>3. CacheRequests' /\ CacheScalars' /\ hot' \in BOOLEAN
  BY <1>1, <1>2 DEF CacheRequests, CacheScalars, CacheRows
<1>4. PC!TypeOK'
  BY <1>3, CacheShape DEF CacheEntries, CacheRequests, CacheScalars, CacheRows, PC!TypeOK
<1>5. put'[w] = p /\ \A v \in Writers \ {w} : put'[v] = put[v]
  BY <1>1 DEF CacheRequests
<1>6. ASSUME NEW j \in PC!Keys, PC!Stale(j)', j \notin lapsed' PROVE j \in {"ca", "wt"} /\ PC!OpenPut(j)'
  <2> USE <1>6
  <2>1. CASE j = k
    BY <1>5, <2>1 DEF PC!Stale, PC!OpenPut
  <2>2. CASE j # k
    <3>1. PC!Stale(j) /\ j \notin lapsed
      BY <2>2 DEF PC!Stale
    <3>2. j \in {"ca", "wt"} /\ PC!OpenPut(j)
      BY <3>1 DEF PC!PutsReachTheirEntry
    <3>3. PICK v \in Writers : put[v].at \in (IF j = "ca" THEN {"delete"} ELSE {"select", "set"})
      BY <3>2 DEF PC!OpenPut
    <3>4. v # w
      BY <2>2, <3>2, <3>3
    <3> QED BY <1>5, <3>2, <3>3, <3>4 DEF PC!OpenPut
  <2> QED BY <2>1, <2>2
<1> QED BY <1>4, <1>6 DEF PC!PutsReachTheirEntry

\* The update itself marks every entry that no open PUT will reach.
LEMMA CacheUpdateStep ==
  ASSUME CacheInv, NEW w \in Writers, NEW k \in Puts, PC!UpdateRow(w, k)
  PROVE  CacheInv'
<1> USE DEF CacheInv
<1>1. CacheEntries /\ CacheRequests /\ CacheScalars /\ hot \in BOOLEAN
  BY CacheShape
<1>2. version \in Nat /\ version' = version + 1 /\ version' \in 1..MaxVersion /\ CacheRows \subseteq CacheRows' /\ version + 1 \in CacheRows' /\ 0 \in CacheRows'
  BY <1>1, CachingAssumption DEF PC!UpdateRow, CacheScalars, CacheRows
<1>3. CacheEntries'
  BY <1>1, <1>2 DEF CacheEntries, PC!UpdateRow, PC!Missed
<1>4. CacheRequests'
  BY <1>1, <1>2 DEF CacheRequests, PC!UpdateRow
<1>5. CacheScalars' /\ hot' \in BOOLEAN
  BY <1>1, <1>2 DEF CacheScalars, PC!UpdateRow
<1>6. PC!TypeOK'
  BY <1>3, <1>4, <1>5, CacheShape DEF CacheEntries, CacheRequests, CacheScalars, CacheRows, PC!TypeOK
<1>7. PC!OpenPut(k)' /\ k \in {"ca", "wt"}
  BY <1>1, CachingAssumption DEF PC!OpenPut, PC!UpdateRow, CacheRequests
<1>8. \A j \in PC!Keys \ {k} : cache'[j] # 0 => j \in lapsed'
  BY DEF PC!UpdateRow, PC!Missed
<1> QED BY <1>6, <1>7, <1>8 DEF PC!PutsReachTheirEntry, PC!Stale

\* PUT after its update.
LEMMA CachePutStep ==
  ASSUME CacheInv, NEW w \in Writers,
         PC!Finish(w) \/ PC!InvalidateFails(w) \/ PC!WriteThroughFails(w)
  PROVE  CacheInv'
<1> USE DEF CacheInv
<1>1. CacheEntries /\ CacheRequests /\ CacheScalars
  BY CacheShape
<1>2. put[w] \in [at : {"idle", "delete", "select", "set"}, own : CacheRows, row : CacheRows] /\ 0 \in CacheRows /\ version \in CacheRows
  BY <1>1 DEF CacheRequests, CacheScalars, CacheRows
<1>3. PC!IdlePut \in [at : {"idle", "delete", "select", "set"}, own : CacheRows, row : CacheRows] /\ PC!IdlePut.at = "idle"
  BY <1>2 DEF PC!IdlePut
<1>4. CASE PC!Invalidate(w)
  <2> USE <1>4 DEF PC!Invalidate
  <2>1. CacheEntries' /\ cache'["ca"] = 0 /\ \A j \in PC!Keys \ {"ca"} : cache'[j] = cache[j] /\ (j \in lapsed => j \in lapsed')
    BY <1>1, <1>2 DEF PC!DropEntry, CacheEntries, CacheRows, PC!Keys
  <2> QED BY <1>1, <1>3, <2>1, CachePutKeeps DEF CacheScalars
<1>5. CASE PC!InvalidateFails(w)
  <2> USE <1>5 DEF PC!InvalidateFails
  <2>1. CacheEntries' /\ (cache'["ca"] = 0 \/ "ca" \in lapsed') /\ \A j \in PC!Keys : cache'[j] = cache[j] /\ (j \in lapsed => j \in lapsed')
    BY <1>1 DEF CacheEntries, CacheRows, PC!Keys
  <2> QED BY <1>1, <1>3, <2>1, CacheErrorKeeps, CachePutKeeps DEF CacheScalars
<1>6. CASE PC!ReadBack(w)
  <2> USE <1>6 DEF PC!ReadBack
  <2> DEFINE p == [put[w] EXCEPT !.at = "set", !.row = version]
  <2>1. p \in [at : {"idle", "delete", "select", "set"}, own : CacheRows, row : CacheRows] /\ p.at = "set"
    BY <1>2
  <2>2. put' = [put EXCEPT ![w] = p]
    OBVIOUS
  <2>3. CacheEntries' /\ \A j \in PC!Keys : cache'[j] = cache[j] /\ lapsed' = lapsed
    BY <1>1 DEF PC!entries, CacheEntries, CacheRows
  <2> HIDE DEF p
  <2> QED BY <1>1, <2>1, <2>2, <2>3, CachePutKeeps DEF CacheScalars, PC!Keys
<1>7. ASSUME PC!WriteThrough(w) \/ PC!WriteThroughFails(w)
      PROVE  answered' \in CacheRows /\ put' = [put EXCEPT ![w] = PC!IdlePut] /\ UNCHANGED <<version, hot, get, refresher>>
  BY <1>1, <1>7, <1>2 DEF PC!WriteThrough, PC!WriteThroughFails, PC!Answer, CacheScalars
<1>8. CASE PC!WriteThrough(w)
  <2> USE <1>8 DEF PC!WriteThrough
  <2>1. CacheEntries' /\ cache'["wt"] = put[w].row /\ (put[w].row < version => "wt" \in lapsed')
                 /\ \A j \in PC!Keys \ {"wt"} : cache'[j] = cache[j] /\ (j \in lapsed => j \in lapsed')
    BY <1>1, <1>2 DEF PC!SetEntry, CacheEntries, CacheRows, PC!Keys
  <2>2. cache'["wt"] \in {0, version} \/ "wt" \in lapsed'
    BY <1>1, <1>2, <2>1 DEF CacheRows, CacheScalars
  <2> QED BY <1>1, <1>3, <1>7, <2>1, <2>2, CachePutKeeps DEF CacheScalars
<1>9. CASE PC!WriteThroughFails(w)
  <2> USE <1>9 DEF PC!WriteThroughFails
  <2>1. CacheEntries' /\ (cache'["wt"] = 0 \/ "wt" \in lapsed') /\ \A j \in PC!Keys : cache'[j] = cache[j] /\ (j \in lapsed => j \in lapsed')
    BY <1>1 DEF CacheEntries, CacheRows, PC!Keys
  <2> QED BY <1>1, <1>3, <1>7, <2>1, CacheErrorKeeps, CachePutKeeps DEF CacheScalars
<1> QED BY <1>4, <1>5, <1>6, <1>8, <1>9 DEF PC!Finish

\* The refresher and the expiry of entries.
LEMMA CacheBackgroundStep ==
  ASSUME CacheInv,
         \/ PC!Cool \/ PC!Sweep \/ PC!Refresh \/ PC!RefreshFails
         \/ \E k \in PC!Keys : PC!Lifetime(k)
  PROVE  CacheInv'
<1> USE DEF CacheInv
<1>1. CacheEntries /\ CacheRequests /\ CacheScalars /\ hot \in BOOLEAN
  BY CacheShape
<1>2. UNCHANGED <<version, get, put, answered>>
  BY DEF PC!Cool, PC!Sweep, PC!Refresh, PC!RefreshSelect, PC!RefreshSet, PC!RefreshFails, PC!Lifetime, PC!Age, PC!Expire
<1>3. CacheEntries' /\ CacheRenewed
  <2>1. CASE PC!RefreshSet
    BY <1>1, <1>2, <2>1, CacheSetKeeps DEF PC!RefreshSet, CacheRequests, PC!Keys
  <2>2. ASSUME NEW k \in PC!Keys, PC!Expire(k) PROVE CacheEntries' /\ CacheRenewed
    BY <1>2, <2>2, CacheDropKeeps DEF PC!Expire
  <2>3. ASSUME NEW k \in PC!Keys, PC!Age(k) PROVE CacheEntries' /\ CacheRenewed
    BY <1>1, <1>2, <2>3 DEF PC!Age, CacheEntries, CacheRows, CacheRenewed
  <2>4. CASE UNCHANGED PC!entries
    BY <1>1, <1>2, <2>4 DEF PC!entries, CacheEntries, CacheRows, CacheRenewed
  <2> QED BY <2>1, <2>2, <2>3, <2>4 DEF PC!Cool, PC!Sweep, PC!Refresh, PC!RefreshSelect, PC!RefreshFails, PC!Lifetime
<1>4. CacheRequests'
  <2>1. refresher' \in [at : {"idle", "select", "set"}, row : CacheRows]
    BY <1>1, <1>2 DEF CacheRequests, CacheScalars, CacheRows, PC!Cool, PC!Sweep, PC!Refresh, PC!RefreshSelect, PC!RefreshSet, PC!RefreshFails, PC!Lifetime, PC!Age, PC!Expire, PC!IdleRefresher
  <2> QED BY <1>1, <1>2, <2>1 DEF CacheRequests, CacheRows
<1>5. CacheScalars'
  <2>1. redisErrors' \in 0..MaxRedisErrors
    BY <1>1, CacheErrorKeeps DEF CacheScalars, PC!Cool, PC!Sweep, PC!Refresh, PC!RefreshSelect, PC!RefreshSet, PC!RefreshFails, PC!Lifetime, PC!Age, PC!Expire
  <2> QED BY <1>1, <1>2, <2>1 DEF CacheScalars, CacheRows
<1>6. hot' \in BOOLEAN
  BY <1>1 DEF PC!Cool, PC!Sweep, PC!Refresh, PC!RefreshSelect, PC!RefreshSet, PC!RefreshFails, PC!Lifetime, PC!Age, PC!Expire
<1>7. PC!TypeOK'
  BY <1>3, <1>4, <1>5, <1>6, CacheShape DEF CacheEntries, CacheRequests, CacheScalars, CacheRows, PC!TypeOK
<1> QED BY <1>2, <1>3, <1>7, CacheEntriesKept

LEMMA CacheSteps == CacheInv /\ [PC!Next]_caching => CacheInv'
<1> SUFFICES ASSUME CacheInv, [PC!Next]_caching PROVE CacheInv'
  OBVIOUS
<1>1. CASE UNCHANGED caching
  BY <1>1 DEF caching, CacheInv, PC!TypeOK, PC!PutsReachTheirEntry, PC!Stale, PC!OpenPut
<1>2. CASE PC!Next
  BY <1>2, CacheGetStep, CacheUpdateStep, CachePutStep, CacheBackgroundStep DEF PC!Next
<1> QED BY <1>1, <1>2

THEOREM CacheInvariance == Spec => []CacheInv
<1>1. Init => CacheInv
  BY Behaviours, CacheInitially
<1>2. CacheInv /\ [Next]_vars => CacheInv'
  BY Behaviours, CacheSteps
<1> QED BY <1>1, <1>2, PTL DEF Spec

\* A stale entry has an open PUT of its pattern, a failed cache call or an old
\* fill behind it: no PUT leaves an entry of its pattern that was there before.
THEOREM CachePutsReach == Spec => []PutsReachTheirEntry
<1>1. CacheInv => PutsReachTheirEntry
  BY DEF CacheInv, PutsReachTheirEntry
<1> QED BY <1>1, CacheInvariance, PTL

-----------------------------------------------------------------------------
(* Example 05: the event pipeline.                                          *)

PipelineRequests ==
  /\ pipelineRequest \in [Orders -> {"none", "inserted", "answered", "failed"}]
  /\ pipelineOrders \in SUBSET Orders /\ buffer \in SUBSET Orders
PipelineLog == topic \in [Partitions -> Seq(Orders)]
PipelineTables == table \in [Groups -> SUBSET Orders]
PipelineNumbers ==
  /\ committed \in [Groups -> [Partitions -> Nat]]
  /\ position \in [Groups -> [Partitions -> Nat]]
  /\ cursor \in [Groups -> [Partitions -> Nat]]
PipelineRanges ==
  \A g \in Groups, p \in Partitions :
    /\ committed[g][p] <= position[g][p] /\ position[g][p] <= Len(topic[p])
    /\ cursor[g][p] <= position[g][p]
PipelineConsumers ==
  /\ tp \in [Groups -> Partitions \cup {NoPartition}]
  /\ consumer \in [Groups -> {"down", "poll", "insert", "commit"}]
PipelineCounts == duplicates \in 0..MaxDuplicates /\ losses \in 0..MaxLosses /\ faults \in 0..MaxFaults

PipelineTypes == PipelineRequests /\ PipelineLog /\ PipelineTables /\ PipelineNumbers /\ PipelineRanges /\ PipelineConsumers /\ PipelineCounts

\* Why there are no phantoms: on its way an order is in the table already.
PipelineStored ==
  /\ \A o \in Orders : pipelineRequest[o] # "none" => o \in pipelineOrders
  /\ buffer \subseteq pipelineOrders
  /\ \A p \in Partitions : \A i \in 1..Len(topic[p]) : topic[p][i] \in pipelineOrders
  /\ OE!NoPhantomOrders

PipelineInv == PipelineTypes /\ PipelineStored

-----------------------------------------------------------------------------
LEMMA PipelineTypesSuffice == PipelineTypes => OE!TypeOK
BY DEF PipelineTypes, PipelineRequests, PipelineLog, PipelineTables, PipelineNumbers, PipelineRanges, PipelineConsumers, PipelineCounts, OE!TypeOK

LEMMA PipelineInitially == OE!Init => PipelineInv
<1> SUFFICES ASSUME OE!Init PROVE PipelineInv
  OBVIOUS
<1>1. PipelineRequests /\ PipelineLog /\ PipelineTables /\ PipelineConsumers /\ PipelineCounts
  BY PipelineAssumption DEF OE!Init, PipelineRequests, PipelineLog, PipelineTables, PipelineConsumers, PipelineCounts
<1>2. PipelineNumbers /\ PipelineRanges
  BY DEF OE!Init, OE!Zero, PipelineNumbers, PipelineRanges
<1>3. PipelineStored
  BY DEF OE!Init, PipelineStored, OE!NoPhantomOrders
<1> QED BY <1>1, <1>2, <1>3 DEF PipelineInv, PipelineTypes

\* What the request handler and the producer do, but for the broker's part.
LEMMA PipelineRequestStep ==
  ASSUME PipelineInv,
         \/ \E o \in Orders : OE!InsertOrder(o) \/ OE!SendEvent(o) \/ OE!SendFails(o)
         \/ OE!OrderServiceCrash
  PROVE  PipelineInv'
<1> USE DEF PipelineInv, PipelineTypes
<1>1. UNCHANGED <<topic, OE!consumerVars, duplicates, faults>>
  BY DEF OE!InsertOrder, OE!SendEvent, OE!SendFails, OE!OrderServiceCrash, OE!bounds
<1>2. PipelineLog' /\ PipelineTables' /\ PipelineNumbers' /\ PipelineRanges' /\ PipelineConsumers'
  BY <1>1 DEF OE!consumerVars, PipelineLog, PipelineTables, PipelineNumbers, PipelineRanges, PipelineConsumers
<1>3. PipelineRequests'
  BY DEF PipelineRequests, OE!InsertOrder, OE!SendEvent, OE!SendFails, OE!OrderServiceCrash
<1>4. PipelineCounts'
  BY <1>1, PipelineAssumption DEF PipelineCounts, OE!InsertOrder, OE!SendEvent, OE!SendFails, OE!OrderServiceCrash, OE!bounds
<1>5. pipelineOrders \subseteq pipelineOrders' /\ buffer' \subseteq pipelineOrders' /\ \A x \in Orders : pipelineRequest'[x] # "none" => x \in pipelineOrders'
  BY DEF PipelineRequests, PipelineStored, OE!InsertOrder, OE!SendEvent, OE!SendFails, OE!OrderServiceCrash
<1>6. PipelineStored'
  BY <1>1, <1>5 DEF OE!consumerVars, PipelineStored, OE!NoPhantomOrders
<1> QED BY <1>2, <1>3, <1>4, <1>6

\* The broker appends an event.
LEMMA PipelineDeliverStep ==
  ASSUME PipelineInv, NEW o \in Orders, NEW p \in Partitions,
         OE!Deliver(o, p) \/ OE!DeliverAgain(o, p)
  PROVE  PipelineInv'
<1> USE DEF PipelineInv, PipelineTypes
<1>1. o \in buffer /\ buffer' \subseteq buffer /\ topic' = [topic EXCEPT ![p] = Append(@, o)]
      /\ UNCHANGED <<pipelineRequest, pipelineOrders, OE!consumerVars, losses, faults>>
  BY DEF OE!Deliver, OE!DeliverAgain, OE!producerVars, OE!bounds
<1>2. PipelineLog' /\ topic'[p] = Append(topic[p], o) /\ \A q \in Partitions \ {p} : topic'[q] = topic[q]
  BY <1>1 DEF PipelineLog
<1>3. \A q \in Partitions :
        /\ Len(topic[q]) \in Nat /\ Len(topic'[q]) \in Nat /\ Len(topic[q]) <= Len(topic'[q])
        /\ \A i \in 1..Len(topic[q]) : topic'[q][i] = topic[q][i]
        /\ \A i \in 1..Len(topic'[q]) : i \in 1..Len(topic[q]) \/ topic'[q][i] = o
  <2> SUFFICES ASSUME NEW q \in Partitions
               PROVE  /\ Len(topic[q]) \in Nat /\ Len(topic'[q]) \in Nat /\ Len(topic[q]) <= Len(topic'[q])
                      /\ \A i \in 1..Len(topic[q]) : topic'[q][i] = topic[q][i]
                      /\ \A i \in 1..Len(topic'[q]) : i \in 1..Len(topic[q]) \/ topic'[q][i] = o
    OBVIOUS
  <2>1. topic[q] \in Seq(Orders)
    BY DEF PipelineLog
  <2>2. CASE q = p
    <3>1. topic'[q] = Append(topic[q], o)
      BY <1>2, <2>2
    <3> QED BY <2>1, <3>1
  <2>3. CASE q # p
    <3>1. topic'[q] = topic[q]
      BY <1>2, <2>3
    <3> QED BY <2>1, <3>1
  <2> QED BY <2>2, <2>3
<1>4. PipelineRequests' /\ PipelineTables' /\ PipelineNumbers' /\ PipelineConsumers'
  BY <1>1 DEF OE!consumerVars, PipelineRequests, PipelineTables, PipelineNumbers, PipelineConsumers
<1>5. PipelineRanges'
  BY <1>1, <1>3 DEF OE!consumerVars, PipelineNumbers, PipelineRanges
<1>6. PipelineCounts'
  BY <1>1, PipelineAssumption DEF PipelineCounts, OE!Deliver, OE!DeliverAgain, OE!bounds
<1>7. PipelineStored'
  <2>1. o \in pipelineOrders
    BY <1>1 DEF PipelineStored
  <2>2. \A q \in Partitions : \A i \in 1..Len(topic'[q]) : topic'[q][i] \in pipelineOrders
    BY <1>3, <2>1 DEF PipelineStored
  <2> QED BY <1>1, <2>2 DEF OE!consumerVars, PipelineStored, OE!NoPhantomOrders
<1> QED BY <1>2, <1>4, <1>5, <1>6, <1>7

\* Steps of a consumer: what the producer has and the log stay as they are.
LEMMA PipelineConsumerKeeps ==
  ASSUME PipelineInv, UNCHANGED <<OE!producerVars, topic, duplicates, losses>>
  PROVE  /\ PipelineRequests' /\ PipelineLog'
         /\ (table' = table => PipelineStored' /\ PipelineTables')
         /\ (UNCHANGED faults => PipelineCounts')
BY DEF PipelineInv, PipelineTypes, OE!producerVars, PipelineRequests, PipelineLog, PipelineTables, PipelineCounts, PipelineStored, OE!NoPhantomOrders

LEMMA PipelineStartStep ==
  ASSUME PipelineInv, NEW g \in Groups, OE!StartConsumer(g)
  PROVE  PipelineInv'
<1> USE DEF PipelineInv, PipelineTypes
<1>1. PipelineRequests' /\ PipelineLog' /\ PipelineTables' /\ PipelineCounts' /\ PipelineStored'
  BY PipelineConsumerKeeps DEF OE!StartConsumer, OE!bounds
<1>2. PipelineNumbers' /\ PipelineConsumers'
  BY DEF OE!StartConsumer, PipelineNumbers, PipelineConsumers
<1>3. PipelineRanges'
  BY DEF OE!StartConsumer, PipelineNumbers, PipelineRanges, PipelineLog
<1> QED BY <1>1, <1>2, <1>3

LEMMA PipelinePollStep ==
  ASSUME PipelineInv, NEW g \in Groups, NEW n \in OE!Batches(g), OE!Poll(g, n)
  PROVE  PipelineInv'
<1> USE DEF PipelineInv, PipelineTypes
<1>1. PipelineRequests' /\ PipelineLog' /\ PipelineTables' /\ PipelineCounts' /\ PipelineStored'
  BY PipelineConsumerKeeps DEF OE!Poll, OE!bounds
<1>2. n \in [Partitions -> Nat] /\ \A p \in Partitions : n[p] <= Len(topic[p]) - position[g][p]
  BY PipelineAssumption DEF OE!Batches, OE!Available
<1>3. PipelineNumbers' /\ PipelineConsumers'
  BY <1>2 DEF OE!Poll, PipelineNumbers, PipelineConsumers
<1>4. \A p \in Partitions : Len(topic[p]) \in Nat
  BY DEF PipelineLog
<1>5. \A h \in Groups, p \in Partitions :
        position'[h][p] = (IF h = g THEN position[h][p] + n[p] ELSE position[h][p])
  BY DEF OE!Poll, PipelineNumbers
<1>6. PipelineRanges'
  BY <1>2, <1>4, <1>5 DEF OE!Poll, PipelineNumbers, PipelineRanges
<1> QED BY <1>1, <1>3, <1>6

\* A row is inserted, and perhaps the consumer is interrupted in it.
LEMMA PipelineTableStep ==
  ASSUME PipelineInv, NEW g \in Groups, NEW p \in Partitions, OE!AtMessage(g, p),
         UNCHANGED <<OE!producerVars, topic>>, table' = OE!Inserted(g, p)
  PROVE  PipelineStored' /\ PipelineTables' /\ table'[g] = table[g] \cup {topic[p][cursor[g][p] + 1]}
         /\ \A h \in Groups : table[h] \subseteq table'[h]
<1> USE DEF PipelineInv, PipelineTypes
<1>1. cursor[g][p] + 1 \in 1..Len(topic[p])
  BY DEF OE!AtMessage, PipelineNumbers, PipelineRanges, PipelineLog
<1>2. topic[p][cursor[g][p] + 1] \in Orders \cap pipelineOrders
  BY <1>1 DEF PipelineLog, PipelineStored
<1>3. table'[g] = table[g] \cup {topic[p][cursor[g][p] + 1]} /\ \A h \in Groups \ {g} : table'[h] = table[h]
  BY DEF OE!Inserted, PipelineTables
<1>4. PipelineTables'
  BY <1>2 DEF OE!Inserted, PipelineTables
<1> QED BY <1>2, <1>3, <1>4 DEF OE!producerVars, PipelineStored, OE!NoPhantomOrders

LEMMA PipelineInsertStep ==
  ASSUME PipelineInv, NEW g \in Groups, NEW p \in Partitions, OE!Insert(g, p)
  PROVE  PipelineInv'
<1> USE DEF PipelineInv, PipelineTypes
<1>1. PipelineRequests' /\ PipelineLog' /\ PipelineCounts'
  BY PipelineConsumerKeeps DEF OE!Insert, OE!bounds
<1>2. PipelineStored' /\ PipelineTables' /\ table'[g] = table[g] \cup {topic[p][cursor[g][p] + 1]}
      /\ \A h \in Groups : table[h] \subseteq table'[h]
  BY PipelineTableStep DEF OE!Insert
<1>3. PipelineNumbers' /\ PipelineConsumers'
  BY DEF OE!Insert, PipelineNumbers, PipelineConsumers
<1>4. \A h \in Groups, q \in Partitions :
        cursor'[h][q] = IF h = g /\ q = p THEN cursor[h][q] + 1 ELSE cursor[h][q]
  BY DEF OE!Insert, PipelineNumbers
<1>5. PipelineRanges'
  BY <1>4 DEF OE!Insert, OE!AtMessage, PipelineNumbers, PipelineRanges, PipelineLog
<1> QED BY <1>1, <1>2, <1>3, <1>5

LEMMA PipelineCommitStep ==
  ASSUME PipelineInv, NEW g \in Groups, OE!Commit(g)
  PROVE  PipelineInv'
<1> USE DEF PipelineInv, PipelineTypes
<1>1. PipelineRequests' /\ PipelineLog' /\ PipelineTables' /\ PipelineCounts' /\ PipelineStored'
  BY PipelineConsumerKeeps DEF OE!Commit, OE!bounds
<1>2. PipelineNumbers' /\ PipelineConsumers'
  BY DEF OE!Commit, PipelineNumbers, PipelineConsumers
<1>3. PipelineRanges'
  BY DEF OE!Commit, PipelineNumbers, PipelineRanges, PipelineLog
<1> QED BY <1>1, <1>2, <1>3

\* A consumer that crashes, or ends in an exception: the fault is on record.
LEMMA PipelineFaultStep ==
  ASSUME PipelineInv, NEW g \in Groups,
         OE!ConsumerCrash(g) \/ \E p \in Partitions : OE!InsertFails(g, p)
  PROVE  PipelineInv'
<1> USE DEF PipelineInv, PipelineTypes
<1>1. UNCHANGED <<OE!producerVars, topic, committed, position, cursor, tp, duplicates, losses>>
      /\ faults' = faults + 1 /\ faults < MaxFaults /\ consumer' = [consumer EXCEPT ![g] = "down"]
  BY DEF OE!ConsumerCrash, OE!InsertFails
<1>2. PipelineRequests' /\ PipelineLog'
  BY <1>1, PipelineConsumerKeeps
<1>3. PipelineNumbers' /\ PipelineRanges' /\ PipelineConsumers'
  BY <1>1 DEF PipelineNumbers, PipelineRanges, PipelineConsumers
<1>4. PipelineCounts' /\ faults' # 0
  BY <1>1, PipelineAssumption DEF PipelineCounts
<1>5. PipelineStored' /\ PipelineTables'
  <2>1. CASE table' = table
    BY <1>1, <2>1, PipelineConsumerKeeps
  <2>2. ASSUME NEW p \in Partitions, OE!AtMessage(g, p), table' = OE!Inserted(g, p)
        PROVE  PipelineStored' /\ PipelineTables'
    BY <1>1, <2>2, PipelineTableStep
  <2> QED BY <2>1, <2>2 DEF OE!ConsumerCrash, OE!InsertFails
<1> QED BY <1>2, <1>3, <1>4, <1>5

LEMMA PipelineSteps == PipelineInv /\ [OE!Next]_pipeline => PipelineInv'
<1> SUFFICES ASSUME PipelineInv, [OE!Next]_pipeline PROVE PipelineInv'
  OBVIOUS
<1>1. CASE UNCHANGED pipeline
  BY <1>1 DEF pipeline, PipelineInv, PipelineTypes, PipelineRequests, PipelineLog, PipelineTables, PipelineNumbers,
     PipelineRanges, PipelineConsumers, PipelineCounts, PipelineStored, OE!NoPhantomOrders
<1>2. ASSUME NEW o \in Orders, OE!Produce(o) PROVE PipelineInv'
  BY <1>2, PipelineRequestStep, PipelineDeliverStep DEF OE!Produce
<1>3. CASE OE!OrderServiceCrash
  BY <1>3, PipelineRequestStep
<1>4. ASSUME NEW g \in Groups, OE!Consume(g) \/ OE!ConsumerCrash(g) \/ \E p \in Partitions : OE!InsertFails(g, p)
      PROVE  PipelineInv'
  BY <1>4, PipelineStartStep, PipelinePollStep, PipelineInsertStep, PipelineCommitStep, PipelineFaultStep DEF OE!Consume
<1> QED BY <1>1, <1>2, <1>3, <1>4 DEF OE!Next

THEOREM PipelineInvariance == Spec => []PipelineInv
<1>1. Init => PipelineInv
  BY Behaviours, PipelineInitially
<1>2. PipelineInv /\ [Next]_vars => PipelineInv'
  BY Behaviours, PipelineSteps
<1> QED BY <1>1, <1>2, PTL DEF Spec

-----------------------------------------------------------------------------
(* What a batch can cost.  A group's rows cover what lies between the offsets *)
(* it has committed and its cursor; and as soon as it has committed past the  *)
(* cursor, at least one message of the batch is in.                           *)

Left(g) == SumFunctionOnSet([p \in Partitions |-> position[g][p] - cursor[g][p]], Partitions)
Lost(g) == SumFunctionOnSet([p \in Partitions |-> Cardinality(OE!Unhandled(g, p))], Partitions)

PipelineAhead(g) ==
  consumer[g] # "down" =>
    \A p \in Partitions : \A i \in 1..cursor[g][p] : i <= committed[g][p] \/ topic[p][i] \in table[g]
PipelineBatch(g) ==
  /\ consumer[g] = "poll" => \A p \in Partitions : cursor[g][p] = position[g][p]
  /\ consumer[g] \in {"insert", "commit"} => Left(g) <= MaxRecords
  /\ (consumer[g] = "commit" \/ (consumer[g] = "insert" /\ \E p \in Partitions : cursor[g][p] < committed[g][p]))
       => Left(g) <= MaxRecords - 1
PipelineLoses(g) == PipelineAhead(g) /\ PipelineBatch(g) /\ Lost(g) <= faults * (MaxRecords - 1)
PipelineLosses == \A g \in Groups : PipelineLoses(g)

LEMMA PipelineOffsets ==
  ASSUME PipelineTypes, NEW g \in Groups, NEW p \in Partitions
  PROVE  /\ committed[g][p] \in Nat /\ position[g][p] \in Nat /\ cursor[g][p] \in Nat /\ Len(topic[p]) \in Nat
         /\ committed[g][p] <= position[g][p] /\ position[g][p] <= Len(topic[p]) /\ cursor[g][p] <= position[g][p]
<1>1. topic[p] \in Seq(Orders)
  BY DEF PipelineTypes, PipelineLog
<1>2. Len(topic[p]) \in Nat
  BY <1>1
<1> QED BY <1>2 DEF PipelineTypes, PipelineNumbers, PipelineRanges

LEMMA UnhandledFinite ==
  ASSUME PipelineTypes, NEW g \in Groups, NEW p \in Partitions
  PROVE  IsFiniteSet(OE!Unhandled(g, p)) /\ Cardinality(OE!Unhandled(g, p)) \in Nat
<1>1. OE!Unhandled(g, p) \subseteq 1..committed[g][p] /\ IsFiniteSet(1..committed[g][p])
  BY PipelineOffsets, FS_Interval DEF OE!Unhandled
<1> QED BY <1>1, FS_Subset, FS_CardinalityType

LEMMA LeftNat ==
  ASSUME PipelineTypes, NEW g \in Groups
  PROVE  /\ Left(g) \in Nat
         /\ \A p \in Partitions : position[g][p] - cursor[g][p] <= Left(g)
<1> DEFINE left == [p \in Partitions |-> position[g][p] - cursor[g][p]]
<1>1. \A p \in Partitions : left[p] \in Nat
  BY PipelineOffsets
<1>2. SumFunctionOnSet(left, Partitions) \in Nat /\ \A p \in Partitions : left[p] <= SumFunctionOnSet(left, Partitions)
  <2> HIDE DEF left
  <2> QED BY <1>1, SumNat, PipelineAssumption
<1> QED BY <1>2 DEF Left

\* What is unhandled no more is lost no more.
LEMMA LostShrinks ==
  ASSUME PipelineTypes, PipelineTypes', NEW g \in Groups,
         \A p \in Partitions : OE!Unhandled(g, p)' \subseteq OE!Unhandled(g, p)
  PROVE  Lost(g) \in Nat /\ Lost(g)' \in Nat /\ Lost(g)' <= Lost(g)
<1> DEFINE was == [p \in Partitions |-> Cardinality(OE!Unhandled(g, p))]
           is == [p \in Partitions |-> Cardinality(OE!Unhandled(g, p)')]
<1>1. \A p \in Partitions : was[p] \in Nat /\ is[p] \in Nat /\ is[p] <= was[p]
  <2> SUFFICES ASSUME NEW p \in Partitions PROVE was[p] \in Nat /\ is[p] \in Nat /\ is[p] <= was[p]
    OBVIOUS
  <2>1. IsFiniteSet(OE!Unhandled(g, p)) /\ Cardinality(OE!Unhandled(g, p)) \in Nat
    BY UnhandledFinite
  <2>2. Cardinality(OE!Unhandled(g, p)') \in Nat /\ Cardinality(OE!Unhandled(g, p)') <= Cardinality(OE!Unhandled(g, p))
    BY <2>1, FS_Subset, FS_CardinalityType
  <2> QED BY <2>1, <2>2
<1>2. /\ SumFunctionOnSet(is, Partitions) <= SumFunctionOnSet(was, Partitions)
      /\ SumFunctionOnSet(is, Partitions) \in Nat /\ SumFunctionOnSet(was, Partitions) \in Nat
  <2> HIDE DEF is, was
  <2> QED BY <1>1, SumMonotone, SumNat, PipelineAssumption
<1> QED BY <1>2 DEF Lost

\* The bound for one fault more.
LEMMA FaultBound ==
  ASSUME PipelineTypes, faults' \in {faults, faults + 1}
  PROVE  /\ faults * (MaxRecords - 1) \in Nat /\ MaxRecords - 1 \in Nat
         /\ faults * (MaxRecords - 1) <= faults' * (MaxRecords - 1)
         /\ faults' = faults + 1 => faults' * (MaxRecords - 1) = faults * (MaxRecords - 1) + (MaxRecords - 1)
<1>1. faults \in Nat /\ MaxRecords - 1 \in Nat
  BY PipelineAssumption DEF PipelineTypes, PipelineCounts
<1>2. \A m, n \in Nat : n * m \in Nat /\ (n + 1) * m = n * m + m
  OBVIOUS
<1>3. faults * (MaxRecords - 1) \in Nat /\ (faults + 1) * (MaxRecords - 1) = faults * (MaxRecords - 1) + (MaxRecords - 1)
  BY ONLY <1>1, <1>2
<1> QED BY ONLY <1>1, <1>3, faults' \in {faults, faults + 1}

LEMMA PipelineLossesInitially == OE!Init => PipelineLosses
<1> SUFFICES ASSUME OE!Init, NEW g \in Groups PROVE PipelineLoses(g)
  BY DEF PipelineLosses
<1>1. PipelineAhead(g)
  BY DEF OE!Init, PipelineAhead
<1>2. PipelineBatch(g)
  BY DEF OE!Init, PipelineBatch
<1>3. Lost(g) = 0
  <2> DEFINE lost == [p \in Partitions |-> Cardinality(OE!Unhandled(g, p))]
  <2>1. \A p \in Partitions : OE!Unhandled(g, p) = {}
    BY DEF OE!Init, OE!Zero, OE!Unhandled
  <2>2. \A p \in Partitions : lost[p] = 0
    BY <2>1, FS_EmptySet
  <2>3. SumFunctionOnSet(lost, Partitions) = 0
    <3> HIDE DEF lost
    <3> QED BY <2>2, SumZero, PipelineAssumption
  <2> QED BY <2>3 DEF Lost
<1>4. 0 <= faults * (MaxRecords - 1)
  <2>1. faults = 0 /\ MaxRecords - 1 \in Int
    BY PipelineAssumption DEF OE!Init
  <2> QED BY <2>1
<1> QED BY <1>1, <1>2, <1>3, <1>4 DEF PipelineLoses

\* A group that a step does not touch, while the log may grow.
LEMMA PipelineOtherGroup ==
  ASSUME PipelineTypes, PipelineTypes', NEW g \in Groups, PipelineLoses(g),
         \A p \in Partitions : \A i \in 1..Len(topic[p]) : topic'[p][i] = topic[p][i],
         faults' \in {faults, faults + 1},
         committed'[g] = committed[g], position'[g] = position[g], cursor'[g] = cursor[g],
         consumer'[g] = consumer[g], table[g] \subseteq table'[g]
  PROVE  PipelineLoses(g)'
<1>1. \A p \in Partitions : /\ 1..committed[g][p] \subseteq 1..Len(topic[p])
                            /\ 1..cursor[g][p] \subseteq 1..Len(topic[p])
  BY PipelineOffsets
<1>2. \A p \in Partitions : OE!Unhandled(g, p)' \subseteq OE!Unhandled(g, p)
  BY <1>1 DEF OE!Unhandled
<1>3. Lost(g) \in Nat /\ Lost(g)' \in Nat /\ Lost(g)' <= Lost(g)
  BY <1>2, LostShrinks
<1>4. PipelineAhead(g)'
  BY <1>1 DEF PipelineLoses, PipelineAhead
<1>5. Left(g)' = Left(g)
  BY DEF Left
<1>6. PipelineBatch(g)'
  BY <1>5 DEF PipelineLoses, PipelineBatch
<1>7. Lost(g)' <= faults' * (MaxRecords - 1)
  <2>2. Lost(g) <= faults * (MaxRecords - 1)
    BY DEF PipelineLoses
  <2>3. faults * (MaxRecords - 1) \in Nat /\ faults * (MaxRecords - 1) <= faults' * (MaxRecords - 1) /\ faults' * (MaxRecords - 1) \in Int
    <3>1. faults' \in Int /\ MaxRecords - 1 \in Int
      BY PipelineAssumption DEF PipelineTypes, PipelineCounts
    <3> QED BY <3>1, FaultBound
  <2> QED BY ONLY <1>3, <2>2, <2>3
<1> QED BY <1>4, <1>6, <1>7 DEF PipelineLoses

\* The steps of the group's own consumer.
LEMMA PipelineLossStart ==
  ASSUME PipelineTypes, PipelineTypes', NEW g \in Groups, PipelineLoses(g), OE!StartConsumer(g)
  PROVE  PipelineLoses(g)'
<1>1. /\ consumer'[g] = "poll" /\ position'[g] = committed[g] /\ cursor'[g] = committed[g]
      /\ consumer[g] = "down" /\ UNCHANGED <<topic, committed, table, faults>>
  BY DEF OE!StartConsumer, OE!bounds, PipelineTypes, PipelineNumbers, PipelineConsumers
<1>2. \A p \in Partitions : OE!Unhandled(g, p)' \subseteq OE!Unhandled(g, p)
  BY <1>1 DEF OE!Unhandled
<1>3. Lost(g)' <= faults' * (MaxRecords - 1)
  <2>1. Lost(g) \in Nat /\ Lost(g)' \in Nat /\ Lost(g)' <= Lost(g)
    BY <1>2, LostShrinks
  <2>2. Lost(g) <= faults * (MaxRecords - 1) /\ faults * (MaxRecords - 1) \in Nat
    BY <1>1, FaultBound DEF PipelineLoses
  <2>3. faults' = faults
    BY <1>1
  <2> QED BY ONLY <2>1, <2>2, <2>3
<1>4. PipelineAhead(g)'
  BY <1>1 DEF PipelineAhead
<1>5. PipelineBatch(g)'
  BY <1>1 DEF PipelineBatch
<1> QED BY <1>3, <1>4, <1>5 DEF PipelineLoses

\* A batch of MaxRecords messages at most, behind a cursor that has caught up.
LEMMA PipelineLossPoll ==
  ASSUME PipelineTypes, PipelineTypes', NEW g \in Groups, PipelineLoses(g),
         NEW n \in OE!Batches(g), OE!Poll(g, n)
  PROVE  PipelineLoses(g)'
<1>1. /\ consumer'[g] = "insert" /\ consumer[g] = "poll" /\ \A p \in Partitions : position'[g][p] = position[g][p] + n[p]
      /\ UNCHANGED <<topic, committed, cursor, table, faults>>
  BY DEF OE!Poll, OE!bounds, PipelineTypes, PipelineNumbers, PipelineConsumers
<1>2. \A p \in Partitions : OE!Unhandled(g, p)' \subseteq OE!Unhandled(g, p)
  BY <1>1 DEF OE!Unhandled
<1>3. Lost(g)' <= faults' * (MaxRecords - 1)
  <2>1. Lost(g) \in Nat /\ Lost(g)' \in Nat /\ Lost(g)' <= Lost(g)
    BY <1>2, LostShrinks
  <2>2. Lost(g) <= faults * (MaxRecords - 1) /\ faults * (MaxRecords - 1) \in Nat
    BY <1>1, FaultBound DEF PipelineLoses
  <2>3. faults' = faults
    BY <1>1
  <2> QED BY ONLY <2>1, <2>2, <2>3
<1>4. PipelineAhead(g)'
  BY <1>1 DEF PipelineAhead, PipelineLoses
<1>5. Left(g)' <= MaxRecords
  <2>1. OE!Size(n) \in 1..MaxRecords
    BY DEF OE!Poll
  <2>2. OE!Size(n) = SumFunctionOnSet(n, Partitions)
    BY SameSum DEF OE!Size
  <2>3. n \in [Partitions -> 0..MaxRecords]
    BY DEF OE!Batches
  <2> DEFINE left == [p \in Partitions |-> position'[g][p] - cursor'[g][p]]
  <2>4. \A p \in Partitions : n[p] \in Int /\ left[p] = n[p]
    <3> SUFFICES ASSUME NEW p \in Partitions PROVE n[p] \in Int /\ left[p] = n[p]
      OBVIOUS
    <3>1. n[p] \in 0..MaxRecords
      BY <2>3
    <3>2. cursor[g][p] = position[g][p] /\ position[g][p] \in Nat
      BY <1>1, PipelineOffsets DEF PipelineLoses, PipelineBatch
    <3> QED BY <1>1, <3>1, <3>2
  <2>5. SumFunctionOnSet(left, Partitions) = SumFunctionOnSet(n, Partitions)
    <3> HIDE DEF left
    <3> QED BY <2>4, SumSame, PipelineAssumption
  <2>6. Left(g)' = SumFunctionOnSet(left, Partitions)
    BY DEF Left
  <2>7. MaxRecords \in Nat
    BY PipelineAssumption
  <2> QED BY ONLY <2>1, <2>2, <2>5, <2>6, <2>7
<1>6. \A p \in Partitions : ~(cursor'[g][p] < committed'[g][p])
  <2> SUFFICES ASSUME NEW p \in Partitions PROVE ~(cursor[g][p] < committed[g][p])
    BY <1>1
  <2>1. cursor[g][p] = position[g][p]
    BY <1>1 DEF PipelineLoses, PipelineBatch
  <2> QED BY <2>1, PipelineOffsets
<1>7. PipelineBatch(g)'
  BY <1>1, <1>5, <1>6 DEF PipelineBatch
<1> QED BY <1>3, <1>4, <1>7 DEF PipelineLoses

\* The first message of the batch, or the next: one less is left.
LEMMA PipelineLossInsert ==
  ASSUME PipelineTypes, PipelineTypes', NEW g \in Groups, PipelineLoses(g),
         NEW q \in Partitions, OE!Insert(g, q)
  PROVE  PipelineLoses(g)'
<1>1. /\ consumer'[g] = "commit" /\ consumer[g] = "insert" /\ cursor[g][q] < position[g][q]
      /\ UNCHANGED <<topic, committed, position, faults>>
      /\ table'[g] = table[g] \cup {topic[q][cursor[g][q] + 1]}
      /\ \A p \in Partitions : cursor'[g][p] = IF p = q THEN cursor[g][p] + 1 ELSE cursor[g][p]
  BY DEF OE!Insert, OE!AtMessage, OE!Inserted, OE!bounds, PipelineTypes, PipelineNumbers, PipelineConsumers, PipelineTables
<1>2. \A p \in Partitions : OE!Unhandled(g, p)' \subseteq OE!Unhandled(g, p)
  <2> SUFFICES ASSUME NEW p \in Partitions, NEW i \in 1..committed[g][p], i <= cursor'[g][p], topic[p][i] \notin table'[g]
               PROVE  i <= cursor[g][p] /\ topic[p][i] \notin table[g]
    BY <1>1 DEF OE!Unhandled
  <2>1. cursor[g][p] \in Nat
    BY PipelineOffsets
  <2> QED BY <1>1, <2>1
<1>3. Lost(g)' <= faults' * (MaxRecords - 1)
  <2>1. Lost(g) \in Nat /\ Lost(g)' \in Nat /\ Lost(g)' <= Lost(g)
    BY <1>2, LostShrinks
  <2>2. Lost(g) <= faults * (MaxRecords - 1) /\ faults * (MaxRecords - 1) \in Nat
    BY <1>1, FaultBound DEF PipelineLoses
  <2>3. faults' = faults
    BY <1>1
  <2> QED BY ONLY <2>1, <2>2, <2>3
<1>4. PipelineAhead(g)'
  <2> SUFFICES ASSUME NEW p \in Partitions, NEW i \in 1..cursor'[g][p]
               PROVE  i <= committed[g][p] \/ topic[p][i] \in table'[g]
    BY <1>1 DEF PipelineAhead
  <2>1. cursor[g][p] \in Nat
    BY PipelineOffsets
  <2>2. i \in 1..cursor[g][p] \/ (p = q /\ i = cursor[g][p] + 1)
    BY <1>1, <2>1
  <2> QED BY <1>1, <2>2 DEF PipelineAhead, PipelineLoses
<1>5. Left(g)' = Left(g) - 1
  <2> DEFINE was == [p \in Partitions |-> position[g][p] - cursor[g][p]]
             is == [p \in Partitions |-> position'[g][p] - cursor'[g][p]]
  <2>1. \A p \in Partitions : was[p] \in Int /\ is[p] \in Int /\ (p # q => is[p] = was[p])
    BY <1>1, PipelineOffsets
  <2>2. is[q] = was[q] - 1
    BY <1>1, PipelineOffsets
  <2>3. SumFunctionOnSet(is, Partitions) = SumFunctionOnSet(was, Partitions) - was[q] + is[q]
    <3> HIDE DEF is, was
    <3> QED BY <2>1, SumChange, PipelineAssumption
  <2>4. SumFunctionOnSet(was, Partitions) \in Int /\ was[q] \in Int
    <3> HIDE DEF is, was
    <3> QED BY <2>1, SumInt, PipelineAssumption
  <2>5. SumFunctionOnSet(is, Partitions) = SumFunctionOnSet(was, Partitions) - 1
    <3> HIDE DEF is, was
    <3> QED BY <2>2, <2>3, <2>4
  <2> QED BY <2>5 DEF Left
<1>6. Left(g)' <= MaxRecords - 1 /\ Left(g)' <= MaxRecords
  <2>1. Left(g) \in Nat /\ Left(g) <= MaxRecords /\ MaxRecords \in Nat
    BY <1>1, LeftNat, PipelineAssumption DEF PipelineLoses, PipelineBatch
  <2> QED BY ONLY <1>5, <2>1
<1>7. PipelineBatch(g)'
  BY <1>1, <1>6 DEF PipelineBatch
<1> QED BY <1>3, <1>4, <1>7 DEF PipelineLoses

\* commit() moves over the rest of the batch.
LEMMA PipelineLossCommit ==
  ASSUME PipelineTypes, PipelineTypes', NEW g \in Groups, PipelineLoses(g), OE!Commit(g)
  PROVE  PipelineLoses(g)'
<1>1. /\ consumer[g] = "commit" /\ committed'[g] = position[g]
      /\ consumer'[g] = IF OE!Remaining(g) THEN "insert" ELSE "poll"
      /\ UNCHANGED <<topic, position, cursor, table, faults>>
  BY DEF OE!Commit, OE!bounds, PipelineTypes, PipelineNumbers, PipelineConsumers
<1>2. \A p \in Partitions : OE!Unhandled(g, p)' \subseteq OE!Unhandled(g, p)
  <2> SUFFICES ASSUME NEW p \in Partitions, NEW i \in 1..position[g][p], i <= cursor[g][p], topic[p][i] \notin table[g]
               PROVE  i \in 1..committed[g][p]
    BY <1>1 DEF OE!Unhandled
  <2>1. i \in 1..cursor[g][p] /\ cursor[g][p] \in Nat /\ committed[g][p] \in Nat
    BY PipelineOffsets
  <2> QED BY <1>1, <2>1 DEF PipelineLoses, PipelineAhead
<1>3. Lost(g)' <= faults' * (MaxRecords - 1)
  <2>1. Lost(g) \in Nat /\ Lost(g)' \in Nat /\ Lost(g)' <= Lost(g)
    BY <1>2, LostShrinks
  <2>2. Lost(g) <= faults * (MaxRecords - 1) /\ faults * (MaxRecords - 1) \in Nat
    BY <1>1, FaultBound DEF PipelineLoses
  <2>3. faults' = faults
    BY <1>1
  <2> QED BY ONLY <2>1, <2>2, <2>3
<1>4. PipelineAhead(g)'
  BY <1>1, PipelineOffsets DEF PipelineAhead
<1>5. Left(g)' = Left(g) /\ Left(g) <= MaxRecords - 1 /\ Left(g) <= MaxRecords
  <2>1. Left(g)' = Left(g)
    BY <1>1 DEF Left
  <2> QED BY <1>1, <2>1 DEF PipelineLoses, PipelineBatch
<1>6. consumer'[g] = "poll" => \A p \in Partitions : cursor'[g][p] = position'[g][p]
  BY <1>1, PipelineOffsets DEF OE!Remaining
<1>7. PipelineBatch(g)'
  BY <1>1, <1>5, <1>6 DEF PipelineBatch
<1> QED BY <1>3, <1>4, <1>7 DEF PipelineLoses

\* A consumer that ends forgets the rest of a batch it has committed: it had
\* inserted at least one message of it.
LEMMA PipelineLossFault ==
  ASSUME PipelineTypes, PipelineTypes', NEW g \in Groups, PipelineLoses(g),
         OE!ConsumerCrash(g) \/ \E q \in Partitions : OE!InsertFails(g, q)
  PROVE  PipelineLoses(g)'
<1>1. /\ consumer'[g] = "down" /\ consumer[g] # "down" /\ UNCHANGED <<topic, committed, position, cursor>>
      /\ faults' = faults + 1
  BY DEF OE!ConsumerCrash, OE!InsertFails, OE!AtMessage, PipelineTypes, PipelineConsumers
<1>2. table[g] \subseteq table'[g]
  BY DEF OE!ConsumerCrash, OE!InsertFails, OE!Inserted, PipelineTypes, PipelineTables
<1>3. PipelineAhead(g)' /\ PipelineBatch(g)'
  BY <1>1 DEF PipelineAhead, PipelineBatch
<1>4. Lost(g) <= faults * (MaxRecords - 1)
  BY DEF PipelineLoses
<1>5. /\ faults' * (MaxRecords - 1) = faults * (MaxRecords - 1) + (MaxRecords - 1)
      /\ faults * (MaxRecords - 1) \in Nat /\ MaxRecords - 1 \in Nat
  BY <1>1, FaultBound
<1>6. CASE \A p \in Partitions : committed[g][p] <= cursor[g][p]
  <2>1. \A p \in Partitions : OE!Unhandled(g, p)' \subseteq OE!Unhandled(g, p)
    <3> SUFFICES ASSUME NEW p \in Partitions, NEW i \in 1..committed[g][p], topic[p][i] \notin table'[g]
                 PROVE  topic[p][i] \notin table[g] /\ i <= cursor[g][p]
      BY <1>1 DEF OE!Unhandled
    <3> QED BY <1>2, <1>6, PipelineOffsets
  <2>2. Lost(g) \in Nat /\ Lost(g)' \in Nat /\ Lost(g)' <= Lost(g)
    BY <2>1, LostShrinks
  <2>3. Lost(g)' <= faults' * (MaxRecords - 1)
    BY ONLY <1>4, <1>5, <2>2
  <2> QED BY <1>3, <2>3 DEF PipelineLoses
<1>7. ASSUME NEW q \in Partitions, ~(committed[g][q] <= cursor[g][q]) PROVE PipelineLoses(g)'
  <2>1. cursor[g][q] < committed[g][q] /\ cursor[g][q] # position[g][q]
    BY <1>7, PipelineOffsets
  <2>2. consumer[g] \in {"insert", "commit"}
    BY <1>1, <2>1 DEF PipelineLoses, PipelineBatch, PipelineTypes, PipelineConsumers
  <2>3. Left(g) <= MaxRecords - 1
    BY <2>1, <2>2 DEF PipelineLoses, PipelineBatch
  <2> DEFINE was == [p \in Partitions |-> Cardinality(OE!Unhandled(g, p))]
             is == [p \in Partitions |-> Cardinality(OE!Unhandled(g, p)')]
             left == [p \in Partitions |-> position[g][p] - cursor[g][p]]
             both == [p \in Partitions |-> was[p] + left[p]]
  <2>4. \A p \in Partitions : was[p] \in Nat /\ is[p] \in Nat /\ left[p] \in Nat /\ is[p] <= was[p] + left[p]
    <3> SUFFICES ASSUME NEW p \in Partitions PROVE was[p] \in Nat /\ is[p] \in Nat /\ left[p] \in Nat /\ is[p] <= was[p] + left[p]
      OBVIOUS
    <3> DEFINE old == OE!Unhandled(g, p)
               new == OE!Unhandled(g, p)'
               rest == cursor[g][p] + 1 .. position[g][p]
    <3>1. committed[g][p] \in Nat /\ position[g][p] \in Nat /\ cursor[g][p] \in Nat /\ committed[g][p] <= position[g][p] /\ cursor[g][p] <= position[g][p]
      BY PipelineOffsets
    <3>2. new \subseteq old \cup rest
      <4> SUFFICES ASSUME NEW i \in 1..committed[g][p], topic[p][i] \notin table'[g], ~(i <= cursor[g][p])
                   PROVE  i \in cursor[g][p] + 1 .. position[g][p]
        BY <1>1, <1>2 DEF OE!Unhandled
      <4> QED BY <3>1
    <3>3. IsFiniteSet(old) /\ Cardinality(old) \in Nat
      BY UnhandledFinite
    <3>4. IsFiniteSet(rest) /\ Cardinality(rest) = position[g][p] - cursor[g][p]
      <4>1. \A m, n \in Nat : m <= n => IsFiniteSet(m + 1 .. n) /\ Cardinality(m + 1 .. n) = n - m
        <5> SUFFICES ASSUME NEW m \in Nat, NEW n \in Nat, m <= n
                     PROVE  IsFiniteSet(m + 1 .. n) /\ Cardinality(m + 1 .. n) = n - m
          OBVIOUS
        <5>1. m + 1 \in Int /\ n \in Int
          OBVIOUS
        <5>2. /\ IsFiniteSet(m + 1 .. n)
              /\ Cardinality(m + 1 .. n) = IF m + 1 > n THEN 0 ELSE n - (m + 1) + 1
          BY ONLY <5>1, FS_Interval
        <5> QED BY <5>2
      <4> QED BY <3>1, <4>1
    <3> HIDE DEF old, new, rest
    <3>5. IsFiniteSet(old \cup rest) /\ Cardinality(old \cup rest) = Cardinality(old) + Cardinality(rest) - Cardinality(old \cap rest)
      BY <3>3, <3>4, FS_Union
    <3>6. IsFiniteSet(new) /\ Cardinality(new) <= Cardinality(old \cup rest) /\ Cardinality(new) \in Nat
      BY <3>2, <3>5, FS_Subset, FS_CardinalityType
    <3>7. Cardinality(old \cap rest) \in Nat
      BY <3>3, FS_Intersection, FS_CardinalityType
    <3>8. Cardinality(new) <= Cardinality(old) + (position[g][p] - cursor[g][p])
      BY <3>1, <3>3, <3>4, <3>5, <3>6, <3>7
    <3> QED BY <3>1, <3>3, <3>6, <3>8 DEF old, new
  <2>5. \A p \in Partitions : both[p] \in Int /\ both[p] = was[p] + left[p]
    BY <2>4
  <2>6. /\ SumFunctionOnSet(is, Partitions) <= SumFunctionOnSet(both, Partitions)
        /\ SumFunctionOnSet(both, Partitions) = SumFunctionOnSet(was, Partitions) + SumFunctionOnSet(left, Partitions)
        /\ SumFunctionOnSet(is, Partitions) \in Nat
        /\ SumFunctionOnSet(was, Partitions) \in Nat
        /\ SumFunctionOnSet(left, Partitions) \in Nat
    <3> HIDE DEF is, was, left, both
    <3>1. SumFunctionOnSet(is, Partitions) <= SumFunctionOnSet(both, Partitions)
      BY <2>4, <2>5, SumMonotone, PipelineAssumption
    <3>2. SumFunctionOnSet(both, Partitions) = SumFunctionOnSet(was, Partitions) + SumFunctionOnSet(left, Partitions)
      BY <2>4, <2>5, SumPlus, PipelineAssumption
    <3>3. SumFunctionOnSet(is, Partitions) \in Nat /\ SumFunctionOnSet(was, Partitions) \in Nat /\ SumFunctionOnSet(left, Partitions) \in Nat
      BY <2>4, SumNat, PipelineAssumption
    <3> QED BY <3>1, <3>2, <3>3
  <2>7. Lost(g)' = SumFunctionOnSet(is, Partitions) /\ Lost(g) = SumFunctionOnSet(was, Partitions) /\ Left(g) = SumFunctionOnSet(left, Partitions)
    BY DEF Lost, Left
  <2>8. Lost(g)' <= faults' * (MaxRecords - 1)
    BY ONLY <1>4, <1>5, <2>3, <2>6, <2>7
  <2> QED BY <1>3, <2>8 DEF PipelineLoses
<1> QED BY <1>6, <1>7

LEMMA PipelineLossSteps ==
  PipelineInv /\ PipelineInv' /\ PipelineLosses /\ [OE!Next]_pipeline => PipelineLosses'
<1> SUFFICES ASSUME PipelineInv, PipelineInv', PipelineLosses, [OE!Next]_pipeline, NEW g \in Groups PROVE PipelineLoses(g)'
  BY DEF PipelineLosses
<1>1. PipelineTypes /\ PipelineTypes' /\ PipelineLoses(g)
  BY DEF PipelineInv, PipelineLosses
<1>2. ASSUME UNCHANGED <<OE!consumerVars, faults>>,
             \A p \in Partitions : \A i \in 1..Len(topic[p]) : topic'[p][i] = topic[p][i]
      PROVE  PipelineLoses(g)'
  BY <1>1, <1>2, PipelineOtherGroup DEF OE!consumerVars
<1>3. CASE UNCHANGED pipeline
  BY <1>2, <1>3 DEF pipeline, OE!consumerVars
<1>4. ASSUME NEW o \in Orders, OE!Produce(o) PROVE PipelineLoses(g)'
  <2>1. UNCHANGED <<OE!consumerVars, faults>>
    BY <1>4 DEF OE!Produce, OE!InsertOrder, OE!SendEvent, OE!SendFails, OE!Deliver, OE!DeliverAgain, OE!bounds
  <2>2. ASSUME NEW p \in Partitions, NEW q \in Partitions, topic' = [topic EXCEPT ![q] = Append(@, o)], NEW i \in 1..Len(topic[p])
        PROVE  topic'[p][i] = topic[p][i]
    <3>1. topic[p] \in Seq(Orders)
      BY <1>1 DEF PipelineTypes, PipelineLog
    <3> QED BY <1>1, <2>2, <3>1 DEF PipelineTypes, PipelineLog
  <2>3. UNCHANGED topic \/ \E q \in Partitions : topic' = [topic EXCEPT ![q] = Append(@, o)]
    BY <1>4 DEF OE!Produce, OE!InsertOrder, OE!SendEvent, OE!SendFails, OE!Deliver, OE!DeliverAgain
  <2> QED BY <1>2, <2>1, <2>2, <2>3
<1>5. CASE OE!OrderServiceCrash
  BY <1>2, <1>5 DEF OE!OrderServiceCrash
<1>6. ASSUME NEW h \in Groups, OE!Consume(h) \/ OE!ConsumerCrash(h) \/ \E p \in Partitions : OE!InsertFails(h, p)
      PROVE  PipelineLoses(g)'
  <2>1. CASE h = g
    BY <1>1, <1>6, <2>1, PipelineLossStart, PipelineLossPoll, PipelineLossInsert, PipelineLossCommit, PipelineLossFault DEF OE!Consume
  <2>2. CASE h # g
    <3>1. /\ UNCHANGED topic /\ faults' \in {faults, faults + 1}
          /\ committed'[g] = committed[g] /\ position'[g] = position[g] /\ cursor'[g] = cursor[g]
          /\ consumer'[g] = consumer[g] /\ table[g] \subseteq table'[g]
      BY <1>1, <1>6, <2>2 DEF OE!Consume, OE!StartConsumer, OE!Poll, OE!Insert, OE!Commit, OE!ConsumerCrash, OE!InsertFails,
         OE!Inserted, OE!bounds, PipelineTypes, PipelineNumbers, PipelineConsumers, PipelineTables
    <3> QED BY <1>1, <3>1, PipelineOtherGroup
  <2> QED BY <2>1, <2>2
<1> QED BY <1>3, <1>4, <1>5, <1>6 DEF OE!Next

\* Nothing is shipped or notified for an order that was not stored; and though
\* each commit covers the whole batch, a fault costs a group no more than the
\* messages of one batch after the first.
THEOREM PipelineKeeps == Spec => []PipelineKeepsOrders
<1>1. Init => PipelineInv /\ PipelineLosses
  BY Behaviours, PipelineInitially, PipelineLossesInitially
<1>2. PipelineInv /\ PipelineLosses /\ [Next]_vars => PipelineInv' /\ PipelineLosses'
  BY Behaviours, PipelineSteps, PipelineLossSteps
<1>3. PipelineInv /\ PipelineLosses => PipelineKeepsOrders
  <2> SUFFICES ASSUME PipelineInv, PipelineLosses PROVE OE!PipelineKeepsOrders
    BY DEF PipelineKeepsOrders
  <2>1. OE!NoPhantomOrders
    BY DEF PipelineInv, PipelineStored
  <2>2. ASSUME NEW g \in Groups
        PROVE  OE!SumFunctionOnSet([p \in Partitions |-> OE!Cardinality(OE!Unhandled(g, p))], Partitions) <= faults * (MaxRecords - 1)
    <3>1. [p \in Partitions |-> OE!Cardinality(OE!Unhandled(g, p))] = [p \in Partitions |-> Cardinality(OE!Unhandled(g, p))]
      BY DEF OE!Cardinality, Cardinality
    <3>2. OE!SumFunctionOnSet([p \in Partitions |-> OE!Cardinality(OE!Unhandled(g, p))], Partitions) = Lost(g)
      BY <3>1, SameSum DEF Lost
    <3> QED BY <3>2 DEF PipelineLosses, PipelineLoses
  <2>3. OE!LossBounded
    BY <2>2 DEF OE!LossBounded
  <2> QED BY <2>1, <2>3 DEF OE!PipelineKeepsOrders
<1> QED BY <1>1, <1>2, <1>3, PTL DEF Spec

-----------------------------------------------------------------------------
(* Examples 02, 11 and 18: the stock.                                        *)

Seats ==
  [pc : {"none", "called", "reserved", "broken", "replied", "inserted", "done"},
   quantity : Quantities \cup {0}, confirmed : BOOLEAN, remaining : Int, epoch : -1..MaxRestarts]
OrderingTypes ==
  /\ edition \in {"02", "11", "18"} /\ fail_mode \in BOOLEAN
  /\ stock \in -1..InitialStock /\ epoch \in 0..MaxRestarts /\ failures \in 0..MaxFailures
  /\ order \in [Requests -> Seats]
  /\ rows \subseteq Requests \X {"confirmed", "rejected"} /\ events \subseteq rows
  /\ orderingAnswer \in [Requests -> {0, 201, 409, 500, 502, 503}]

\* What an inventory process has given away, out of a table of requests.
Total(requests, e) ==
  SumFunctionOnSet([r \in Requests |-> IF requests[r].epoch = e THEN requests[r].quantity ELSE 0], Requests)

\* How far a request is tells what it has taken and what is stored of it.
OrderingTold(r) ==
  /\ order[r].epoch <= epoch /\ (order[r].confirmed <=> order[r].epoch # -1)
  /\ order[r].pc \in {"none", "called"} => order[r].epoch = -1
  /\ orderingAnswer[r] # 0 => order[r].pc = "done"
  /\ \A status \in {"confirmed", "rejected"} :
       <<r, status>> \in rows => status = ST!Status(r) /\ order[r].pc \in {"inserted", "done"}
  /\ order[r].pc = "inserted" => <<r, ST!Status(r)>> \in rows /\ edition # "18"
  /\ orderingAnswer[r] = 201 /\ edition # "18" => <<r, ST!Status(r)>> \in events
  /\ orderingAnswer[r] = 409 => ~order[r].confirmed

OrderingInv ==
  /\ OrderingTypes
  /\ \A r \in Requests : OrderingTold(r)
  /\ ST!NeverOversold

LEMMA SameTaken ==
  \A e : ST!Taken(e) = Total(order, e) /\ ST!Taken(e)' = Total(order', e)
<1>1. \A f, S : ST!SumFunctionOnSet(f, S) = SumFunctionOnSet(f, S)
  BY DEF ST!SumFunctionOnSet, SumFunctionOnSet, ST!FoldFunctionOnSet, FoldFunctionOnSet, ST!MapThenFoldSet, MapThenFoldSet
<1> QED BY <1>1 DEF ST!Taken, Total

\* No request has taken from a process that has not begun.
LEMMA NothingTaken ==
  ASSUME NEW requests, NEW e, \A r \in Requests : requests[r].epoch # e
  PROVE  Total(requests, e) = 0
<1> DEFINE none == [r \in Requests |-> IF requests[r].epoch = e THEN requests[r].quantity ELSE 0]
<1>1. \A r \in Requests : none[r] = 0
  OBVIOUS
<1>2. SumFunctionOnSet(none, Requests) = 0
  <2> HIDE DEF none
  <2> QED BY <1>1, SumZero, OrderingAssumption
<1> QED BY <1>2 DEF Total

LEMMA QuantityNat == OrderingTypes => \A r \in Requests : order[r].quantity \in Nat
<1> SUFFICES ASSUME OrderingTypes, NEW r \in Requests PROVE order[r].quantity \in Nat
  OBVIOUS
<1>1. order[r] \in Seats
  BY DEF OrderingTypes
<1>2. order[r].quantity \in Quantities \cup {0}
  BY <1>1 DEF Seats
<1>3. Quantities \cup {0} \subseteq Nat
  BY OrderingAssumption
<1> QED BY ONLY <1>2, <1>3

LEMMA TotalNat ==
  ASSUME OrderingTypes, NEW e
  PROVE  Total(order, e) \in Nat
<1> DEFINE taken == [r \in Requests |-> IF order[r].epoch = e THEN order[r].quantity ELSE 0]
<1>1. \A r \in Requests : taken[r] \in Nat
  BY QuantityNat
<1>2. SumFunctionOnSet(taken, Requests) \in Nat
  <2> HIDE DEF taken
  <2> QED BY <1>1, SumNat, OrderingAssumption
<1> QED BY <1>2 DEF Total

\* One request takes, or does not: a step leaves the totals alone ...
LEMMA TotalKept ==
  ASSUME OrderingTypes, NEW e, NEW requests,
         \A r \in Requests : /\ requests[r].epoch = e <=> order[r].epoch = e
                             /\ order[r].epoch = e => requests[r].quantity = order[r].quantity
  PROVE  Total(requests, e) = Total(order, e)
BY DEF Total

\* ... or adds what was ordered to the one of the process that runs.
LEMMA TotalTaken ==
  ASSUME OrderingTypes, NEW r \in Requests, NEW e, NEW requests, order[r].epoch # e,
         requests[r].epoch = e, requests[r].quantity \in Nat,
         \A q \in Requests : q # r => requests[q] = order[q]
  PROVE  Total(requests, e) = Total(order, e) + requests[r].quantity
<1> DEFINE was == [q \in Requests |-> IF order[q].epoch = e THEN order[q].quantity ELSE 0]
           is == [q \in Requests |-> IF requests[q].epoch = e THEN requests[q].quantity ELSE 0]
<1>1. \A q \in Requests : was[q] \in Int /\ is[q] \in Int /\ (q # r => is[q] = was[q])
  BY QuantityNat
<1>2. was[r] = 0 /\ is[r] = requests[r].quantity
  OBVIOUS
<1>3. SumFunctionOnSet(was, Requests) \in Int
  <2> HIDE DEF was, is
  <2> QED BY <1>1, SumInt, OrderingAssumption
<1>4. SumFunctionOnSet(is, Requests) = SumFunctionOnSet(was, Requests) - was[r] + is[r]
  <2> HIDE DEF was, is
  <2> QED BY <1>1, SumChange, OrderingAssumption
<1>5. SumFunctionOnSet(is, Requests) = SumFunctionOnSet(was, Requests) + requests[r].quantity
  <2> HIDE DEF was, is
  <2> QED BY <1>2, <1>3, <1>4
<1> QED BY <1>5 DEF Total

LEMMA OrderingInitially == ST!Init => OrderingInv
<1> SUFFICES ASSUME ST!Init PROVE OrderingInv
  OBVIOUS
<1>1. edition \in {"02", "11", "18"} /\ fail_mode \in BOOLEAN
  BY Zenon DEF ST!Init
<1>2. OrderingTypes
  BY <1>1, OrderingAssumption DEF ST!Init, OrderingTypes, Seats
<1>3. \A r \in Requests : OrderingTold(r)
  BY DEF ST!Init, OrderingTold, ST!Status
<1>4. ST!NeverOversold
  <2>1. \A e \in 0..epoch : ST!Taken(e) = 0
    BY NothingTaken, SameTaken DEF ST!Init
  <2> QED BY <2>1, OrderingAssumption DEF ST!NeverOversold, ST!Have, ST!Init
<1> QED BY <1>2, <1>3, <1>4 DEF OrderingInv

\* A step of one request that takes no stock, nor gives any back: the request
\* becomes w and its answer a.
OneRequest(r, w, a) ==
  /\ order' = [order EXCEPT ![r] = w] /\ orderingAnswer' = [orderingAnswer EXCEPT ![r] = a]
  /\ w \in Seats /\ w.epoch = order[r].epoch /\ (w.epoch # -1 => w.quantity = order[r].quantity)
  /\ UNCHANGED <<edition, fail_mode, stock, epoch>> /\ failures' \in 0..MaxFailures
  /\ rows' = rows \/ rows' = rows \cup {<<r, ST!Status(r)>>}
  /\ events' = events \/ events' = events \cup {<<r, ST!Status(r)>>}
  /\ events' \subseteq rows'
  /\ OrderingTold(r)'

LEMMA OrderingOneRequest ==
  ASSUME OrderingInv, NEW r \in Requests, NEW w, NEW a \in {0, 201, 409, 500, 502, 503}, OneRequest(r, w, a)
  PROVE  OrderingInv'
<1> USE DEF OrderingInv, OneRequest
<1>1. \A q \in Requests : order'[q] = IF q = r THEN w ELSE order[q]
  BY DEF OrderingTypes
<1>2. ST!Status(r) \in {"confirmed", "rejected"}
  BY DEF ST!Status
<1>3. OrderingTypes'
  BY <1>2 DEF OrderingTypes
<1>4. \A q \in Requests : OrderingTold(q)'
  <2> SUFFICES ASSUME NEW q \in Requests, q # r PROVE OrderingTold(q)'
    OBVIOUS
  <2>1. order'[q] = order[q] /\ orderingAnswer'[q] = orderingAnswer[q] /\ OrderingTold(q)
    BY <1>1 DEF OrderingTypes
  <2>2. \A status : (<<q, status>> \in rows' <=> <<q, status>> \in rows) /\ (<<q, status>> \in events' <=> <<q, status>> \in events)
    OBVIOUS
  <2> QED BY <2>1, <2>2 DEF OrderingTold, ST!Status
<1>5. \A e \in 0..epoch : ST!Taken(e)' = ST!Taken(e)
  <2> SUFFICES ASSUME NEW e \in 0..epoch PROVE Total(order', e) = Total(order, e)
    BY SameTaken
  <2>1. e # -1
    BY DEF OrderingTypes
  <2>2. \A q \in Requests : /\ order'[q].epoch = e <=> order[q].epoch = e
                            /\ order[q].epoch = e => order'[q].quantity = order[q].quantity
    BY <1>1, <2>1
  <2> QED BY <2>2, TotalKept
<1>6. ST!NeverOversold'
  <2>1. epoch \in 0..epoch
    BY DEF OrderingTypes
  <2> QED BY <1>5, <2>1 DEF ST!NeverOversold, ST!Have
<1> QED BY <1>3, <1>4, <1>6

\* A request that was called for gets further: to stored, or to its answer a.
Advances(r, to, x, a) ==
  /\ order[r].pc \notin {"none", "inserted", "done"} \/ to = "done"
  /\ order' = [order EXCEPT ![r] = [@ EXCEPT !.pc = to, !.remaining = x]]
  /\ orderingAnswer' = [orderingAnswer EXCEPT ![r] = a]
  /\ UNCHANGED <<edition, fail_mode, stock, epoch>> /\ failures' \in 0..MaxFailures
  /\ rows' = rows \/ (rows' = rows \cup {<<r, ST!Status(r)>>} /\ to = "inserted")
  /\ events' = events \/ events' = events \cup {<<r, ST!Status(r)>>}
  /\ events' \subseteq rows'
  /\ to = "inserted" => <<r, ST!Status(r)>> \in rows' /\ edition # "18"
  /\ a # 0 <=> to = "done"
  /\ a = 201 /\ edition # "18" => <<r, ST!Status(r)>> \in events'
  /\ a = 409 => ~order[r].confirmed

LEMMA OrderingAdvances ==
  ASSUME OrderingInv, NEW r \in Requests, NEW to \in {"replied", "inserted", "done"}, NEW x \in Int,
         NEW a \in {0, 201, 409, 500, 502, 503}, Advances(r, to, x, a), order[r].pc # "none"
  PROVE  OrderingInv'
<1> DEFINE w == [order[r] EXCEPT !.pc = to, !.remaining = x]
<1>0. OrderingTold(r) /\ order[r] \in Seats /\ order \in [Requests -> Seats] /\ OrderingTypes
  BY DEF OrderingInv, OrderingTypes
<1>1. order' = [order EXCEPT ![r] = w]
  BY DEF Advances
<1>2. /\ w \in Seats /\ w.pc = to /\ w.epoch = order[r].epoch
      /\ w.confirmed = order[r].confirmed /\ w.quantity = order[r].quantity
  <2>1. to \in {"none", "called", "reserved", "broken", "replied", "inserted", "done"}
    OBVIOUS
  <2> QED BY <1>0, <2>1 DEF Seats
<1> HIDE DEF w
<1>3. order' \in [Requests -> Seats] /\ order'[r] = w
  BY <1>0, <1>1, <1>2
<1>4. ST!Status(r)' = ST!Status(r)
  BY <1>2, <1>3 DEF ST!Status
<1>5. orderingAnswer'[r] = a
  BY <1>0 DEF OrderingTypes, Advances
<1>6. \A status \in {"confirmed", "rejected"} :
        <<r, status>> \in rows' => status = ST!Status(r) /\ to \in {"inserted", "done"}
  BY <1>0 DEF OrderingTold, Advances
<1>7. OrderingTold(r)'
  <2>1. order'[r].epoch <= epoch' /\ (order'[r].confirmed <=> order'[r].epoch # -1)
    BY <1>0, <1>2, <1>3 DEF OrderingTold, Advances
  <2>2. order'[r].pc \notin {"none", "called"} \/ order'[r].epoch = -1
    BY <1>2, <1>3
  <2>3. (orderingAnswer'[r] # 0 => order'[r].pc = "done") /\ (orderingAnswer'[r] = 409 => ~order'[r].confirmed)
    BY <1>2, <1>3, <1>5 DEF Advances
  <2>4. /\ order'[r].pc = "inserted" => <<r, ST!Status(r)'>> \in rows' /\ edition' # "18"
        /\ orderingAnswer'[r] = 201 /\ edition' # "18" => <<r, ST!Status(r)'>> \in events'
    BY <1>2, <1>3, <1>4, <1>5 DEF Advances
  <2>5. \A status \in {"confirmed", "rejected"} :
          <<r, status>> \in rows' => status = ST!Status(r)' /\ order'[r].pc \in {"inserted", "done"}
    BY <1>2, <1>3, <1>4, <1>6
  <2> QED BY <2>1, <2>2, <2>3, <2>4, <2>5 DEF OrderingTold
<1>8. w.epoch # -1 => w.quantity = order[r].quantity
  BY <1>2
<1>9. OneRequest(r, w, a)
  BY <1>1, <1>2, <1>7, <1>8 DEF OneRequest, Advances
<1> QED BY <1>9, OrderingOneRequest

\* The order services' steps, and the reply of the inventory.
LEMMA OrderingServiceStep ==
  ASSUME OrderingInv, NEW r \in Requests,
         \/ \E q \in Quantities : ST!PlaceOrder(r, q)
         \/ ST!Reply(r) \/ ST!InsertOrder(r) \/ ST!SendEvent(r) \/ ST!Raises(r) \/ ST!Answer18(r)
  PROVE  OrderingInv'
<1>0. OrderingTold(r) /\ order[r] \in Seats /\ order \in [Requests -> Seats] /\ OrderingTypes
  BY DEF OrderingInv, OrderingTypes
<1>1. ST!Have \in Int
  BY <1>0, OrderingAssumption DEF ST!Have, OrderingTypes
<1>2. failures \in 0..MaxFailures /\ events \subseteq rows
  BY <1>0 DEF OrderingTypes
<1>3. ASSUME ST!Fails(r) PROVE failures' \in 0..MaxFailures
  BY <1>2, <1>3, OrderingAssumption DEF ST!Fails
<1>4. orderingAnswer \in [Requests -> {0, 201, 409, 500, 502, 503}] /\ orderingAnswer[r] \in {0, 201, 409, 500, 502, 503}
  BY <1>0 DEF OrderingTypes
<1>5. order[r].pc # "done" => orderingAnswer[r] = 0
  BY <1>0 DEF OrderingTold
<1>6. orderingAnswer' = orderingAnswer => orderingAnswer' = [orderingAnswer EXCEPT ![r] = orderingAnswer[r]]
  BY <1>4
<1>7. ASSUME NEW q \in Quantities, ST!PlaceOrder(r, q) PROVE OrderingInv'
  <2> DEFINE w == [order[r] EXCEPT !.pc = "called", !.quantity = q]
  <2>1. order' = [order EXCEPT ![r] = w] /\ order[r].pc = "none"
    BY <1>7 DEF ST!PlaceOrder
  <2>2. w \in Seats /\ w.pc = "called" /\ w.epoch = order[r].epoch /\ w.confirmed = order[r].confirmed
    BY <1>0 DEF Seats
  <2>3. w.epoch = -1
    BY <1>0, <2>1, <2>2 DEF OrderingTold
  <2> HIDE DEF w
  <2>4. order' \in [Requests -> Seats] /\ order'[r] = w
    BY <1>0, <2>1, <2>2
  <2>5. UNCHANGED <<edition, fail_mode, stock, epoch, rows, events, failures, orderingAnswer>>
    BY <1>7 DEF ST!PlaceOrder, ST!settings
  <2>6. OrderingTold(r)'
    BY <1>0, <1>5, <2>1, <2>2, <2>3, <2>4, <2>5 DEF OrderingTold, ST!Status
  <2>7. w.epoch # -1 => w.quantity = order[r].quantity
    BY <2>3
  <2>8. OneRequest(r, w, orderingAnswer[r])
    BY <1>2, <1>6, <2>1, <2>2, <2>5, <2>6, <2>7 DEF OneRequest
  <2> QED BY <1>4, <2>8, OrderingOneRequest
<1>8. order[r].remaining \in Int
  BY <1>0 DEF Seats
<1>9. ASSUME NEW to, order' = [order EXCEPT ![r].pc = to]
      PROVE  order' = [order EXCEPT ![r] = [@ EXCEPT !.pc = to, !.remaining = order[r].remaining]]
  BY <1>0, <1>9 DEF Seats
<1>10. CASE ST!Reply(r)
  <2> DEFINE x == IF edition = "02" /\ order[r].confirmed THEN order[r].remaining ELSE ST!Have
  <2>1. x \in Int
    BY <1>1, <1>8
  <2>2. order' = [order EXCEPT ![r] = [@ EXCEPT !.pc = "replied", !.remaining = x]] /\ order[r].pc = "reserved"
    BY <1>10 DEF ST!Reply
  <2>3. UNCHANGED <<edition, fail_mode, stock, epoch, rows, events, failures, orderingAnswer>>
    BY <1>10 DEF ST!Reply, ST!settings
  <2> HIDE DEF x
  <2>4. Advances(r, "replied", x, 0)
    BY <1>2, <1>5, <1>6, <2>2, <2>3 DEF Advances
  <2> QED BY <2>1, <2>2, <2>4, OrderingAdvances
<1>11. CASE ST!InsertOrder(r)
  <2>1. order[r].pc = "replied" /\ order' = [order EXCEPT ![r].pc = "inserted"] /\ edition # "18"
    BY <1>11 DEF ST!InsertOrder, ST!Move
  <2>2. UNCHANGED <<edition, fail_mode, stock, epoch, events, failures, orderingAnswer>>
        /\ rows' = rows \cup {<<r, ST!Status(r)>>}
    BY <1>11 DEF ST!InsertOrder, ST!settings
  <2>3. Advances(r, "inserted", order[r].remaining, 0)
    <3>1. order' = [order EXCEPT ![r] = [@ EXCEPT !.pc = "inserted", !.remaining = order[r].remaining]]
      BY <1>9, <2>1
    <3>2. orderingAnswer' = [orderingAnswer EXCEPT ![r] = 0]
      BY <1>5, <1>6, <2>1, <2>2
    <3>3. UNCHANGED <<edition, fail_mode, stock, epoch>> /\ failures' \in 0..MaxFailures
      BY <1>2, <2>2
    <3>4. events' \subseteq rows' /\ <<r, ST!Status(r)>> \in rows'
      BY <1>2, <2>2
    <3>5. order[r].pc \notin {"none", "inserted", "done"}
      BY <2>1
    <3>6. (0 # 0 <=> "inserted" = "done") /\ 0 # 201 /\ 0 # 409
      OBVIOUS
    <3> QED BY Zenon, <2>1, <2>2, <3>1, <3>2, <3>3, <3>4, <3>5, <3>6 DEF Advances
  <2> QED BY <1>8, <2>1, <2>3, OrderingAdvances
<1>12. CASE ST!SendEvent(r)
  <2>1. order[r].pc = "inserted" /\ order' = [order EXCEPT ![r].pc = "done"]
    BY <1>12 DEF ST!SendEvent, ST!Move
  <2>2. <<r, ST!Status(r)>> \in rows
    BY <1>0, <2>1 DEF OrderingTold
  <2>3. UNCHANGED <<edition, fail_mode, stock, epoch, rows, failures>> /\ events' = events \cup {<<r, ST!Status(r)>>}
        /\ orderingAnswer' = [orderingAnswer EXCEPT ![r] = 201]
    BY <1>12 DEF ST!SendEvent, ST!Done, ST!settings
  <2>4. Advances(r, "done", order[r].remaining, 201)
    <3>1. order' = [order EXCEPT ![r] = [@ EXCEPT !.pc = "done", !.remaining = order[r].remaining]]
      BY <1>9, <2>1
    <3>2. UNCHANGED <<edition, fail_mode, stock, epoch>> /\ failures' \in 0..MaxFailures /\ rows' = rows
      BY <1>2, <2>3
    <3>3. events' \subseteq rows' /\ <<r, ST!Status(r)>> \in events'
      BY <1>2, <2>2, <2>3
    <3>4. (201 # 0 <=> "done" = "done") /\ "done" # "inserted" /\ 201 # 409
      OBVIOUS
    <3> QED BY Zenon, <2>3, <3>1, <3>2, <3>3, <3>4 DEF Advances
  <2> QED BY <1>8, <2>1, <2>4, OrderingAdvances
<1>13. CASE ST!Raises(r)
  <2>1. order[r].pc # "none" /\ order' = [order EXCEPT ![r].pc = "done"] /\ ST!Fails(r)
    BY <1>13 DEF ST!Raises
  <2>2. UNCHANGED <<edition, fail_mode, stock, epoch, rows, events>> /\ orderingAnswer' = [orderingAnswer EXCEPT ![r] = 500]
    BY <1>13 DEF ST!Raises, ST!Done, ST!settings
  <2>3. Advances(r, "done", order[r].remaining, 500)
    <3>1. order' = [order EXCEPT ![r] = [@ EXCEPT !.pc = "done", !.remaining = order[r].remaining]]
      BY <1>9, <2>1
    <3>2. UNCHANGED <<edition, fail_mode, stock, epoch>> /\ failures' \in 0..MaxFailures /\ rows' = rows /\ events' = events
      BY <1>3, <2>1, <2>2
    <3>3. events' \subseteq rows'
      BY <1>2, <2>2
    <3>4. (500 # 0 <=> "done" = "done") /\ "done" # "inserted" /\ 500 # 201 /\ 500 # 409
      OBVIOUS
    <3> QED BY Zenon, <2>2, <3>1, <3>2, <3>3, <3>4 DEF Advances
  <2> QED BY <1>8, <2>1, <2>3, OrderingAdvances
<1>14. CASE ST!Answer18(r)
  <2>1. /\ order[r].pc # "none" /\ order' = [order EXCEPT ![r].pc = "done"]
        /\ failures' = failures \/ ST!Fails(r)
    BY <1>14 DEF ST!Answer18, ST!Move
  <2>2. PICK a \in {201, 409, 502, 503} : orderingAnswer' = [orderingAnswer EXCEPT ![r] = a] /\ (a = 409 => ~order[r].confirmed)
    BY <1>14 DEF ST!Answer18, ST!Done
  <2>3. edition = "18" /\ UNCHANGED <<edition, fail_mode, stock, epoch, rows, events>>
    BY <1>14 DEF ST!Answer18, ST!settings
  <2>4. Advances(r, "done", order[r].remaining, a)
    <3>1. order' = [order EXCEPT ![r] = [@ EXCEPT !.pc = "done", !.remaining = order[r].remaining]]
      BY <1>9, <2>1
    <3>2. UNCHANGED <<edition, fail_mode, stock, epoch>> /\ failures' \in 0..MaxFailures /\ rows' = rows /\ events' = events
      BY <1>2, <1>3, <2>1, <2>3
    <3>3. events' \subseteq rows'
      BY <1>2, <2>3
    <3>4. (a # 0 <=> "done" = "done") /\ "done" # "inserted"
      OBVIOUS
    <3> QED BY Zenon, <2>2, <2>3, <3>1, <3>2, <3>3, <3>4 DEF Advances
  <2> QED BY <1>8, <2>1, <2>4, OrderingAdvances
<1> QED BY <1>7, <1>10, <1>11, <1>12, <1>13, <1>14

\* The inventory decides: it takes the quantity, and never more than it has.
LEMMA OrderingReserveStep ==
  ASSUME OrderingInv, NEW r \in Requests,
         ST!ReserveStock02(r) \/ ST!ReserveStock11(r) \/ ST!ReserveStock18(r)
  PROVE  OrderingInv'
<1> USE DEF OrderingInv
<1>0. OrderingTold(r) /\ order[r] \in Seats /\ order \in [Requests -> Seats] /\ OrderingTypes /\ order[r].quantity \in Nat
  BY QuantityNat DEF OrderingTypes
<1>1. ST!Have \in 0..InitialStock
  BY OrderingAssumption DEF ST!Have, OrderingTypes
<1> DEFINE confirmed == order[r].quantity <= ST!Have
           w == order'[r]
<1>2. order[r].pc = "called" /\ (stock' = IF confirmed THEN ST!Have - order[r].quantity ELSE ST!Have)
  <2>1. /\ ST!Have - order[r].quantity >= 0 <=> confirmed
        /\ ST!Have >= order[r].quantity <=> confirmed
        /\ ST!Have < order[r].quantity <=> ~confirmed
    BY <1>0, <1>1
  <2> QED BY <2>1 DEF ST!ReserveStock02, ST!ReserveStock11, ST!ReserveStock18
<1>3. order' = [order EXCEPT ![r] = w]
      /\ UNCHANGED <<edition, fail_mode, epoch, rows, events, orderingAnswer, failures>>
  BY <1>0 DEF ST!ReserveStock02, ST!ReserveStock11, ST!ReserveStock18, ST!Reserved, ST!settings
<1>4. /\ w \in Seats /\ w.pc = "reserved" /\ (w.confirmed <=> confirmed)
      /\ w.epoch = (IF confirmed THEN epoch ELSE -1) /\ w.quantity = order[r].quantity
  <2>1. (IF confirmed THEN epoch ELSE -1) \in -1..MaxRestarts
    <3>1. epoch \in 0..MaxRestarts /\ MaxRestarts \in Nat
      BY <1>0, OrderingAssumption DEF OrderingTypes
    <3> QED BY ONLY <3>1
  <2>2. ST!Have - order[r].quantity \in Int
    BY <1>0, <1>1
  <2>3. CASE ST!ReserveStock02(r)
    <3>1. ST!Have - order[r].quantity >= 0 <=> confirmed
      BY <1>0, <1>1
    <3>2. w = [order[r] EXCEPT !.pc = "reserved", !.confirmed = ST!Have - order[r].quantity >= 0,
                 !.remaining = ST!Have - order[r].quantity, !.epoch = IF ST!Have - order[r].quantity >= 0 THEN epoch ELSE -1]
      BY <1>0, <2>3 DEF ST!ReserveStock02, ST!Reserved
    <3>3. (ST!Have - order[r].quantity >= 0) \in BOOLEAN /\ (IF ST!Have - order[r].quantity >= 0 THEN epoch ELSE -1) \in -1..MaxRestarts
      BY <2>1, <3>1
    <3>4. w \in Seats
      BY <1>0, <2>2, <3>2, <3>3 DEF Seats
    <3>5. w.pc = "reserved" /\ w.quantity = order[r].quantity /\ w.confirmed = (ST!Have - order[r].quantity >= 0)
          /\ w.epoch = IF ST!Have - order[r].quantity >= 0 THEN epoch ELSE -1
      BY <1>0, <3>2 DEF Seats
    <3> HIDE DEF w, confirmed
    <3> QED BY <3>1, <3>4, <3>5
  <2>4. CASE ST!ReserveStock11(r)
    <3>1. ST!Have >= order[r].quantity <=> confirmed
      BY <1>0, <1>1
    <3>2. w = [order[r] EXCEPT !.pc = "reserved", !.confirmed = ST!Have >= order[r].quantity,
                 !.remaining = ST!Have - order[r].quantity, !.epoch = IF ST!Have >= order[r].quantity THEN epoch ELSE -1]
      BY <1>0, <2>4 DEF ST!ReserveStock11, ST!Reserved
    <3>3. (ST!Have >= order[r].quantity) \in BOOLEAN /\ (IF ST!Have >= order[r].quantity THEN epoch ELSE -1) \in -1..MaxRestarts
      BY <2>1, <3>1
    <3>4. w \in Seats
      BY <1>0, <2>2, <3>2, <3>3 DEF Seats
    <3>5. w.pc = "reserved" /\ w.quantity = order[r].quantity /\ w.confirmed = (ST!Have >= order[r].quantity)
          /\ w.epoch = IF ST!Have >= order[r].quantity THEN epoch ELSE -1
      BY <1>0, <3>2 DEF Seats
    <3> HIDE DEF w, confirmed
    <3> QED BY <3>1, <3>4, <3>5
  <2>5. CASE ST!ReserveStock18(r)
    <3>1. ST!Have < order[r].quantity <=> ~confirmed
      BY <1>0, <1>1
    <3>2. \E c \in BOOLEAN : /\ c <=> ~(ST!Have < order[r].quantity)
                             /\ w = [order[r] EXCEPT !.pc = "reserved", !.confirmed = c,
                                       !.remaining = ST!Have - order[r].quantity, !.epoch = IF c THEN epoch ELSE -1]
      BY <1>0, <2>5 DEF ST!ReserveStock18, ST!Reserved
    <3> HIDE DEF w, confirmed
    <3> QED BY <1>0, <2>1, <2>2, <3>1, <3>2 DEF Seats
  <2> QED BY <2>3, <2>4, <2>5
<1> HIDE DEF w
<1>5. order' \in [Requests -> Seats] /\ order'[r] = w /\ \A q \in Requests : q # r => order'[q] = order[q]
  BY <1>0, <1>3, <1>4
<1>6. order[r].epoch = -1 /\ orderingAnswer[r] = 0 /\ epoch # -1 /\ epoch \in Nat
  <2>1. epoch \in 0..MaxRestarts /\ MaxRestarts \in Nat
    BY <1>0, OrderingAssumption DEF OrderingTypes
  <2>2. epoch # -1 /\ epoch \in Nat
    BY ONLY <2>1
  <2>3. order[r].epoch = -1 /\ orderingAnswer[r] = 0
    BY <1>0, <1>2 DEF OrderingTold
  <2> QED BY <2>2, <2>3
<1>7. stock' \in 0..InitialStock
  BY <1>0, <1>1, <1>2, OrderingAssumption
<1>8. OrderingTypes'
  BY <1>3, <1>5, <1>7 DEF OrderingTypes
<1>9. OrderingTold(r)'
  BY <1>0, <1>2, <1>2, <1>3, <1>4, <1>5, <1>6 DEF OrderingTold
<1>10. ASSUME NEW q \in Requests, q # r PROVE OrderingTold(q)'
  BY <1>3, <1>5, <1>10 DEF OrderingTold, ST!Status
<1>11. ASSUME NEW e \in 0..epoch, e # epoch \/ ~confirmed PROVE Total(order', e) = Total(order, e)
  <2>1. \A q \in Requests : /\ order'[q].epoch = e <=> order[q].epoch = e
                            /\ order[q].epoch = e => order'[q].quantity = order[q].quantity
    BY <1>4, <1>5, <1>6, <1>11
  <2> QED BY <1>0, <2>1, TotalKept
<1>12. confirmed => Total(order', epoch) = Total(order, epoch) + order[r].quantity
  BY <1>0, <1>4, <1>5, <1>6, TotalTaken
<1>13. Total(order, epoch) \in Nat /\ ST!Have = InitialStock - Total(order, epoch)
  BY <1>0, TotalNat, SameTaken DEF ST!NeverOversold
<1>14. ST!Have' = stock'
  BY <1>7, OrderingAssumption DEF ST!Have
<1>15. ST!Have' = InitialStock - Total(order', epoch) /\ Total(order', epoch) <= InitialStock
  <2>1. CASE confirmed
    BY <1>0, <1>1, <1>2, <1>12, <1>13, <1>14, <2>1, OrderingAssumption
  <2>2. CASE ~confirmed
    BY <1>1, <1>2, <1>6, <1>11, <1>13, <1>14, <2>2, OrderingAssumption
  <2> QED BY <2>1, <2>2
<1>16. \A e \in 0..epoch : Total(order', e) <= InitialStock
  <2> SUFFICES ASSUME NEW e \in 0..epoch, e # epoch PROVE Total(order', e) <= InitialStock
    BY <1>15
  <2> QED BY <1>11, SameTaken DEF ST!NeverOversold
<1>17. ST!NeverOversold'
  BY <1>3, <1>15, <1>16, SameTaken DEF ST!NeverOversold
<1> QED BY <1>8, <1>9, <1>10, <1>17

\* A restart: the stock is as at the beginning, and a new count starts at 0.
LEMMA OrderingRestartStep == ASSUME OrderingInv, ST!Restart PROVE OrderingInv'
<1> USE DEF OrderingInv
<1>1. /\ epoch < MaxRestarts /\ epoch' = epoch + 1 /\ stock' = -1
      /\ UNCHANGED <<edition, fail_mode, rows, events, orderingAnswer, failures>>
      /\ order' = [r \in Requests |-> IF order[r].pc = "reserved" THEN [order[r] EXCEPT !.pc = "broken"] ELSE order[r]]
  BY DEF ST!Restart, ST!settings
<1>2. ASSUME NEW r \in Requests
      PROVE  /\ order'[r] \in Seats /\ order'[r].epoch = order[r].epoch
             /\ order'[r].quantity = order[r].quantity /\ order'[r].confirmed = order[r].confirmed
             /\ order'[r].pc = IF order[r].pc = "reserved" THEN "broken" ELSE order[r].pc
  <2>1. order[r] \in Seats
    BY DEF OrderingTypes
  <2> QED BY <1>1, <2>1 DEF Seats
<1>3. OrderingTypes'
  <2>1. order' \in [Requests -> Seats]
    BY <1>1, <1>2
  <2> QED BY <1>1, <2>1, OrderingAssumption DEF OrderingTypes
<1>4. epoch \in Nat /\ epoch + 1 # -1 /\ MaxRestarts \in Nat
  BY OrderingAssumption DEF OrderingTypes
<1>5. ASSUME NEW r \in Requests PROVE OrderingTold(r)' /\ order'[r].epoch # epoch + 1
  <2>1. order[r].epoch \in Int /\ order[r].epoch <= epoch
    <3>1. order[r] \in Seats
      BY DEF OrderingTypes
    <3>2. order[r].epoch \in -1..MaxRestarts
      BY <3>1 DEF Seats
    <3>3. order[r].epoch \in Int
      BY ONLY <3>2, OrderingAssumption
    <3> QED BY <3>3 DEF OrderingTold
  <2>2. ST!Status(r)' = ST!Status(r)
    BY <1>2 DEF ST!Status
  <2>3. order'[r].epoch <= epoch' /\ order'[r].epoch # epoch + 1
    BY <1>1, <1>2, <1>4, <2>1
  <2>4. OrderingTold(r)
    OBVIOUS
  <2> QED BY <1>1, <1>2, <2>2, <2>3, <2>4 DEF OrderingTold
<1>6. Total(order', epoch + 1) = 0
  BY <1>5, NothingTaken
<1>7. \A e \in 0..epoch : Total(order', e) = Total(order, e)
  BY <1>2, TotalKept
<1>8. \A e \in 0..epoch : Total(order, e) <= InitialStock
  BY SameTaken DEF ST!NeverOversold
<1>9. \A e \in 0..epoch' : Total(order', e) <= InitialStock
  <2> SUFFICES ASSUME NEW e \in 0..epoch + 1 PROVE Total(order', e) <= InitialStock
    BY <1>1
  <2>1. CASE e = epoch + 1
    BY <1>6, <2>1, OrderingAssumption
  <2>2. CASE e # epoch + 1
    <3>1. e \in 0..epoch
      BY <1>4, <2>2
    <3> QED BY <1>7, <1>8, <3>1
  <2> QED BY <2>1, <2>2
<1>10. ST!Have' = InitialStock - Total(order', epoch')
  BY <1>1, <1>6, OrderingAssumption DEF ST!Have
<1>11. ST!NeverOversold'
  BY <1>9, <1>10, SameTaken DEF ST!NeverOversold
<1> QED BY <1>3, <1>5, <1>11

LEMMA OrderingSteps == OrderingInv /\ [ST!Next]_ordering => OrderingInv'
<1> SUFFICES ASSUME OrderingInv, [ST!Next]_ordering PROVE OrderingInv'
  OBVIOUS
<1>1. CASE UNCHANGED ordering
  <2>1. ST!NeverOversold'
    <3>1. \A e : Total(order', e) = Total(order, e)
      BY <1>1 DEF ordering
    <3> QED BY <1>1, <3>1, SameTaken DEF ordering, OrderingInv, ST!NeverOversold, ST!Have
  <2> QED BY <1>1, <2>1 DEF ordering, OrderingInv, OrderingTypes, OrderingTold, ST!Status
<1>2. CASE ST!Next
  BY <1>2, OrderingServiceStep, OrderingReserveStep, OrderingRestartStep DEF ST!Next
<1> QED BY <1>1, <1>2

THEOREM OrderingInvariance == Spec => []OrderingInv
<1>1. Init => OrderingInv
  BY Behaviours, OrderingInitially
<1>2. OrderingInv /\ [Next]_vars => OrderingInv'
  BY Behaviours, OrderingSteps
<1> QED BY <1>1, <1>2, PTL DEF Spec

\* An inventory process gives away what leaves its stock and no more than it
\* began with, however its threads interleave and however often it restarts;
\* what was taken belongs to an order, an open request or a reported failure.
THEOREM StockIsAccountedFor == Spec => []StockAccountedFor
<1>1. OrderingInv => StockAccountedFor
  <2> SUFFICES ASSUME OrderingInv PROVE ST!StockAccountedFor
    BY DEF StockAccountedFor
  <2> USE DEF OrderingInv
  <2>1. ST!TakenStockAccountedFor
    <3> SUFFICES ASSUME NEW r \in Requests
                 PROVE  /\ order[r].epoch # -1 =>
                             \/ <<r, "confirmed">> \in rows \/ orderingAnswer[r] \in {0, 500, 502, 503}
                             \/ edition = "18" /\ orderingAnswer[r] = 201
                        /\ orderingAnswer[r] = 409 => order[r].epoch = -1
                        /\ <<r, "confirmed">> \in rows => order[r].epoch # -1
      BY DEF ST!TakenStockAccountedFor
    <3>1. OrderingTold(r) /\ events \subseteq rows /\ orderingAnswer[r] \in {0, 201, 409, 500, 502, 503}
      BY DEF OrderingTypes
    <3> QED BY <3>1 DEF OrderingTold, ST!Status
  <2>2. ST!EventsHaveRows
    BY DEF ST!EventsHaveRows, OrderingTypes, OrderingTold
  <2> QED BY <2>1, <2>2 DEF ST!StockAccountedFor
<1> QED BY <1>1, OrderingInvariance, PTL

LEMMA OrderingTyped == OrderingInv => ST!TypeOK
<1> SUFFICES ASSUME OrderingInv PROVE ST!TypeOK
  OBVIOUS
<1>1. OrderingTypes
  BY DEF OrderingInv
<1>2. \A r \in Requests : order[r] \in Seats /\ orderingAnswer[r] \in {0, 201, 409, 500, 502, 503}
  BY <1>1 DEF OrderingTypes
<1>3. \A pair \in rows \cup events : pair[1] \in Requests /\ pair[2] \in {"confirmed", "rejected"}
  BY <1>1 DEF OrderingTypes
<1> QED BY <1>1, <1>2, <1>3 DEF ST!TypeOK, OrderingTypes, Seats

-----------------------------------------------------------------------------
(* Example 26: the protections of the edge service.                          *)

EdgeKinds == {"none", "no-timeout", "timeout", "retry", "breaker", "deadline", "bulkhead"}
EdgeAnswers ==
  {"", "circuit_open", "insufficient", "429", "ok", "retry-exhausted", "500", "rejected", "timeout", "live", "fallback"}
EdgeCalls ==
  [kind : EdgeKinds, pc : {"idle", "call", "done"}, attempts : 0..MaxAttempts,
   entered : {"closed", "open", "half-open"}, budget : EG!Budgets, answer : EdgeAnswers]
EdgeBreaker == [state : {"closed", "open", "half-open"}, fail_counter : 0..FailMax, successes : 0..Successes]

EdgeInv ==
  /\ mode \in EG!Modes /\ cooled \in BOOLEAN
  /\ breaker \in EdgeBreaker
  /\ edgeRequest \in [Calls -> EdgeCalls]
  /\ EG!BulkheadHolds

LEMMA EdgeCardinality == \A S : EG!Cardinality(S) = Cardinality(S)
BY DEF EG!Cardinality, Cardinality

LEMMA EdgeBounds == 0 \in 0..FailMax /\ 0 \in 0..Successes /\ 0 \in 0..MaxAttempts /\ 1 \in 0..MaxAttempts
BY EdgeAssumption

LEMMA EdgeInitially == EG!Init => EdgeInv
<1> SUFFICES ASSUME EG!Init PROVE EdgeInv
  OBVIOUS
<1>1. breaker \in EdgeBreaker /\ mode \in EG!Modes /\ cooled \in BOOLEAN
  BY EdgeBounds DEF EG!Init, EdgeBreaker, EG!Modes
<1>2. EG!Idle \in EdgeCalls /\ EG!Idle.pc = "idle"
  BY EdgeBounds DEF EG!Idle, EdgeCalls, EdgeKinds, EdgeAnswers, EG!Budgets
<1>3. edgeRequest = [r \in Calls |-> EG!Idle]
  BY DEF EG!Init
<1>4. edgeRequest \in [Calls -> EdgeCalls]
  BY <1>2, <1>3
<1>5. EG!Calling("bulkhead") = {}
  BY <1>2, <1>3 DEF EG!Calling
<1>6. EG!BulkheadHolds
  BY <1>5, EdgeAssumption, EdgeCardinality, FS_EmptySet DEF EG!BulkheadHolds
<1> QED BY <1>1, <1>4, <1>6 DEF EdgeInv

\* The endpoints give a request its first attempt, or its answer at once, and
\* let it into the bulkhead only where there is room.
LEMMA EdgeArriveStep ==
  ASSUME EdgeInv, NEW r \in Calls, NEW kind \in Kinds, EG!Arrive(r, kind)
  PROVE  EdgeInv'
<1> DEFINE held == EG!Calling("bulkhead")
<1>1. held \subseteq Calls /\ IsFiniteSet(held) /\ Cardinality(held) \in Nat /\ Cardinality(held) <= Bulkhead /\ r \notin held
  <2>1. held \subseteq Calls /\ r \notin held
    BY DEF EG!Arrive, EG!Calling
  <2>2. Cardinality(held) <= Bulkhead
    BY EdgeCardinality DEF EdgeInv, EG!BulkheadHolds
  <2> QED BY <2>1, <2>2, EdgeAssumption, FS_Subset, FS_CardinalityType
<1>2. breaker' \in EdgeBreaker /\ mode' \in EG!Modes /\ cooled' \in BOOLEAN
  <2>1. mode' = mode /\ cooled' = cooled
    BY DEF EG!Arrive, EG!NoProtection, EG!WithBreaker, EG!WithDeadline, EG!WithBulkhead
  <2>2. breaker' = breaker \/ breaker' = [breaker EXCEPT !.state = "half-open", !.successes = 0]
    BY DEF EG!Arrive, EG!NoProtection, EG!WithBreaker, EG!WithDeadline, EG!WithBulkhead
  <2>3. breaker \in EdgeBreaker /\ mode \in EG!Modes /\ cooled \in BOOLEAN
    BY DEF EdgeInv
  <2>4. breaker' \in EdgeBreaker
    BY <2>2, <2>3, EdgeBounds DEF EdgeBreaker
  <2> QED BY <2>1, <2>3, <2>4
<1>3. ASSUME NEW k \in EdgeKinds, NEW entered \in {"closed", "open", "half-open"}, NEW budget \in EG!Budgets, EG!Call(r, k, entered, budget)
      PROVE  edgeRequest' \in [Calls -> EdgeCalls] /\ edgeRequest'[r].kind = k
  <2> DEFINE w == [EG!Idle EXCEPT !.kind = k, !.pc = "call", !.attempts = 1, !.entered = entered, !.budget = budget]
  <2>1. w \in EdgeCalls /\ w.kind = k
    BY EdgeBounds DEF EG!Idle, EdgeCalls, EdgeAnswers, EdgeKinds
  <2>2. edgeRequest' = [edgeRequest EXCEPT ![r] = w]
    BY <1>3 DEF EG!Call
  <2> HIDE DEF w
  <2> QED BY <2>1, <2>2 DEF EdgeInv
<1>4. ASSUME NEW k \in EdgeKinds, NEW answer \in EdgeAnswers, EG!Answer(r, k, answer)
      PROVE  edgeRequest' \in [Calls -> EdgeCalls] /\ edgeRequest'[r].pc = "done"
  <2> DEFINE w == [edgeRequest[r] EXCEPT !.kind = k, !.pc = "done", !.answer = answer]
  <2>1. edgeRequest[r] \in EdgeCalls
    BY DEF EdgeInv
  <2>2. w \in EdgeCalls /\ w.pc = "done"
    BY <2>1 DEF EdgeCalls
  <2>3. edgeRequest' = [edgeRequest EXCEPT ![r] = w]
    BY <1>4 DEF EG!Answer
  <2> HIDE DEF w
  <2> QED BY <2>2, <2>3 DEF EdgeInv
<1>5. \A q \in Calls \ {r} : edgeRequest'[q] = edgeRequest[q]
  BY DEF EG!Arrive, EG!NoProtection, EG!WithBreaker, EG!WithDeadline, EG!WithBulkhead, EG!Call, EG!Answer, EdgeInv
<1>6. /\ edgeRequest' \in [Calls -> EdgeCalls]
      /\ (edgeRequest'[r].kind = "bulkhead" /\ edgeRequest'[r].pc # "done") => Cardinality(held) # Bulkhead
  <2>1. breaker.state \in {"closed", "open", "half-open"}
    BY DEF EdgeInv, EdgeBreaker
  <2>2. CASE EG!NoProtection(r, kind)
    BY <1>3, <2>2 DEF EG!NoProtection, EdgeKinds, EG!Budgets
  <2>3. CASE EG!WithBreaker(r)
    BY <1>3, <1>4, <2>1, <2>3 DEF EG!WithBreaker, EdgeKinds, EdgeAnswers, EG!Budgets
  <2>4. CASE EG!WithDeadline(r)
    BY <1>3, <1>4, <2>4 DEF EG!WithDeadline, EdgeKinds, EdgeAnswers
  <2>5. CASE EG!WithBulkhead(r)
    BY <1>3, <1>4, <2>5, EdgeCardinality DEF EG!WithBulkhead, EdgeKinds, EdgeAnswers, EG!Budgets
  <2> QED BY <2>2, <2>3, <2>4, <2>5 DEF EG!Arrive
<1>7. EG!BulkheadHolds'
  <2>1. EG!Calling("bulkhead")' \subseteq held \cup {r}
    BY <1>5 DEF EG!Calling
  <2>2. Cardinality(EG!Calling("bulkhead")') <= Bulkhead
    <3>1. CASE r \in EG!Calling("bulkhead")'
      <4>1. Cardinality(held) # Bulkhead
        BY <1>6, <3>1 DEF EG!Calling
      <4>2. IsFiniteSet(held \cup {r}) /\ Cardinality(held \cup {r}) = Cardinality(held) + 1
        BY <1>1, FS_AddElement
      <4>3. Cardinality(EG!Calling("bulkhead")') <= Cardinality(held \cup {r}) /\ Cardinality(EG!Calling("bulkhead")') \in Nat
        BY <2>1, <4>2, FS_Subset, FS_CardinalityType
      <4> QED BY <1>1, <4>1, <4>2, <4>3, EdgeAssumption
    <3>2. CASE r \notin EG!Calling("bulkhead")'
      <4>1. EG!Calling("bulkhead")' \subseteq held
        BY <2>1, <3>2
      <4>2. Cardinality(EG!Calling("bulkhead")') <= Cardinality(held) /\ Cardinality(EG!Calling("bulkhead")') \in Nat
        BY <1>1, <4>1, FS_Subset, FS_CardinalityType
      <4> QED BY <1>1, <4>2, EdgeAssumption
    <3> QED BY <3>1, <3>2
  <2> QED BY <2>2, EdgeCardinality DEF EG!BulkheadHolds
<1> QED BY <1>2, <1>6, <1>7 DEF EdgeInv

\* Other steps let nobody into the bulkhead.
LEMMA EdgeBulkheadKeeps ==
  ASSUME EdgeInv, EG!Calling("bulkhead")' \subseteq EG!Calling("bulkhead")
  PROVE  EG!BulkheadHolds'
<1> DEFINE held == EG!Calling("bulkhead")
           holds == EG!Calling("bulkhead")'
<1>1. IsFiniteSet(held) /\ Cardinality(held) <= Bulkhead
  <2>1. held \subseteq Calls
    BY DEF EG!Calling
  <2> QED BY <2>1, EdgeAssumption, EdgeCardinality, FS_Subset DEF EdgeInv, EG!BulkheadHolds
<1>2. Cardinality(holds) <= Cardinality(held) /\ Cardinality(holds) \in Nat /\ Cardinality(held) \in Nat
  BY <1>1, FS_Subset, FS_CardinalityType
<1>3. Cardinality(holds) <= Bulkhead
  BY <1>1, <1>2, EdgeAssumption
<1> QED BY <1>3, EdgeCardinality DEF EG!BulkheadHolds

LEMMA EdgeResultStep == ASSUME EdgeInv, NEW r \in Calls, EG!Result(r) PROVE EdgeInv'
<1>0. edgeRequest[r] \in EdgeCalls /\ edgeRequest[r].kind \in EdgeKinds /\ edgeRequest[r].entered \in {"closed", "open", "half-open"}
  BY DEF EdgeInv, EdgeCalls
<1>1. PICK outcome \in EG!Outcomes(r) :
        CASE edgeRequest[r].kind = "retry" -> EG!Retry(r, outcome) /\ UNCHANGED <<breaker, cooled>>
          [] edgeRequest[r].kind = "breaker" -> EG!BreakerResult(r, outcome)
          [] OTHER -> EG!Answer(r, edgeRequest[r].kind, outcome) /\ UNCHANGED <<breaker, cooled>>
  BY DEF EG!Result
<1>2. outcome \in EdgeAnswers
  BY DEF EG!Outcomes, EG!Process, EG!Modes, EdgeInv, EdgeAnswers
<1>3. ASSUME NEW k \in EdgeKinds, NEW answer \in EdgeAnswers, EG!Answer(r, k, answer)
      PROVE  edgeRequest' \in [Calls -> EdgeCalls] /\ EG!Calling("bulkhead")' \subseteq EG!Calling("bulkhead")
  <2> DEFINE w == [edgeRequest[r] EXCEPT !.kind = k, !.pc = "done", !.answer = answer]
  <2>1. w \in EdgeCalls /\ w.pc = "done"
    BY <1>0 DEF EdgeCalls
  <2>2. edgeRequest' = [edgeRequest EXCEPT ![r] = w]
    BY <1>3 DEF EG!Answer
  <2> HIDE DEF w
  <2> QED BY <2>1, <2>2 DEF EdgeInv, EG!Calling
<1>4. ASSUME edgeRequest[r].attempts # MaxAttempts, edgeRequest' = [edgeRequest EXCEPT ![r].attempts = @ + 1]
      PROVE  edgeRequest' \in [Calls -> EdgeCalls] /\ EG!Calling("bulkhead")' \subseteq EG!Calling("bulkhead")
  <2> DEFINE w == [edgeRequest[r] EXCEPT !.attempts = @ + 1]
  <2>1. edgeRequest[r].attempts + 1 \in 0..MaxAttempts
    BY <1>0, <1>4, EdgeAssumption DEF EdgeCalls
  <2>2. w \in EdgeCalls /\ w.kind = edgeRequest[r].kind /\ w.pc = edgeRequest[r].pc
    BY <1>0, <2>1 DEF EdgeCalls
  <2>3. edgeRequest' = [edgeRequest EXCEPT ![r] = w]
    BY <1>4
  <2> HIDE DEF w
  <2> QED BY <2>2, <2>3 DEF EdgeInv, EG!Calling
<1>5. edgeRequest' \in [Calls -> EdgeCalls] /\ EG!Calling("bulkhead")' \subseteq EG!Calling("bulkhead")
  <2>1. CASE edgeRequest[r].kind = "retry"
    <3>1. EG!Retry(r, outcome)
      BY <1>1, <2>1
    <3> QED BY <1>3, <1>4, <3>1 DEF EG!Retry, EdgeKinds, EdgeAnswers
  <2>2. CASE edgeRequest[r].kind = "breaker"
    <3>1. EG!Answer(r, "breaker", IF outcome = "ok" THEN "live" ELSE "fallback")
      BY <1>1, <2>2 DEF EG!BreakerResult
    <3> QED BY <1>3, <3>1 DEF EdgeKinds, EdgeAnswers
  <2>3. CASE edgeRequest[r].kind \notin {"retry", "breaker"}
    <3>1. EG!Answer(r, edgeRequest[r].kind, outcome)
      BY <1>1, <2>3
    <3> QED BY <1>0, <1>2, <1>3, <3>1
  <2> QED BY <2>1, <2>2, <2>3
<1>6. breaker' \in EdgeBreaker /\ cooled' \in BOOLEAN
  <2>1. breaker \in EdgeBreaker /\ cooled \in BOOLEAN
    BY DEF EdgeInv
  <2>2. ASSUME NEW entered, EG!Failed(entered) PROVE breaker' \in EdgeBreaker /\ cooled' \in BOOLEAN
    <3> DEFINE counted == [breaker EXCEPT !.fail_counter = IF @ < FailMax THEN @ + 1 ELSE @]
    <3>1. breaker.fail_counter \in 0..FailMax
      BY <2>1 DEF EdgeBreaker
    <3>2. (IF breaker.fail_counter < FailMax THEN breaker.fail_counter + 1 ELSE breaker.fail_counter) \in 0..FailMax
      BY <3>1, EdgeAssumption
    <3>3. counted \in EdgeBreaker
      BY <2>1, <3>2 DEF EdgeBreaker
    <3>4. (breaker' = [counted EXCEPT !.state = "open"] /\ cooled' = FALSE) \/ (breaker' = counted /\ cooled' = cooled)
      BY <2>2 DEF EG!Failed
    <3> HIDE DEF counted
    <3> QED BY <2>1, <3>3, <3>4 DEF EdgeBreaker
  <2>3. ASSUME NEW entered, EG!Succeeded(entered) PROVE breaker' \in EdgeBreaker /\ cooled' \in BOOLEAN
    <3>1. breaker.successes \in 0..Successes
      BY <2>1 DEF EdgeBreaker
    <3>2. ~(breaker.successes + 1 >= Successes) => breaker.successes + 1 \in 0..Successes
      BY <3>1, EdgeAssumption
    <3>3. CASE entered = "half-open" /\ breaker.successes + 1 >= Successes
      BY <2>1, <2>3, <3>3, EdgeBounds DEF EG!Succeeded, EdgeBreaker
    <3>4. CASE ~(entered = "half-open" /\ breaker.successes + 1 >= Successes)
      <4>1. (IF entered = "half-open" THEN breaker.successes + 1 ELSE breaker.successes) \in 0..Successes
        BY <3>1, <3>2, <3>4
      <4>2. breaker' = [breaker EXCEPT !.fail_counter = 0, !.successes = IF entered = "half-open" THEN @ + 1 ELSE @] /\ cooled' = cooled
        BY <2>3, <3>4 DEF EG!Succeeded
      <4>3. breaker' \in EdgeBreaker
        BY <2>1, <4>1, <4>2, EdgeBounds DEF EdgeBreaker
      <4> QED BY <2>1, <4>2, <4>3
    <3> QED BY <3>3, <3>4
  <2>4. UNCHANGED <<breaker, cooled>> \/ (\E entered : EG!Failed(entered) \/ EG!Succeeded(entered))
    BY <1>1 DEF EG!BreakerResult
  <2> QED BY <2>1, <2>2, <2>3, <2>4
<1>7. mode' \in EG!Modes
  BY DEF EG!Result, EdgeInv
<1> QED BY <1>5, <1>6, <1>7, EdgeBulkheadKeeps DEF EdgeInv

LEMMA EdgeSteps == EdgeInv /\ [EG!Next]_edge => EdgeInv'
<1> SUFFICES ASSUME EdgeInv, [EG!Next]_edge PROVE EdgeInv'
  OBVIOUS
<1>1. ASSUME UNCHANGED edgeRequest PROVE EG!Calling("bulkhead")' \subseteq EG!Calling("bulkhead")
  BY <1>1 DEF EG!Calling
<1>2. CASE UNCHANGED edge
  BY <1>1, <1>2, EdgeBulkheadKeeps DEF edge, EdgeInv
<1>3. ASSUME NEW r \in Calls, EG!Leave(r) PROVE EdgeInv'
  <2>1. EG!Idle \in EdgeCalls /\ EG!Idle.pc = "idle"
    BY EdgeBounds DEF EG!Idle, EdgeCalls, EdgeKinds, EdgeAnswers, EG!Budgets
  <2>2. edgeRequest' = [edgeRequest EXCEPT ![r] = EG!Idle] /\ UNCHANGED <<mode, breaker, cooled>>
    BY <1>3 DEF EG!Leave
  <2>3. EG!Calling("bulkhead")' \subseteq EG!Calling("bulkhead")
    BY <2>1, <2>2 DEF EG!Calling, EdgeInv
  <2> QED BY <2>1, <2>2, <2>3, EdgeBulkheadKeeps DEF EdgeInv
<1>4. ASSUME NEW m \in EG!Modes, EG!SetMode(m) PROVE EdgeInv'
  BY <1>1, <1>4, EdgeBulkheadKeeps DEF EG!SetMode, EdgeInv
<1>5. CASE EG!Cool
  BY <1>1, <1>5, EdgeBulkheadKeeps DEF EG!Cool, EdgeInv
<1> QED BY <1>2, <1>3, <1>4, <1>5, EdgeArriveStep, EdgeResultStep DEF EG!Next

THEOREM EdgeInvariance == Spec => []EdgeInv
<1>1. Init => EdgeInv
  BY Behaviours, EdgeInitially
<1>2. EdgeInv /\ [Next]_vars => EdgeInv'
  BY Behaviours, EdgeSteps
<1> QED BY <1>1, <1>2, PTL DEF Spec

LEMMA EdgeTyped == EdgeInv => EG!TypeOK
BY DEF EdgeInv, EdgeBreaker, EdgeCalls, EG!TypeOK

-----------------------------------------------------------------------------
(* Example 12: a bulkhead for each tenant.                                   *)

TenantOrder == [tenant : Tenants, identity : Callers \cup {NoIdentity}]
TenantCalls ==
  [pc : {"idle", "processing", "201", "403", "429", "lost"}, tenant : Tenants \cup {"none"},
   identity : Callers \cup {NoIdentity}, id : Nat]
BulkheadsTypes ==
  /\ bulkheadsIn_flight \in [Tenants -> Int] /\ bulkheadsOrders \in Seq(TenantOrder)
  /\ bulkheadsRequest \in [Requests -> TenantCalls]

\* A request works for a tenant, and what it has stored is its own.
BulkheadsTold(r) ==
  /\ bulkheadsRequest[r].pc = "processing" => bulkheadsRequest[r].tenant \in Tenants
  /\ bulkheadsRequest[r].pc = "201" =>
       /\ bulkheadsRequest[r].id \in 1..Len(bulkheadsOrders)
       /\ bulkheadsOrders[bulkheadsRequest[r].id] =
            [tenant |-> bulkheadsRequest[r].tenant, identity |-> bulkheadsRequest[r].identity]
BulkheadsCounted(t) ==
  bulkheadsIn_flight[t] = Cardinality(TO!Holding(t)) /\ Cardinality(TO!Holding(t)) <= BulkheadLimit

BulkheadsInv ==
  /\ BulkheadsTypes
  /\ \A r \in Requests : BulkheadsTold(r)
  /\ \A t \in Tenants : BulkheadsCounted(t)

LEMMA BulkheadsCardinality == \A S : TO!Cardinality(S) = Cardinality(S)
BY DEF TO!Cardinality, Cardinality

LEMMA HoldingFinite == \A t : IsFiniteSet(TO!Holding(t)) /\ Cardinality(TO!Holding(t)) \in Nat
<1>1. \A t : TO!Holding(t) \subseteq Requests
  BY DEF TO!Holding
<1> QED BY <1>1, BulkheadsAssumption, FS_Subset, FS_CardinalityType

LEMMA BulkheadsInitially == TO!Init => BulkheadsInv
<1> SUFFICES ASSUME TO!Init PROVE BulkheadsInv
  OBVIOUS
<1>1. BulkheadsTypes
  BY DEF TO!Init, BulkheadsTypes, TenantCalls
<1>2. \A r \in Requests : BulkheadsTold(r)
  BY DEF TO!Init, BulkheadsTold
<1>3. \A t \in Tenants : TO!Holding(t) = {}
  BY DEF TO!Init, TO!Holding
<1>4. \A t \in Tenants : BulkheadsCounted(t)
  BY <1>3, FS_EmptySet, BulkheadsAssumption DEF TO!Init, BulkheadsCounted
<1> QED BY <1>1, <1>2, <1>4 DEF BulkheadsInv

\* A request that comes or goes, with a permit of its tenant or without.
LEMMA BulkheadsHeld ==
  ASSUME BulkheadsInv, NEW r \in Requests, NEW w \in TenantCalls, NEW t \in Tenants,
         bulkheadsRequest' = [bulkheadsRequest EXCEPT ![r] = w]
  PROVE  /\ w.pc = "processing" /\ w.tenant = t /\ r \notin TO!Holding(t) =>
              TO!Holding(t)' = TO!Holding(t) \cup {r}
         /\ ~(w.pc = "processing" /\ w.tenant = t) => TO!Holding(t)' = TO!Holding(t) \ {r}
BY DEF BulkheadsInv, BulkheadsTypes, TO!Holding

LEMMA BulkheadsRefuseStep ==
  ASSUME BulkheadsInv, NEW r \in Requests, NEW t \in Tenants, NEW c \in Callers \cup {NoIdentity},
         TO!TrustSidecar(r, t, c)
  PROVE  BulkheadsInv'
<1>1. bulkheadsRequest[r].pc = "idle" /\ bulkheadsOrders' = bulkheadsOrders
  BY DEF TO!TrustSidecar
<1>2. PICK pc \in {"403", "429", "processing"} :
        /\ bulkheadsRequest' = [bulkheadsRequest EXCEPT ![r] = [pc |-> pc, tenant |-> t, identity |-> c, id |-> 0]]
        /\ pc # "processing" => bulkheadsIn_flight' = bulkheadsIn_flight
        /\ pc = "processing" => /\ bulkheadsIn_flight' = [bulkheadsIn_flight EXCEPT ![t] = @ + 1]
                                /\ Cardinality(TO!Holding(t)) # BulkheadLimit
  BY BulkheadsCardinality DEF TO!TrustSidecar, TO!CreateOrder, TO!Begin
<1> DEFINE w == [pc |-> pc, tenant |-> t, identity |-> c, id |-> 0]
<1>3. w \in TenantCalls /\ w.pc = pc /\ w.tenant = t
  BY DEF TenantCalls
<1>4. bulkheadsRequest' = [bulkheadsRequest EXCEPT ![r] = w]
  BY <1>2
<1> HIDE DEF w
<1>5. BulkheadsTypes'
  BY <1>1, <1>2, <1>3, <1>4 DEF BulkheadsInv, BulkheadsTypes
<1>6. \A q \in Requests : BulkheadsTold(q)'
  BY <1>1, <1>3, <1>4 DEF BulkheadsInv, BulkheadsTypes, BulkheadsTold
<1>7. ASSUME NEW s \in Tenants PROVE BulkheadsCounted(s)'
  <2>1. r \notin TO!Holding(s)
    BY <1>1 DEF TO!Holding
  <2>2. BulkheadsCounted(s) /\ bulkheadsIn_flight \in [Tenants -> Int]
    BY DEF BulkheadsInv, BulkheadsTypes
  <2>3. CASE pc = "processing" /\ s = t
    <3>1. TO!Holding(s)' = TO!Holding(s) \cup {r}
      BY <1>3, <1>4, <2>1, <2>3, BulkheadsHeld
    <3>2. Cardinality(TO!Holding(s)') = Cardinality(TO!Holding(s)) + 1
      BY <2>1, <3>1, HoldingFinite, FS_AddElement
    <3>3. bulkheadsIn_flight'[s] = bulkheadsIn_flight[s] + 1 /\ Cardinality(TO!Holding(s)) # BulkheadLimit
      BY <1>2, <2>2, <2>3
    <3> QED BY <2>2, <3>2, <3>3, HoldingFinite, BulkheadsAssumption DEF BulkheadsCounted
  <2>4. CASE ~(pc = "processing" /\ s = t)
    <3>1. TO!Holding(s)' = TO!Holding(s) \ {r}
      BY <1>3, <1>4, <2>4, BulkheadsHeld
    <3>2. TO!Holding(s)' = TO!Holding(s)
      BY ONLY <2>1, <3>1
    <3>3. bulkheadsIn_flight'[s] = bulkheadsIn_flight[s]
      BY <1>2, <2>2, <2>4
    <3> QED BY <2>2, <3>2, <3>3 DEF BulkheadsCounted
  <2> QED BY <2>3, <2>4
<1> QED BY <1>5, <1>6, <1>7 DEF BulkheadsInv

\* A request that ends gives its permit back, whether it stored or not.
LEMMA BulkheadsEndStep ==
  ASSUME BulkheadsInv, NEW r \in Requests, TO!Store(r) \/ TO!Cancelled(r)
  PROVE  BulkheadsInv'
<1> DEFINE t == bulkheadsRequest[r].tenant
           w == bulkheadsRequest'[r]
<1>1. bulkheadsRequest[r] \in TenantCalls /\ bulkheadsRequest[r].pc = "processing" /\ t \in Tenants
  BY DEF BulkheadsInv, BulkheadsTypes, BulkheadsTold, TO!Store, TO!Cancelled
<1>2. bulkheadsOrders \in Seq(TenantOrder) /\ Len(bulkheadsOrders) \in Nat
  BY DEF BulkheadsInv, BulkheadsTypes
<1>3. /\ bulkheadsRequest' = [bulkheadsRequest EXCEPT ![r] = w] /\ w \in TenantCalls
      /\ w.pc \in {"201", "lost"} /\ w.tenant = t /\ w.identity = bulkheadsRequest[r].identity
  <2>1. CASE TO!Store(r)
    <3> DEFINE n == Len(bulkheadsOrders) + 1
               v == [bulkheadsRequest[r] EXCEPT !.pc = "201", !.id = n]
    <3>1. v \in TenantCalls /\ v.pc = "201" /\ v.tenant = t /\ v.identity = bulkheadsRequest[r].identity
      <4>1. n \in Nat
        BY <1>2
      <4> HIDE DEF n
      <4> QED BY <1>1, <4>1 DEF TenantCalls
    <3>2. bulkheadsRequest' = [bulkheadsRequest EXCEPT ![r] = v]
      BY <2>1 DEF TO!Store
    <3> HIDE DEF v, t
    <3> QED BY <3>1, <3>2 DEF BulkheadsInv, BulkheadsTypes
  <2>2. CASE TO!Cancelled(r)
    BY <1>1, <2>2 DEF TO!Cancelled, TenantCalls, BulkheadsInv, BulkheadsTypes
  <2> QED BY <2>1, <2>2
<1>4. bulkheadsIn_flight' = [bulkheadsIn_flight EXCEPT ![t] = @ - 1]
  BY DEF TO!Store, TO!Cancelled
<1>5. \/ bulkheadsOrders' = bulkheadsOrders /\ w.pc = "lost"
      \/ /\ bulkheadsOrders' = Append(bulkheadsOrders, [tenant |-> t, identity |-> bulkheadsRequest[r].identity])
         /\ w.id = Len(bulkheadsOrders) + 1
  BY <1>1 DEF TO!Store, TO!Cancelled, BulkheadsInv, BulkheadsTypes, TenantCalls
<1>6. [tenant |-> t, identity |-> bulkheadsRequest[r].identity] \in TenantOrder
  BY <1>1 DEF TenantOrder, TenantCalls
<1>7. /\ bulkheadsOrders' \in Seq(TenantOrder) /\ Len(bulkheadsOrders') \in Nat /\ Len(bulkheadsOrders) <= Len(bulkheadsOrders')
      /\ \A i \in 1..Len(bulkheadsOrders) : bulkheadsOrders'[i] = bulkheadsOrders[i]
      /\ w.pc = "201" => /\ w.id \in 1..Len(bulkheadsOrders')
                         /\ bulkheadsOrders'[w.id] = [tenant |-> t, identity |-> bulkheadsRequest[r].identity]
  <2>1. CASE bulkheadsOrders' = bulkheadsOrders /\ w.pc = "lost"
    BY <1>2, <2>1
  <2>2. CASE /\ bulkheadsOrders' = Append(bulkheadsOrders, [tenant |-> t, identity |-> bulkheadsRequest[r].identity])
             /\ w.id = Len(bulkheadsOrders) + 1
    <3> HIDE DEF w, t
    <3> QED BY <1>2, <1>6, <2>2
  <2> QED BY <1>5, <2>1, <2>2
<1>8. BulkheadsTypes'
  <2>1. bulkheadsIn_flight' \in [Tenants -> Int]
    BY <1>1, <1>4 DEF BulkheadsInv, BulkheadsTypes
  <2>2. bulkheadsRequest' \in [Requests -> TenantCalls]
    <3> HIDE DEF w
    <3> QED BY <1>3 DEF BulkheadsInv, BulkheadsTypes
  <2> QED BY <1>7, <2>1, <2>2 DEF BulkheadsTypes
<1>9. ASSUME NEW q \in Requests PROVE BulkheadsTold(q)'
  <2>1. CASE q = r
    BY <1>3, <1>7, <2>1 DEF BulkheadsTold
  <2>2. CASE q # r
    <3>1. bulkheadsRequest'[q] = bulkheadsRequest[q] /\ BulkheadsTold(q)
      BY <1>3, <2>2 DEF BulkheadsInv, BulkheadsTypes
    <3> HIDE DEF w, t
    <3> QED BY <1>2, <1>7, <3>1 DEF BulkheadsTold
  <2> QED BY <2>1, <2>2
<1>10. ASSUME NEW s \in Tenants PROVE BulkheadsCounted(s)'
  <2>1. BulkheadsCounted(s) /\ bulkheadsIn_flight \in [Tenants -> Int]
    BY DEF BulkheadsInv, BulkheadsTypes
  <2>2. TO!Holding(s)' = TO!Holding(s) \ {r}
    BY <1>3, BulkheadsHeld
  <2>3. CASE s = t
    <3>1. r \in TO!Holding(s)
      BY <1>1, <2>3 DEF TO!Holding
    <3>2. Cardinality(TO!Holding(s)') = Cardinality(TO!Holding(s)) - 1
      BY <2>2, <3>1, HoldingFinite, FS_RemoveElement
    <3>3. bulkheadsIn_flight'[s] = bulkheadsIn_flight[s] - 1
      BY <1>4, <2>1, <2>3
    <3> QED BY <2>1, <3>2, <3>3, HoldingFinite, BulkheadsAssumption DEF BulkheadsCounted
  <2>4. CASE s # t
    <3>1. TO!Holding(s)' = TO!Holding(s)
      BY <2>2, <2>4 DEF TO!Holding
    <3>2. bulkheadsIn_flight'[s] = bulkheadsIn_flight[s]
      BY <1>4, <2>1, <2>4
    <3> QED BY <2>1, <3>1, <3>2 DEF BulkheadsCounted
  <2> QED BY <2>3, <2>4
<1> QED BY <1>8, <1>9, <1>10 DEF BulkheadsInv

LEMMA BulkheadsLeaveStep == ASSUME BulkheadsInv, NEW r \in Requests, TO!Leave(r) PROVE BulkheadsInv'
<1>1. /\ bulkheadsRequest[r].pc \in {"201", "403", "429", "lost"} /\ UNCHANGED <<bulkheadsIn_flight, bulkheadsOrders>>
      /\ bulkheadsRequest' = [bulkheadsRequest EXCEPT ![r].pc = "idle"]
  BY DEF TO!Leave
<1>2. BulkheadsTypes'
  BY <1>1 DEF BulkheadsInv, BulkheadsTypes, TenantCalls
<1>3. \A q \in Requests : BulkheadsTold(q)'
  BY <1>1 DEF BulkheadsInv, BulkheadsTypes, BulkheadsTold, TenantCalls
<1>4. \A t : TO!Holding(t)' = TO!Holding(t)
  BY <1>1 DEF BulkheadsInv, BulkheadsTypes, TenantCalls, TO!Holding
<1>5. \A t \in Tenants : BulkheadsCounted(t)'
  BY <1>1, <1>4 DEF BulkheadsInv, BulkheadsCounted
<1> QED BY <1>2, <1>3, <1>5 DEF BulkheadsInv

LEMMA BulkheadsSteps == BulkheadsInv /\ [TO!Next]_bulkheads => BulkheadsInv'
<1> SUFFICES ASSUME BulkheadsInv, [TO!Next]_bulkheads PROVE BulkheadsInv'
  OBVIOUS
<1>1. CASE UNCHANGED bulkheads
  BY <1>1 DEF bulkheads, BulkheadsInv, BulkheadsTypes, BulkheadsTold, BulkheadsCounted, TO!Holding
<1>2. CASE TO!Next
  BY <1>2, BulkheadsRefuseStep, BulkheadsEndStep, BulkheadsLeaveStep DEF TO!Next
<1> QED BY <1>1, <1>2

THEOREM BulkheadsInvariance == Spec => []BulkheadsInv
<1>1. Init => BulkheadsInv
  BY Behaviours, BulkheadsInitially
<1>2. BulkheadsInv /\ [Next]_vars => BulkheadsInv'
  BY Behaviours, BulkheadsSteps
<1> QED BY <1>1, <1>2, PTL DEF Spec

\* Limits are exact whatever requests race and whatever is cancelled: calls
\* through a bulkhead never exceed its size (26), the counter of a tenant is
\* what it uses and never more than its permits (12), and a tenant is refused
\* by nothing but its own requests.
THEOREM LimitsAreExact == Spec => LimitsHold
<1>1. EdgeInv => (service = "edge" => EG!BulkheadHolds)
  BY DEF EdgeInv
<1>2. BulkheadsInv => (service = "bulkheads" => TO!PermitsExact)
  <2> SUFFICES ASSUME BulkheadsInv PROVE TO!PermitsExact
    OBVIOUS
  <2>1. \A t \in Tenants : bulkheadsIn_flight[t] = TO!Cardinality(TO!Holding(t)) /\ bulkheadsIn_flight[t] <= BulkheadLimit
    BY BulkheadsCardinality DEF BulkheadsInv, BulkheadsCounted
  <2> QED BY <2>1 DEF BulkheadsInv, BulkheadsTold, TO!PermitsExact
<1>3. BulkheadsInv /\ [Next]_vars =>
        [\A r \in Requests : bulkheadsRequest[r].pc = "idle" /\ bulkheadsRequest'[r].pc = "429"
           => TO!Cardinality(TO!Holding(bulkheadsRequest'[r].tenant)) = BulkheadLimit]_(TO!vars)
  <2> SUFFICES ASSUME BulkheadsInv, [TO!Next]_bulkheads, NEW r \in Requests,
                      bulkheadsRequest[r].pc = "idle", bulkheadsRequest'[r].pc = "429"
               PROVE  TO!Cardinality(TO!Holding(bulkheadsRequest'[r].tenant)) = BulkheadLimit
    BY Behaviours DEF TO!vars, bulkheads
  <2>1. \A q \in Requests : bulkheadsRequest[q] \in TenantCalls
    BY DEF BulkheadsInv, BulkheadsTypes
  <2>2. PICK q \in Requests, t \in Tenants, c \in Callers \cup {NoIdentity} : TO!TrustSidecar(q, t, c)
    BY <2>1 DEF bulkheads, TO!Next, TO!Store, TO!Cancelled, TO!Leave, BulkheadsInv, BulkheadsTypes, TenantCalls
  <2>3. q = r
    BY <2>2 DEF TO!TrustSidecar, TO!CreateOrder, TO!Begin, BulkheadsInv, BulkheadsTypes
  <2> QED BY <2>2, <2>3 DEF TO!TrustSidecar, TO!CreateOrder, TO!Begin, BulkheadsInv, BulkheadsTypes
<1> QED BY <1>1, <1>2, <1>3, EdgeInvariance, BulkheadsInvariance, PTL DEF Spec, LimitsHold, TO!RefusedByOwnRequests

-----------------------------------------------------------------------------
(* Example 16: the socket server.                                            *)
(* Between a POST and the socket of a client a message waits: in the task of *)
(* its request, in the channel of a pod, or in an open loop.  The invariant  *)
(* says that it waits in at most one of these for any client of any pod      *)
(* (TasksInv), that a socket belongs to one client of one pod for good       *)
(* (SocketsInv), and that wherever a frame is, in a buffer, in a replay or   *)
(* received, its message waits no more, its number is one of those given     *)
(* out, and no number was given to two messages (FramesInv).                 *)

(* The elements of a sequence, and frames numbered all differently.          *)
In(s) == {s[k] : k \in 1..Len(s)}
Apart(s) == \A j, k \in 1..Len(s) : j # k => s[j].seq # s[k].seq

LEMMA InAppend ==
  ASSUME NEW S, NEW s \in Seq(S), NEW x \in S
  PROVE  /\ Append(s, x) \in Seq(S) /\ Len(Append(s, x)) = Len(s) + 1 /\ Len(s) \in Nat
         /\ \A k \in 1..(Len(s) + 1) : Append(s, x)[k] = IF k = Len(s) + 1 THEN x ELSE s[k]
         /\ In(Append(s, x)) = In(s) \cup {x}
<1>1. Append(s, x) \in Seq(S) /\ Len(Append(s, x)) = Len(s) + 1 /\ Len(s) \in Nat
  OBVIOUS
<1>2. \A k \in 1..(Len(s) + 1) : Append(s, x)[k] = IF k = Len(s) + 1 THEN x ELSE s[k]
  OBVIOUS
<1>3. 1..(Len(s) + 1) = 1..Len(s) \cup {Len(s) + 1}
  BY <1>1
<1> QED BY <1>1, <1>2, <1>3 DEF In

LEMMA NewNumber ==
  ASSUME NEW s \in Seq(Nat), NEW N \in Nat, \A k \in 1..Len(s) : s[k] <= N,
         \A j, k \in 1..Len(s) : j # k => s[j] # s[k]
  PROVE  LET t == Append(s, N + 1) IN
         /\ \A k \in 1..Len(t) : t[k] <= N + 1
         /\ \A j, k \in 1..Len(t) : j # k => t[j] # t[k]
<1> DEFINE t == Append(s, N + 1)
<1>1. Len(t) = Len(s) + 1 /\ Len(s) \in Nat /\ \A k \in 1..(Len(s) + 1) : t[k] = IF k = Len(s) + 1 THEN N + 1 ELSE s[k]
  OBVIOUS
<1>2. \A k \in 1..Len(s) : s[k] \in Nat
  OBVIOUS
<1> HIDE DEF t
<1>3. \A k \in 1..Len(t) : t[k] <= N + 1
  BY <1>1, <1>2
<1>4. \A j, k \in 1..Len(t) : j # k => t[j] # t[k]
  BY <1>1, <1>2
<1> QED BY <1>3, <1>4 DEF t

LEMMA InTail ==
  ASSUME NEW S, NEW s \in Seq(S), s # <<>>
  PROVE  /\ Tail(s) \in Seq(S) /\ Len(Tail(s)) = Len(s) - 1 /\ Len(s) \in Nat \ {0}
         /\ \A k \in 1..(Len(s) - 1) : Tail(s)[k] = s[k + 1]
         /\ Head(s) = s[1] /\ Head(s) \in S /\ Head(s) \in In(s)
         /\ In(Tail(s)) \subseteq In(s)
         /\ \A x \in In(s) : x = Head(s) \/ x \in In(Tail(s))
<1>1. Tail(s) \in Seq(S) /\ Len(Tail(s)) = Len(s) - 1 /\ Len(s) \in Nat \ {0} /\ Head(s) = s[1] /\ Head(s) \in S
  OBVIOUS
<1>2. \A k \in 1..(Len(s) - 1) : Tail(s)[k] = s[k + 1]
  OBVIOUS
<1>3. Head(s) \in In(s)
  BY <1>1 DEF In
<1>4. In(Tail(s)) \subseteq In(s)
  BY <1>1, <1>2 DEF In
<1>5. ASSUME NEW x \in In(s), x # Head(s) PROVE x \in In(Tail(s))
  <2>1. PICK k \in 1..Len(s) : x = s[k]
    BY DEF In
  <2>2. k # 1
    BY <1>1, <1>5, <2>1
  <2>3. k - 1 \in 1..(Len(s) - 1) /\ (k - 1) + 1 = k
    BY <1>1, <2>2
  <2>4. Tail(s)[k - 1] = x
    BY <1>2, <2>1, <2>3
  <2> QED BY <1>1, <2>3, <2>4 DEF In
<1> QED BY <1>1, <1>2, <1>3, <1>4, <1>5

LEMMA ApartAppend ==
  ASSUME NEW s \in Seq(WS!Frame), NEW f \in WS!Frame, Apart(s), \A g \in In(s) : g.seq # f.seq
  PROVE  Apart(Append(s, f))
<1> DEFINE t == Append(s, f)
<1>1. Len(t) = Len(s) + 1 /\ Len(s) \in Nat /\ \A k \in 1..(Len(s) + 1) : t[k] = IF k = Len(s) + 1 THEN f ELSE s[k]
  OBVIOUS
<1>2. \A k \in 1..Len(s) : s[k].seq # f.seq
  BY DEF In
<1> HIDE DEF t
<1> QED BY <1>1, <1>2 DEF Apart

LEMMA ApartTail ==
  ASSUME NEW s \in Seq(WS!Frame), s # <<>>, Apart(s)
  PROVE  Apart(Tail(s)) /\ \A g \in In(Tail(s)) : g.seq # Head(s).seq
<1>1. Len(Tail(s)) = Len(s) - 1 /\ Len(s) \in Nat \ {0} /\ \A k \in 1..(Len(s) - 1) : Tail(s)[k] = s[k + 1]
  BY InTail
<1>2. Head(s) = s[1]
  BY InTail
<1> QED BY <1>1, <1>2 DEF Apart, In

(* Messages that a pod has still to take up, those it is sending to a client *)
(* of its own in an open loop, and those it is done with for that client.    *)
Waiting(p) ==
  {m \in WS!Messages : (m \in local /\ sent[m].pod = p) \/ (m \in In(channel[p]) /\ sent[m].pod # p)}
Looping(p, c) == {m \in WS!Messages : \E i \in WS!Connections : <<c, i>> \in todo[m][p]}
Served(p, c) == {m \in WS!Messages : m <= Len(sent) /\ m \notin Waiting(p) /\ m \notin Looping(p, c)}

QueuesInv ==
  /\ sent \in Seq([pod : Pods, target : Clients \cup {All}]) /\ Len(sent) <= NumMessages
  /\ local \subseteq 1..Len(sent)
  /\ channel \in [Pods -> Seq(WS!Messages)]
  /\ \A p \in Pods : \A k \in 1..Len(channel[p]) : channel[p][k] <= Len(sent)
  /\ \A p \in Pods : \A j, k \in 1..Len(channel[p]) : j # k => channel[p][j] # channel[p][k]

LoopsInv ==
  /\ todo \in [WS!Messages -> [Pods -> SUBSET (Clients \X WS!Connections)]]
  /\ \A m \in WS!Messages, p \in Pods :
       todo[m][p] # {} => m <= Len(sent) /\ m \notin Waiting(p)
  /\ \A m \in WS!Messages, p \in Pods, c \in Clients, i, j \in WS!Connections :
       <<c, i>> \in todo[m][p] /\ <<c, j>> \in todo[m][p] => i = j

TasksInv == QueuesInv /\ LoopsInv

SocketsInv ==
  /\ clients \in [Pods -> [Clients -> {0} \cup WS!Connections]]
  /\ place \in [WS!Connections -> WS!Places \cup {<<>>}]
  /\ link \in [WS!Connections -> {"up", "lost", "closed"}]
  /\ \A p \in Pods, c \in Clients : clients[p][c] # 0 => place[clients[p][c]] = <<p, c>>
  /\ \A m \in WS!Messages, p \in Pods, c \in Clients, i \in WS!Connections :
       <<c, i>> \in todo[m][p] => place[i] = <<p, c>>

(* Where a frame numbered for a client by a pod may still be.                *)
Frames(p, c) ==
  In(message_buffers[p][c])
    \cup {f \in WS!Frame : \E i \in WS!Connections : place[i] = <<p, c>> /\ (f \in In(missed[i]) \/ f \in In(inbox[i]))}

FrameTypes ==
  /\ seq_counters \in [Pods -> [Clients -> Nat]]
  /\ message_buffers \in [Pods -> [Clients -> Seq(WS!Frame)]]
  /\ missed \in [WS!Connections -> Seq(WS!Frame)] /\ inbox \in [WS!Connections -> Seq(WS!Frame)]
  /\ lastSeq \in [Clients -> 0..NumMessages]

Numbering(p, c) ==
  /\ seq_counters[p][c] <= Cardinality(Served(p, c))
  /\ \A f \in Frames(p, c) : f.seq <= seq_counters[p][c] /\ f.msg \in Served(p, c)
  /\ \A f, g \in Frames(p, c) : f.seq = g.seq <=> f.msg = g.msg

Separate(i) ==
  /\ place[i] = <<>> => missed[i] = <<>> /\ inbox[i] = <<>>
  /\ Apart(missed[i]) /\ Apart(inbox[i])
  /\ \A f \in In(missed[i]), g \in In(inbox[i]) : f.seq # g.seq

FramesInv ==
  /\ FrameTypes /\ WS!BufferIsTail
  /\ \A p \in Pods, c \in Clients : Numbering(p, c)
  /\ \A i \in WS!Connections : Separate(i)

SocketServerInv == TasksInv /\ SocketsInv /\ FramesInv

LEMMA SocketsStart == WS!Init => TasksInv /\ SocketsInv
<1> SUFFICES ASSUME WS!Init PROVE TasksInv /\ SocketsInv
  OBVIOUS
<1>1. sent = <<>> /\ local = {} /\ channel = [p \in Pods |-> <<>>] /\ todo = [m \in WS!Messages |-> [p \in Pods |-> {}]]
      /\ clients = [p \in Pods |-> [c \in Clients |-> 0]] /\ place = [i \in WS!Connections |-> <<>>]
      /\ link = [i \in WS!Connections |-> "closed"]
  BY DEF WS!Init
<1>2. Len(sent) <= NumMessages /\ sent \in Seq([pod : Pods, target : Clients \cup {All}])
  BY <1>1, WebSocketsAssumption
<1>3. TasksInv
  BY <1>1, <1>2 DEF TasksInv, QueuesInv, LoopsInv, Waiting
<1>4. SocketsInv
  BY <1>1 DEF SocketsInv
<1> QED BY <1>3, <1>4

\* Messages are numbered as they are published.
LEMMA SentNumbers ==
  ASSUME TasksInv
  PROVE  /\ NumMessages \in Nat /\ WS!Messages = 1..NumMessages /\ Len(sent) \in Nat /\ 1..Len(sent) \subseteq WS!Messages
         /\ \A m \in 1..Len(sent) : sent[m] \in [pod : Pods, target : Clients \cup {All}]
         /\ \A p \in Pods : /\ channel[p] \in Seq(WS!Messages) /\ In(channel[p]) \subseteq 1..Len(sent)
                            /\ Waiting(p) \subseteq 1..Len(sent)
         /\ \A p \in Pods, c \in Clients : Looping(p, c) \subseteq 1..Len(sent)
         /\ \A m \in WS!Messages, p \in Pods : todo[m][p] \in SUBSET (Clients \X WS!Connections)
<1>1. NumMessages \in Nat /\ WS!Messages = 1..NumMessages
  BY WebSocketsAssumption DEF WS!Messages
<1>2. Len(sent) \in Nat /\ 1..Len(sent) \subseteq WS!Messages
      /\ \A m \in 1..Len(sent) : sent[m] \in [pod : Pods, target : Clients \cup {All}]
  <2> DEFINE P == [pod : Pods, target : Clients \cup {All}]
  <2>1. sent \in Seq(P) /\ Len(sent) <= NumMessages
    BY DEF TasksInv, QueuesInv, LoopsInv
  <2> HIDE DEF P
  <2>2. Len(sent) \in Nat /\ \A m \in 1..Len(sent) : sent[m] \in P
    BY <2>1
  <2> USE DEF P
  <2> QED BY <1>1, <2>1, <2>2
<1>3. ASSUME NEW p \in Pods
      PROVE  channel[p] \in Seq(WS!Messages) /\ In(channel[p]) \subseteq 1..Len(sent) /\ Waiting(p) \subseteq 1..Len(sent)
  <2>1. channel[p] \in Seq(WS!Messages)
    BY DEF TasksInv, QueuesInv, LoopsInv
  <2>2. \A k \in 1..Len(channel[p]) : channel[p][k] \in 1..NumMessages /\ channel[p][k] <= Len(sent)
    BY <1>1, <2>1 DEF TasksInv, QueuesInv, LoopsInv
  <2>3. In(channel[p]) \subseteq 1..Len(sent)
    BY <1>2, <2>2 DEF In
  <2>4. local \subseteq 1..Len(sent)
    BY DEF TasksInv, QueuesInv, LoopsInv
  <2> QED BY <2>1, <2>3, <2>4 DEF Waiting
<1>4. \A m \in WS!Messages, p \in Pods : todo[m][p] \in SUBSET (Clients \X WS!Connections) /\ (todo[m][p] # {} => m \in 1..Len(sent))
  BY <1>1, <1>2 DEF TasksInv, QueuesInv, LoopsInv
<1>5. \A p \in Pods, c \in Clients : Looping(p, c) \subseteq 1..Len(sent)
  BY <1>4 DEF Looping
<1> QED BY <1>1, <1>2, <1>3, <1>4, <1>5

LEMMA PublishKeepsTasks ==
  ASSUME TasksInv, NEW p \in Pods, NEW t \in Targets, WS!Publish(p, t)
  PROVE  TasksInv' /\ \A q \in Pods, c \in Clients : Served(q, c) \subseteq Served(q, c)'
<1> DEFINE n == Len(sent) + 1
<1>1. /\ Len(sent) < NumMessages /\ sent' = Append(sent, [pod |-> p, target |-> t])
      /\ channel' = [q \in Pods |-> Append(channel[q], n)] /\ local' = local \cup {n} /\ todo' = todo
  BY DEF WS!Publish, WS!tasks
<1>2. [pod |-> p, target |-> t] \in [pod : Pods, target : Clients \cup {All}]
  BY WebSocketsAssumption
<1>3. /\ sent' \in Seq([pod : Pods, target : Clients \cup {All}]) /\ Len(sent') = n /\ n \in Nat
      /\ \A m \in 1..Len(sent) : sent'[m] = sent[m]
  BY <1>1, <1>2, SentNumbers DEF TasksInv, QueuesInv, LoopsInv
<1>4. n \in WS!Messages /\ n <= NumMessages
  BY <1>1, SentNumbers
<1>5. \A q \in Pods : /\ channel'[q] \in Seq(WS!Messages) /\ Len(channel'[q]) = Len(channel[q]) + 1
                      /\ In(channel'[q]) = In(channel[q]) \cup {n}
                      /\ \A k \in 1..(Len(channel[q]) + 1) : channel'[q][k] = IF k = Len(channel[q]) + 1 THEN n ELSE channel[q][k]
  <2> SUFFICES ASSUME NEW q \in Pods
               PROVE  /\ channel'[q] \in Seq(WS!Messages) /\ Len(channel'[q]) = Len(channel[q]) + 1
                      /\ In(channel'[q]) = In(channel[q]) \cup {n}
                      /\ \A k \in 1..(Len(channel[q]) + 1) : channel'[q][k] = IF k = Len(channel[q]) + 1 THEN n ELSE channel[q][k]
    OBVIOUS
  <2> HIDE DEF n
  <2>1. channel'[q] = Append(channel[q], n)
    BY <1>1
  <2>2. channel[q] \in Seq(WS!Messages)
    BY SentNumbers
  <2> QED BY ONLY <1>4, <2>1, <2>2, InAppend
<1>6. local' \subseteq 1..n /\ Len(sent) \in Nat /\ n = Len(sent) + 1
  <2>1. local \subseteq 1..Len(sent) /\ Len(sent) \in Nat
    BY SentNumbers DEF TasksInv, QueuesInv, LoopsInv
  <2>2. local' = local \cup {n}
    BY <1>1
  <2>3. \A x \in local : x \in 1..(Len(sent) + 1)
    BY ONLY <2>1
  <2>4. n \in 1..(Len(sent) + 1)
    BY <2>1
  <2> QED BY <2>1, <2>2, <2>3, <2>4
<1> HIDE DEF n
<1>7. ASSUME NEW q \in Pods
      PROVE  /\ \A k \in 1..Len(channel'[q]) : channel'[q][k] <= n
             /\ \A j, k \in 1..Len(channel'[q]) : j # k => channel'[q][j] # channel'[q][k]
  <2>1. channel'[q] = Append(channel[q], Len(sent) + 1)
    BY <1>1 DEF n
  <2>2. channel[q] \in Seq(Nat)
    BY SentNumbers
  <2>3. \A k \in 1..Len(channel[q]) : channel[q][k] <= Len(sent)
    BY DEF TasksInv, QueuesInv, LoopsInv
  <2>4. \A j, k \in 1..Len(channel[q]) : j # k => channel[q][j] # channel[q][k]
    BY DEF TasksInv, QueuesInv, LoopsInv
  <2> QED BY ONLY <1>6, <2>1, <2>2, <2>3, <2>4, NewNumber
<1>8. ASSUME NEW q \in Pods PROVE Waiting(q)' \subseteq Waiting(q) \cup {n}
  <2>0. SUFFICES ASSUME NEW m \in Waiting(q)', m # n PROVE m \in Waiting(q)
    OBVIOUS
  <2>1. m \in WS!Messages /\ ((m \in local /\ sent'[m].pod = q) \/ (m \in In(channel[q]) /\ sent'[m].pod # q))
    <3>1. m \in WS!Messages /\ ((m \in local /\ sent[m].pod = q) \/ (m \in In(channel[q]) /\ sent[m].pod # q))'
      BY Zenon DEF Waiting
    <3>2. (m \in local' => m \in local) /\ (m \in In(channel'[q]) => m \in In(channel[q]))
      <4>1. In(channel'[q]) = In(channel[q]) \cup {n} /\ local' = local \cup {n}
        BY <1>1, <1>5
      <4> QED BY <2>0, <4>1
    <3> QED BY <3>1, <3>2 DEF In
  <2>2. m \in 1..Len(sent)
    BY <2>1, SentNumbers DEF TasksInv, QueuesInv, LoopsInv
  <2>3. sent'[m] = sent[m]
    BY <1>3, <2>2
  <2> QED BY <2>1, <2>3 DEF Waiting
<1>9. \A q \in Pods, c \in Clients : Looping(q, c)' = Looping(q, c)
  BY <1>1 DEF Looping
<1>10. \A q \in Pods, c \in Clients : Served(q, c) \subseteq Served(q, c)'
  <2> SUFFICES ASSUME NEW q \in Pods, NEW c \in Clients, NEW m \in Served(q, c) PROVE m \in Served(q, c)'
    OBVIOUS
  <2>1. m \in WS!Messages /\ m <= Len(sent) /\ m \notin Waiting(q) /\ m \notin Looping(q, c)
    BY DEF Served
  <2>2. m # n /\ m <= Len(sent') 
    BY <1>3, <1>6, <2>1, SentNumbers
  <2> QED BY <1>8, <1>9, <2>1, <2>2 DEF Served
<1>11. channel' \in [Pods -> Seq(WS!Messages)]
  BY <1>1, <1>5
<1>12. ASSUME NEW m \in WS!Messages, NEW q \in Pods, todo'[m][q] # {} PROVE m <= n /\ m \notin Waiting(q)'
  <2>1. m <= Len(sent) /\ m \notin Waiting(q)
    BY <1>1, <1>12 DEF TasksInv, QueuesInv, LoopsInv
  <2>2. m < n /\ m # n /\ m <= n
    BY <1>6, <2>1, SentNumbers
  <2> QED BY <1>8, <2>1, <2>2
<1>13. TasksInv'
  <2>1. todo' \in [WS!Messages -> [Pods -> SUBSET (Clients \X WS!Connections)]]
        /\ \A m \in WS!Messages, q \in Pods, c \in Clients, i, j \in WS!Connections :
             <<c, i>> \in todo'[m][q] /\ <<c, j>> \in todo'[m][q] => i = j
    BY <1>1, Zenon DEF TasksInv, QueuesInv, LoopsInv
  <2> QED BY <1>3, <1>4, <1>6, <1>7, <1>11, <1>12, <2>1 DEF TasksInv, QueuesInv, LoopsInv
<1> QED BY <1>10, <1>13

(* No message is forgotten for a client that has been served.                *)
KeepsServed == \A p \in Pods, c \in Clients : Served(p, c) \subseteq Served(p, c)'

\* A loop over pairs begins or goes on: what it holds of the queues.
TakesUp(m, p, pairs) ==
  /\ sent' = sent /\ QueuesInv'
  /\ \A q \in Pods : Waiting(q)' = IF q = p THEN Waiting(q) \ {m} ELSE Waiting(q)
  /\ pairs \subseteq Clients \X WS!Connections
  /\ \A c \in Clients, i, j \in WS!Connections : <<c, i>> \in pairs /\ <<c, j>> \in pairs => i = j
  /\ m \in Waiting(p) \/ pairs = todo[m][p]

LEMMA LoopRests ==
  ASSUME TasksInv, sent' = sent, QueuesInv', todo' = todo, \A q \in Pods : Waiting(q)' \subseteq Waiting(q)
  PROVE  TasksInv' /\ KeepsServed
<1>1. LoopsInv'
  BY DEF TasksInv, LoopsInv
<1>2. \A q \in Pods, c \in Clients : Looping(q, c)' = Looping(q, c)
  BY DEF Looping
<1>3. KeepsServed
  BY <1>2 DEF KeepsServed, Served
<1> QED BY <1>1, <1>3 DEF TasksInv

LEMMA LoopGoesOn ==
  ASSUME TasksInv, NEW m \in WS!Messages, NEW p \in Pods, NEW pairs, TakesUp(m, p, pairs), m <= Len(sent),
         NEW c \in Clients, NEW i \in WS!Connections, <<c, i>> \in pairs,
         todo' = [todo EXCEPT ![m][p] = pairs \ {<<c, i>>}]
  PROVE  TasksInv' /\ KeepsServed /\ m \notin Served(p, c) /\ m \in Served(p, c)'
<1>1. /\ \A n \in WS!Messages, q \in Pods :
           todo'[n][q] = IF n = m /\ q = p THEN pairs \ {<<c, i>>} ELSE todo[n][q]
      /\ todo' \in [WS!Messages -> [Pods -> SUBSET (Clients \X WS!Connections)]]
  BY DEF TasksInv, LoopsInv, TakesUp
<1>2. \A d \in Clients, j, k \in WS!Connections :
        <<d, j>> \in pairs /\ <<d, k>> \in pairs => j = k
  BY DEF TakesUp
<1>3. m \notin Waiting(p)'
  BY DEF TakesUp
<1>4. \A q \in Pods : Waiting(q)' \subseteq Waiting(q)
  BY DEF TakesUp
<1>5. m \notin Looping(p, c)'
  <2> SUFFICES ASSUME NEW j \in WS!Connections, <<c, j>> \in todo'[m][p] PROVE FALSE
    BY DEF Looping
  <2>1. <<c, j>> \in pairs /\ <<c, j>> # <<c, i>>
    BY <1>1
  <2> QED BY <1>2, <2>1
<1>6. m \in Served(p, c)'
  BY <1>3, <1>5 DEF Served, TakesUp
<1>7. m \notin Served(p, c)
  <2>1. CASE m \in Waiting(p)
    BY <2>1 DEF Served
  <2>2. CASE pairs = todo[m][p]
    <3>1. m \in Looping(p, c)
      BY <2>2 DEF Looping
    <3> QED BY <3>1 DEF Served
  <2> QED BY <2>1, <2>2 DEF TakesUp
<1>8. KeepsServed
  <2> SUFFICES ASSUME NEW q \in Pods, NEW d \in Clients, NEW n \in Served(q, d) PROVE n \in Served(q, d)'
    BY DEF KeepsServed
  <2>1. n \in WS!Messages /\ n <= Len(sent) /\ n \notin Waiting(q) /\ n \notin Looping(q, d)
    BY DEF Served
  <2>2. n \notin Looping(q, d)'
    <3> SUFFICES ASSUME NEW j \in WS!Connections, <<d, j>> \in todo'[n][q] PROVE FALSE
      BY <2>1 DEF Looping
    <3>1. CASE n = m /\ q = p
      <4>1. <<d, j>> \in pairs
        BY <1>1, <3>1
      <4>2. pairs = todo[m][p]
        BY <2>1, <3>1 DEF TakesUp
      <4> QED BY <2>1, <3>1, <4>1, <4>2 DEF Looping
    <3>2. CASE ~(n = m /\ q = p)
      <4>1. <<d, j>> \in todo[n][q]
        BY <1>1, <2>1, <3>2
      <4> QED BY <2>1, <4>1 DEF Looping
    <3> QED BY <3>1, <3>2
  <2>3. sent' = sent
    BY DEF TakesUp
  <2> QED BY <1>4, <2>1, <2>2, <2>3 DEF Served
<1>9. LoopsInv'
  <2>1. ASSUME NEW n \in WS!Messages, NEW q \in Pods, todo'[n][q] # {} PROVE n <= Len(sent') /\ n \notin Waiting(q)'
    <3>1. sent' = sent
      BY DEF TakesUp
    <3>2. CASE n = m /\ q = p
      BY <1>3, <3>1, <3>2
    <3>3. CASE ~(n = m /\ q = p)
      <4>1. n <= Len(sent) /\ n \notin Waiting(q)
        BY <1>1, <2>1, <3>3 DEF TasksInv, LoopsInv
      <4> QED BY <1>4, <3>1, <4>1
    <3> QED BY <3>2, <3>3
  <2>2. ASSUME NEW n \in WS!Messages, NEW q \in Pods, NEW d \in Clients, NEW j \in WS!Connections, NEW k \in WS!Connections,
               <<d, j>> \in todo'[n][q], <<d, k>> \in todo'[n][q]
        PROVE  j = k
    <3>1. CASE n = m /\ q = p
      BY <1>1, <1>2, <2>2, <3>1
    <3>2. CASE ~(n = m /\ q = p)
      BY <1>1, <2>2, <3>2 DEF TasksInv, LoopsInv
    <3> QED BY <3>1, <3>2
  <2> QED BY <1>1, <2>1, <2>2 DEF LoopsInv
<1> QED BY <1>6, <1>7, <1>8, <1>9 DEF TakesUp, TasksInv

\* The clients that a loop begins with.
LEMMA RecipientsOnce ==
  ASSUME SocketsInv, NEW p \in Pods, NEW t
  PROVE  LET pairs == WS!Recipients(p, t) IN
         /\ pairs \subseteq Clients \X WS!Connections
         /\ \A c \in Clients, i, j \in WS!Connections : <<c, i>> \in pairs /\ <<c, j>> \in pairs => i = j
         /\ \A c \in Clients, i \in WS!Connections : <<c, i>> \in pairs => place[i] = <<p, c>>
<1> DEFINE R == {d \in Clients : clients[p][d] # 0 /\ t \in {d, All}}
<1>1. WS!Recipients(p, t) = {<<c, clients[p][c]>> : c \in R}
  BY DEF WS!Recipients
<1>2. \A c \in R : c \in Clients /\ clients[p][c] \in WS!Connections /\ place[clients[p][c]] = <<p, c>>
  BY DEF SocketsInv
<1> HIDE DEF R
<1> QED BY <1>1, <1>2

\* What a step may do with frames: nothing, or number one more of a message
\* that the client was not yet sent.
Emits(m, p, c, i) ==
  /\ m \notin Served(p, c) /\ m \in Served(p, c)'
  /\ place[i] = <<p, c>> /\ WS!Emit(p, m, c, i)
SendsAtMostOne ==
  \/ UNCHANGED <<seq_counters, message_buffers, inbox, lastSeq>>
  \/ \E m \in WS!Messages, p \in Pods, c \in Clients, i \in WS!Connections : Emits(m, p, c, i)

LEMMA FanOutKeeps ==
  ASSUME TasksInv, SocketsInv, NEW m \in WS!Messages, NEW p \in Pods, NEW pairs, m <= Len(sent),
         WS!FanOut(p, m, pairs), sent' = sent, QueuesInv', UNCHANGED <<clients, place, link, missed>>,
         pairs = {} => \A q \in Pods : Waiting(q)' \subseteq Waiting(q),
         pairs # {} => TakesUp(m, p, pairs),
         \A c \in Clients, i \in WS!Connections : <<c, i>> \in pairs => place[i] = <<p, c>>
  PROVE  TasksInv' /\ KeepsServed /\ SocketsInv' /\ SendsAtMostOne
<1>1. CASE pairs = {}
  <2>1. UNCHANGED <<seq_counters, message_buffers, inbox, lastSeq, todo>>
    BY <1>1 DEF WS!FanOut
  <2>2. TasksInv' /\ KeepsServed
    BY <1>1, <2>1, LoopRests
  <2>3. SocketsInv'
    BY <2>1 DEF SocketsInv
  <2> QED BY <2>1, <2>2, <2>3 DEF SendsAtMostOne
<1>2. CASE pairs # {}
  <2>1. PICK pair \in pairs : WS!Emit(p, m, pair[1], pair[2]) /\ todo' = [todo EXCEPT ![m][p] = pairs \ {pair}]
    BY <1>2 DEF WS!FanOut
  <2>2. pair \in Clients \X WS!Connections
    BY <1>2 DEF TakesUp
  <2>3. PICK c \in Clients, i \in WS!Connections : pair = <<c, i>>
    BY <2>2
  <2>4. WS!Emit(p, m, c, i) /\ todo' = [todo EXCEPT ![m][p] = pairs \ {<<c, i>>}] /\ <<c, i>> \in pairs /\ place[i] = <<p, c>>
    BY <2>1, <2>3
  <2>5. TasksInv' /\ KeepsServed /\ m \notin Served(p, c) /\ m \in Served(p, c)'
    BY <1>2, <2>4, LoopGoesOn
  <2>6. Emits(m, p, c, i)
    BY <2>4, <2>5, Zenon DEF Emits
  <2>7. SocketsInv'
    <3>1. ASSUME NEW n \in WS!Messages, NEW q \in Pods, NEW d \in Clients, NEW j \in WS!Connections, <<d, j>> \in todo'[n][q]
          PROVE  place[j] = <<q, d>>
      <4>1. todo'[n][q] = IF n = m /\ q = p THEN pairs \ {<<c, i>>} ELSE todo[n][q]
        BY <2>4 DEF TasksInv, LoopsInv
      <4>2. CASE n = m /\ q = p
        BY <3>1, <4>1, <4>2
      <4>3. CASE ~(n = m /\ q = p)
        BY <3>1, <4>1, <4>3 DEF SocketsInv
      <4> QED BY <4>2, <4>3
    <3> QED BY <3>1 DEF SocketsInv
  <2> QED BY <2>5, <2>6, <2>7 DEF SendsAtMostOne
<1> QED BY <1>1, <1>2

LEMMA SendLocalKeeps ==
  ASSUME TasksInv, SocketsInv, NEW m \in WS!Messages, WS!SendLocal(m)
  PROVE  TasksInv' /\ KeepsServed /\ SocketsInv' /\ SendsAtMostOne
<1> DEFINE p == sent[m].pod
           pairs == WS!Recipients(p, sent[m].target)
<1>1. /\ m \in local /\ local' = local \ {m} /\ WS!FanOut(p, m, pairs)
      /\ UNCHANGED <<clients, place, link, missed, sent, channel>>
  BY DEF WS!SendLocal, WS!sockets
<1>2. m \in 1..Len(sent) /\ p \in Pods
  <2>1. m \in 1..Len(sent)
    BY <1>1 DEF TasksInv, QueuesInv
  <2> QED BY <2>1, SentNumbers
<1>3. QueuesInv'
  BY <1>1 DEF TasksInv, QueuesInv
<1>4. \A q \in Pods : Waiting(q)' = IF q = p THEN Waiting(q) \ {m} ELSE Waiting(q)
  <2> SUFFICES ASSUME NEW q \in Pods, NEW n \in WS!Messages
               PROVE  n \in Waiting(q)' <=> n \in Waiting(q) /\ ~(q = p /\ n = m)
    BY DEF Waiting
  <2>1. In(channel[q])' = In(channel[q])
    BY <1>1 DEF In
  <2>2. n \in Waiting(q)' <=> (n \in local' /\ sent[n].pod = q) \/ (n \in In(channel[q]) /\ sent[n].pod # q)
    BY <1>1, <2>1 DEF Waiting
  <2>3. n \in Waiting(q) <=> (n \in local /\ sent[n].pod = q) \/ (n \in In(channel[q]) /\ sent[n].pod # q)
    BY DEF Waiting
  <2> QED BY <1>1, <2>2, <2>3
<1>5. m \in Waiting(p) /\ \A q \in Pods : Waiting(q)' \subseteq Waiting(q)
  BY <1>1, <1>4 DEF Waiting
<1> HIDE DEF pairs, p
<1>6. /\ pairs \subseteq Clients \X WS!Connections
      /\ \A c \in Clients, i, j \in WS!Connections : <<c, i>> \in pairs /\ <<c, j>> \in pairs => i = j
      /\ \A c \in Clients, i \in WS!Connections : <<c, i>> \in pairs => place[i] = <<p, c>>
  BY <1>2, RecipientsOnce DEF pairs
<1>7. TakesUp(m, p, pairs)
  BY <1>1, <1>3, <1>4, <1>5, <1>6 DEF TakesUp
<1>8. m <= Len(sent)
  BY <1>2, SentNumbers
<1> QED BY <1>1, <1>2, <1>3, <1>5, <1>6, <1>7, <1>8, FanOutKeeps

LEMMA ListenKeeps ==
  ASSUME TasksInv, SocketsInv, NEW p \in Pods, WS!Listen(p)
  PROVE  TasksInv' /\ KeepsServed /\ SocketsInv' /\ SendsAtMostOne
<1> DEFINE m == Head(channel[p])
           pairs == IF sent[m].pod = p THEN {} ELSE WS!Recipients(p, sent[m].target)
<1>1. /\ channel[p] # <<>> /\ channel' = [channel EXCEPT ![p] = Tail(@)] /\ WS!FanOut(p, m, pairs)
      /\ UNCHANGED <<clients, place, link, missed, sent, local>>
  BY DEF WS!Listen, WS!sockets
<1>2. channel[p] \in Seq(WS!Messages) /\ In(channel[p]) \subseteq 1..Len(sent)
  BY SentNumbers
<1>3. /\ Tail(channel[p]) \in Seq(WS!Messages) /\ Len(Tail(channel[p])) = Len(channel[p]) - 1 /\ Len(channel[p]) \in Nat \ {0}
      /\ \A k \in 1..(Len(channel[p]) - 1) : Tail(channel[p])[k] = channel[p][k + 1]
      /\ m = channel[p][1] /\ m \in WS!Messages /\ m \in In(channel[p])
      /\ In(Tail(channel[p])) \subseteq In(channel[p])
      /\ \A x \in In(channel[p]) : x = m \/ x \in In(Tail(channel[p]))
  BY <1>1, <1>2, InTail
<1>4. channel'[p] = Tail(channel[p]) /\ \A q \in Pods : q # p => channel'[q] = channel[q]
  BY <1>1 DEF TasksInv, QueuesInv
<1>5. m \in 1..Len(sent) /\ m <= Len(sent) /\ m \in WS!Messages
  BY <1>2, <1>3, SentNumbers
<1> HIDE DEF m
<1>6. \A j, k \in 1..Len(channel[p]) : j # k => channel[p][j] # channel[p][k]
  BY DEF TasksInv, QueuesInv
<1>7. m \notin In(Tail(channel[p]))
  <2> SUFFICES ASSUME NEW k \in 1..(Len(channel[p]) - 1), Tail(channel[p])[k] = m PROVE FALSE
    BY <1>3 DEF In
  <2>1. k + 1 \in 1..Len(channel[p]) /\ k + 1 # 1 /\ 1 \in 1..Len(channel[p])
    BY <1>3
  <2> QED BY <1>3, <1>6, <2>1
<1>8. QueuesInv'
  <2>1. \A q \in Pods : \A k \in 1..Len(channel'[q]) : channel'[q][k] <= Len(sent)
    <3> SUFFICES ASSUME NEW k \in 1..(Len(channel[p]) - 1) PROVE Tail(channel[p])[k] <= Len(sent)
      BY <1>3, <1>4 DEF TasksInv, QueuesInv
    <3>1. k + 1 \in 1..Len(channel[p])
      BY <1>3
    <3> QED BY <1>3, <3>1 DEF TasksInv, QueuesInv
  <2>2. ASSUME NEW q \in Pods, NEW j \in 1..Len(channel'[q]), NEW k \in 1..Len(channel'[q]), j # k
        PROVE  channel'[q][j] # channel'[q][k]
    <3>1. CASE q = p
      <4>1. j \in 1..(Len(channel[p]) - 1) /\ k \in 1..(Len(channel[p]) - 1)
        BY <1>3, <1>4, <3>1
      <4>2. j + 1 \in 1..Len(channel[p]) /\ k + 1 \in 1..Len(channel[p]) /\ j + 1 # k + 1
        BY <1>3, <2>2, <4>1
      <4>3. channel'[q][j] = channel[p][j + 1] /\ channel'[q][k] = channel[p][k + 1]
        BY <1>3, <1>4, <3>1, <4>1
      <4>4. channel[p][j + 1] # channel[p][k + 1]
        BY ONLY <1>6, <4>2
      <4> QED BY ONLY <4>3, <4>4
    <3>2. CASE q # p
      BY <1>4, <2>2, <3>2 DEF TasksInv, QueuesInv
    <3> QED BY <3>1, <3>2
  <2>3. channel' \in [Pods -> Seq(WS!Messages)]
    BY <1>1, <1>3 DEF TasksInv, QueuesInv
  <2> QED BY <1>1, <2>1, <2>2, <2>3 DEF TasksInv, QueuesInv
<1>9. \A q \in Pods : /\ Waiting(q)' \subseteq Waiting(q)
                      /\ sent[m].pod # p => Waiting(q)' = IF q = p THEN Waiting(q) \ {m} ELSE Waiting(q)
  <2> SUFFICES ASSUME NEW q \in Pods, NEW n \in WS!Messages
               PROVE  /\ n \in Waiting(q)' => n \in Waiting(q)
                      /\ sent[m].pod # p => (n \in Waiting(q)' <=> n \in Waiting(q) /\ ~(q = p /\ n = m))
    BY DEF Waiting
  <2>1. In(channel[q])' = IF q = p THEN In(Tail(channel[p])) ELSE In(channel[q])
    BY <1>4 DEF In
  <2>2. n \in Waiting(q)' <=> (n \in local /\ sent[n].pod = q) \/ (n \in In(channel[q])' /\ sent[n].pod # q)
    BY <1>1 DEF Waiting
  <2>3. n \in Waiting(q) <=> (n \in local /\ sent[n].pod = q) \/ (n \in In(channel[q]) /\ sent[n].pod # q)
    BY DEF Waiting
  <2> QED BY <1>3, <1>7, <2>1, <2>2, <2>3
<1>10. /\ pairs \subseteq Clients \X WS!Connections
       /\ \A c \in Clients, i, j \in WS!Connections : <<c, i>> \in pairs /\ <<c, j>> \in pairs => i = j
       /\ \A c \in Clients, i \in WS!Connections : <<c, i>> \in pairs => place[i] = <<p, c>>
  <2>1. CASE pairs = {}
    BY <2>1
  <2>2. CASE pairs = WS!Recipients(p, sent[m].target)
    <3> HIDE DEF pairs
    <3> QED BY <2>2, RecipientsOnce
  <2> QED BY <2>1, <2>2
<1>11. pairs # {} => sent[m].pod # p
  OBVIOUS
<1> HIDE DEF pairs
<1>12. pairs # {} => TakesUp(m, p, pairs)
  <2> SUFFICES ASSUME pairs # {} PROVE TakesUp(m, p, pairs)
    OBVIOUS
  <2>1. m \in Waiting(p)
    BY <1>3, <1>5, <1>11 DEF Waiting
  <2> QED BY <1>1, <1>8, <1>9, <1>10, <1>11, <2>1 DEF TakesUp
<1>13. \A q \in Pods : Waiting(q)' \subseteq Waiting(q)
  BY <1>9
<1>14. \A c \in Clients, i \in WS!Connections : <<c, i>> \in pairs => place[i] = <<p, c>>
  BY <1>10
<1> QED BY <1>1, <1>5, <1>8, <1>12, <1>13, <1>14, FanOutKeeps

LEMMA SendNextKeeps ==
  ASSUME TasksInv, SocketsInv, NEW m \in WS!Messages, NEW p \in Pods, WS!SendNext(m, p)
  PROVE  TasksInv' /\ KeepsServed /\ SocketsInv' /\ SendsAtMostOne
<1>1. /\ todo[m][p] # {} /\ WS!FanOut(p, m, todo[m][p])
      /\ UNCHANGED <<clients, place, link, missed, sent, local, channel>>
  BY DEF WS!SendNext, WS!sockets
<1>2. QueuesInv' /\ \A q \in Pods : Waiting(q)' = Waiting(q)
  <2>1. QueuesInv'
    BY <1>1 DEF TasksInv, QueuesInv
  <2>2. \A q \in Pods : Waiting(q)' = Waiting(q)
    BY <1>1 DEF Waiting, In
  <2> QED BY <2>1, <2>2
<1>3. m \notin Waiting(p) /\ m <= Len(sent)
  BY <1>1 DEF TasksInv, LoopsInv
<1>4. /\ todo[m][p] \subseteq Clients \X WS!Connections
      /\ \A c \in Clients, i, j \in WS!Connections : <<c, i>> \in todo[m][p] /\ <<c, j>> \in todo[m][p] => i = j
      /\ \A c \in Clients, i \in WS!Connections : <<c, i>> \in todo[m][p] => place[i] = <<p, c>>
  BY DEF TasksInv, LoopsInv, SocketsInv
<1>5. TakesUp(m, p, todo[m][p])
  BY <1>1, <1>2, <1>3, <1>4 DEF TakesUp
<1> QED BY <1>1, <1>2, <1>3, <1>4, <1>5, FanOutKeeps

(* What a client that comes back is sent: WebSockets defines After by a      *)
(* recursive function, which is first shown to exist.                        *)
Picked(frames, seq, g, k) ==
  IF k = 0 THEN <<>>
  ELSE IF frames[k].seq > seq THEN Append(g[k - 1], frames[k]) ELSE g[k - 1]
Newer(frames, seq) == CHOOSE g : g = [k \in 0..Len(frames) |-> Picked(frames, seq, g, k)]

LEMMA AfterIsNewer == \A frames, seq : WS!After(frames, seq) = Newer(frames, seq)[Len(frames)]
BY DEF WS!After, Newer, Picked

LEMMA NewerExists ==
  ASSUME NEW S, NEW frames \in Seq(S), NEW seq
  PROVE  \A k \in 0..Len(frames) : Newer(frames, seq)[k] = Picked(frames, seq, Newer(frames, seq), k)
<1> DEFINE F == {n \in Nat : \E g : g = [k \in 0..n |-> Picked(frames, seq, g, k)]}
<1>1. 0 \in F
  <2> DEFINE g == [k \in 0..0 |-> <<>>]
  <2>1. g = [k \in 0..0 |-> Picked(frames, seq, g, k)]
    BY DEF Picked
  <2> HIDE DEF g
  <2> QED BY <2>1
<1>2. ASSUME NEW n \in Nat, n \in F PROVE n + 1 \in F
  <2>1. PICK g : g = [k \in 0..n |-> Picked(frames, seq, g, k)]
    BY <1>2
  <2> DEFINE h == [k \in 0..(n + 1) |-> IF k = n + 1 THEN Picked(frames, seq, g, k) ELSE g[k]]
  <2>2. ASSUME NEW k \in 0..(n + 1) PROVE h[k] = Picked(frames, seq, h, k)
    <3>1. CASE k = 0
      <4>1. k \in 0..n /\ k # n + 1
        BY <3>1
      <4>2. h[k] = g[k] /\ g[k] = Picked(frames, seq, g, k)
        BY <2>1, <4>1
      <4> QED BY <3>1, <4>2 DEF Picked
    <3>2. CASE k # 0
      <4>1. k - 1 \in 0..n /\ k - 1 \in 0..(n + 1) /\ k - 1 # n + 1
        BY <3>2
      <4>2. h[k - 1] = g[k - 1]
        BY <4>1
      <4>3. h[k] = Picked(frames, seq, g, k)
        <5>1. CASE k = n + 1
          BY <5>1
        <5>2. CASE k # n + 1
          <6>1. k \in 0..n
            BY <5>2
          <6> QED BY <2>1, <5>2, <6>1
        <5> QED BY <5>1, <5>2
      <4> HIDE DEF h
      <4> QED BY <3>2, <4>2, <4>3 DEF Picked
    <3> QED BY <3>1, <3>2
  <2>3. h = [k \in 0..(n + 1) |-> h[k]]
    OBVIOUS
  <2> HIDE DEF h
  <2>4. h = [k \in 0..(n + 1) |-> Picked(frames, seq, h, k)]
    BY <2>2, <2>3
  <2> QED BY <2>4
<1> HIDE DEF F
<1>3. Len(frames) \in F
  <2>1. Len(frames) \in Nat
    OBVIOUS
  <2> QED BY <1>1, <1>2, <2>1, NumberInduction
<1>4. \E g : g = [k \in 0..Len(frames) |-> Picked(frames, seq, g, k)]
  BY <1>3 DEF F
<1>5. Newer(frames, seq) = [k \in 0..Len(frames) |-> Picked(frames, seq, Newer(frames, seq), k)]
  BY <1>4 DEF Newer
<1> DEFINE g == Newer(frames, seq)
<1> HIDE DEF g
<1>6. g = [k \in 0..Len(frames) |-> Picked(frames, seq, g, k)]
  BY <1>5 DEF g
<1>7. \A k \in 0..Len(frames) : g[k] = Picked(frames, seq, g, k)
  BY <1>6
<1> QED BY <1>7 DEF g

LEMMA AfterOfBuffer ==
  ASSUME NEW frames \in Seq(WS!Frame), Apart(frames), NEW seq \in Nat
  PROVE  LET chosen == WS!After(frames, seq) IN
         chosen \in Seq(WS!Frame) /\ In(chosen) \subseteq In(frames) /\ Apart(chosen)
<1> DEFINE g == Newer(frames, seq)
           N == Len(frames)
           First(n) == {frames[j] : j \in 1..n}
           F == {n \in Nat : n <= N => g[n] \in Seq(WS!Frame) /\ In(g[n]) \subseteq First(n) /\ Apart(g[n])}
<1>1. N \in Nat /\ \A k \in 0..N : g[k] = Picked(frames, seq, g, k)
  BY NewerExists
<1>2. \A k \in 1..N : frames[k] \in WS!Frame
  OBVIOUS
<1> HIDE DEF g, N
<1>3. 0 \in F
  <2>1. g[0] = <<>>
    BY <1>1 DEF Picked
  <2>2. <<>> \in Seq(WS!Frame) /\ Len(<<>>) = 0
    OBVIOUS
  <2>3. In(<<>>) = {} /\ Apart(<<>>)
    BY <2>2 DEF In, Apart
  <2> QED BY <2>1, <2>2, <2>3
<1>4. ASSUME NEW n \in Nat, n \in F PROVE n + 1 \in F
  <2> SUFFICES ASSUME n + 1 <= N
               PROVE  g[n + 1] \in Seq(WS!Frame) /\ In(g[n + 1]) \subseteq First(n + 1) /\ Apart(g[n + 1])
    OBVIOUS
  <2> DEFINE f == frames[n + 1]
  <2>1. n + 1 \in 0..N /\ n + 1 # 0 /\ n + 1 \in 1..N /\ (n + 1) - 1 = n /\ n <= N
    BY <1>1
  <2>2. g[n] \in Seq(WS!Frame) /\ In(g[n]) \subseteq First(n) /\ Apart(g[n])
    BY <1>4, <2>1
  <2>3. g[n + 1] = IF f.seq > seq THEN Append(g[n], f) ELSE g[n]
    BY <1>1, <2>1 DEF Picked
  <2>4. First(n) \subseteq First(n + 1) /\ f \in First(n + 1)
    OBVIOUS
  <2>5. f \in WS!Frame
    BY <1>2, <2>1
  <2>6. \A e \in In(g[n]) : e.seq # f.seq
    <3> SUFFICES ASSUME NEW j \in 1..n PROVE frames[j].seq # f.seq
      BY <2>2
    <3>1. j \in 1..Len(frames) /\ n + 1 \in 1..Len(frames) /\ j # n + 1
      BY <2>1, <1>1 DEF N
    <3> QED BY <3>1 DEF Apart
  <2> HIDE DEF First, f
  <2>7. CASE g[n + 1] = g[n]
    BY <2>2, <2>4, <2>7
  <2>8. CASE g[n + 1] = Append(g[n], f)
    <3>1. Append(g[n], f) \in Seq(WS!Frame) /\ In(Append(g[n], f)) = In(g[n]) \cup {f}
      BY ONLY <2>2, <2>5, InAppend
    <3>2. Apart(Append(g[n], f))
      BY ONLY <2>2, <2>5, <2>6, ApartAppend
    <3> QED BY <2>2, <2>4, <2>8, <3>1, <3>2
  <2> QED BY <2>3, <2>7, <2>8
<1> HIDE DEF F
<1>5. N \in F
  BY <1>1, <1>3, <1>4, NumberInduction
<1>6. g[N] \in Seq(WS!Frame) /\ In(g[N]) \subseteq First(N) /\ Apart(g[N])
  BY <1>1, <1>5 DEF F
<1>7. First(N) = In(frames)
  BY DEF In, N
<1> QED BY <1>6, <1>7, AfterIsNewer DEF g, N

LEMMA MessagesFinite ==
  ASSUME TasksInv, NEW p \in Pods, NEW c \in Clients
  PROVE  /\ IsFiniteSet(Served(p, c)) /\ Cardinality(Served(p, c)) \in Nat
         /\ Cardinality(Served(p, c)) <= NumMessages
<1>1. NumMessages \in Nat /\ WS!Messages = 1..NumMessages
  BY SentNumbers
<1>2. IsFiniteSet(1..NumMessages) /\ Cardinality(1..NumMessages) = NumMessages
  <2>1. Cardinality(1..NumMessages) = IF NumMessages < 1 THEN 0 ELSE NumMessages - 1 + 1
    BY <1>1, FS_Interval
  <2> QED BY <1>1, <2>1, FS_Interval
<1>3. Served(p, c) \subseteq 1..NumMessages
  BY <1>1 DEF Served
<1> QED BY <1>2, <1>3, FS_Subset, FS_CardinalityType

LEMMA NumberingKept ==
  ASSUME TasksInv, TasksInv', KeepsServed, NEW p \in Pods, NEW c \in Clients, Numbering(p, c),
         seq_counters[p][c] \in Nat, seq_counters'[p][c] = seq_counters[p][c],
         Frames(p, c)' \subseteq Frames(p, c)
  PROVE  Numbering(p, c)'
<1>1. Served(p, c) \subseteq Served(p, c)'
  BY DEF KeepsServed
<1>2. /\ IsFiniteSet(Served(p, c)') /\ Cardinality(Served(p, c)') \in Nat
      /\ Cardinality(Served(p, c)) \in Nat
  <2>1. (IsFiniteSet(Served(p, c)) /\ Cardinality(Served(p, c)) \in Nat)'
    BY MessagesFinite, PTL
  <2> QED BY <2>1, MessagesFinite
<1>3. Cardinality(Served(p, c)) <= Cardinality(Served(p, c)')
  BY <1>1, <1>2, FS_Subset
<1>4. seq_counters'[p][c] <= Cardinality(Served(p, c)')
  BY <1>2, <1>3 DEF Numbering
<1> QED BY <1>1, <1>4 DEF Numbering

LEMMA EmitCounts ==
  ASSUME TasksInv, TasksInv', KeepsServed, FramesInv, NEW m \in WS!Messages, NEW p \in Pods, NEW c \in Clients,
         NEW i \in WS!Connections, Emits(m, p, c, i)
  PROVE  /\ seq_counters[p][c] \in Nat /\ [seq |-> seq_counters[p][c] + 1, msg |-> m] \in WS!Frame
         /\ seq_counters[p][c] + 1 <= Cardinality(Served(p, c)')
<1> DEFINE count == seq_counters[p][c]
<1>1. count \in Nat /\ count <= Cardinality(Served(p, c))
  BY DEF FramesInv, FrameTypes, Numbering
<1>2. Served(p, c) \subseteq Served(p, c)' /\ m \notin Served(p, c) /\ m \in Served(p, c)'
  BY DEF Emits, KeepsServed
<1>3. /\ IsFiniteSet(Served(p, c)) /\ Cardinality(Served(p, c)) \in Nat
      /\ IsFiniteSet(Served(p, c)') /\ Cardinality(Served(p, c)') \in Nat
      /\ Cardinality(Served(p, c)') <= NumMessages
  <2>1. (IsFiniteSet(Served(p, c)) /\ Cardinality(Served(p, c)) \in Nat /\ Cardinality(Served(p, c)) <= NumMessages)'
    BY MessagesFinite, PTL
  <2> QED BY <2>1, MessagesFinite
<1>4. Cardinality(Served(p, c) \cup {m}) = Cardinality(Served(p, c)) + 1
  BY <1>2, <1>3, FS_AddElement
<1>5. Cardinality(Served(p, c) \cup {m}) <= Cardinality(Served(p, c)')
  <2>1. Served(p, c) \cup {m} \subseteq Served(p, c)'
    BY <1>2
  <2> QED BY <1>3, <2>1, FS_Subset
<1> HIDE DEF count
<1>6. count + 1 <= Cardinality(Served(p, c)') /\ count + 1 \in 1..NumMessages
  BY <1>1, <1>3, <1>4, <1>5, WebSocketsAssumption
<1> QED BY <1>1, <1>6 DEF count, WS!Frame

LEMMA TrimKeeps ==
  ASSUME NEW frames \in Seq(WS!Frame)
  PROVE  WS!Trim(frames) \in Seq(WS!Frame) /\ In(WS!Trim(frames)) \subseteq In(frames)
<1>1. CASE Len(frames) > BufferSize
  <2>1. frames # <<>>
    BY <1>1, WebSocketsAssumption
  <2> QED BY <1>1, <2>1, InTail DEF WS!Trim
<1>2. CASE ~(Len(frames) > BufferSize)
  BY <1>2 DEF WS!Trim
<1> QED BY <1>1, <1>2

\* A buffer of the last frames remains one when a frame is added.
Tailed(frames, count) ==
  /\ Len(frames) = IF count < BufferSize THEN count ELSE BufferSize
  /\ \A k \in 1..Len(frames) : frames[k].seq = count - Len(frames) + k

LEMMA TailedKept ==
  ASSUME NEW frames \in Seq(WS!Frame), NEW count \in Nat, Tailed(frames, count),
         NEW f \in WS!Frame, f.seq = count + 1
  PROVE  Tailed(WS!Trim(Append(frames, f)), count + 1)
<1> DEFINE t == Append(frames, f)
           L == Len(frames)
<1>1. t \in Seq(WS!Frame) /\ Len(t) = L + 1 /\ L \in Nat /\ \A k \in 1..(L + 1) : t[k] = IF k = L + 1 THEN f ELSE frames[k]
  BY InAppend
<1>2. BufferSize \in Nat \ {0}
  BY WebSocketsAssumption
<1>3. L = (IF count < BufferSize THEN count ELSE BufferSize) /\ \A k \in 1..L : frames[k].seq = count - L + k
  BY DEF Tailed
<1> HIDE DEF t, L
<1>4. \A k \in 1..(L + 1) : t[k].seq = count - L + k
  <2> SUFFICES ASSUME NEW k \in 1..(L + 1) PROVE t[k].seq = count - L + k
    OBVIOUS
  <2>1. CASE k = L + 1
    BY <1>1, <2>1
  <2>2. CASE k # L + 1
    <3>1. k \in 1..L /\ t[k] = frames[k]
      BY <1>1, <2>2
    <3> QED BY <1>3, <3>1
  <2> QED BY <2>1, <2>2
<1>5. CASE Len(t) > BufferSize
  <2>1. L = BufferSize /\ ~(count + 1 < BufferSize)
    BY <1>1, <1>2, <1>3, <1>5
  <2>2. WS!Trim(t) = Tail(t)
    BY <1>5 DEF WS!Trim
  <2>3. t # <<>>
    BY <1>1, <1>2, <1>5
  <2>4. Len(Tail(t)) = L /\ \A k \in 1..L : Tail(t)[k] = t[k + 1]
    <3>1. Len(Tail(t)) = Len(t) - 1 /\ \A k \in 1..(Len(t) - 1) : Tail(t)[k] = t[k + 1]
      BY <1>1, <2>3, InTail
    <3> QED BY <1>1, <3>1
  <2>5. ASSUME NEW k \in 1..L PROVE Tail(t)[k].seq = (count + 1) - L + k
    <3>1. k + 1 \in 1..(L + 1)
      BY <1>1
    <3>2. t[k + 1].seq = count - L + (k + 1)
      BY <1>4, <3>1
    <3> QED BY <1>1, <2>4, <3>2
  <2> QED BY <2>1, <2>2, <2>4, <2>5 DEF Tailed, t
<1>6. CASE ~(Len(t) > BufferSize)
  <2>1. count = L /\ L + 1 = (IF count + 1 < BufferSize THEN count + 1 ELSE BufferSize)
    BY <1>1, <1>2, <1>3, <1>6
  <2>2. WS!Trim(t) = t
    BY <1>6 DEF WS!Trim
  <2>3. \A k \in 1..(L + 1) : t[k].seq = (count + 1) - (L + 1) + k
    BY <1>1, <1>4, <2>1
  <2> QED BY <1>1, <2>1, <2>2, <2>3 DEF Tailed, t
<1> QED BY <1>5, <1>6

LEMMA BuffersTailed == WS!BufferIsTail <=> \A p \in Pods, c \in Clients : Tailed(message_buffers[p][c], seq_counters[p][c])
BY DEF WS!BufferIsTail, Tailed

LEMMA TailedApart ==
  ASSUME NEW frames \in Seq(WS!Frame), NEW count \in Nat, Tailed(frames, count)
  PROVE  Apart(frames)
<1>1. Len(frames) \in Nat
  OBVIOUS
<1> QED BY <1>1 DEF Tailed, Apart

LEMMA FramesTyped ==
  ASSUME FrameTypes, NEW p \in Pods, NEW c \in Clients
  PROVE  /\ Frames(p, c) \subseteq WS!Frame
         /\ \A f \in WS!Frame : f.seq \in Nat
<1>1. message_buffers[p][c] \in Seq(WS!Frame)
  BY DEF FrameTypes
<1>2. In(message_buffers[p][c]) \subseteq WS!Frame
  BY <1>1 DEF In
<1>3. \A f \in WS!Frame : f.seq \in Nat
  BY DEF WS!Frame
<1> QED BY <1>2, <1>3 DEF Frames

\* Neither numbering nor delivery: nothing new about frames.
LEMMA QuietKeepsFrames ==
  ASSUME TasksInv, TasksInv', KeepsServed, FramesInv,
         UNCHANGED <<place, missed, seq_counters, message_buffers, inbox, lastSeq>>
  PROVE  FramesInv'
<1>1. FrameTypes' /\ WS!BufferIsTail'
  BY DEF FramesInv, FrameTypes, WS!BufferIsTail
<1>2. ASSUME NEW p \in Pods, NEW c \in Clients PROVE Numbering(p, c)'
  <2>1. Frames(p, c)' \subseteq Frames(p, c)
    BY DEF Frames, In
  <2>2. Numbering(p, c) /\ seq_counters[p][c] \in Nat /\ seq_counters'[p][c] = seq_counters[p][c]
    BY DEF FramesInv, FrameTypes
  <2> QED BY <2>1, <2>2, NumberingKept
<1>3. ASSUME NEW i \in WS!Connections PROVE Separate(i)'
  <2>1. Separate(i)
    BY DEF FramesInv
  <2> QED BY <2>1 DEF Separate, Apart, In
<1> QED BY <1>1, <1>2, <1>3 DEF FramesInv

LEMMA EmitKeepsFrames ==
  ASSUME TasksInv, TasksInv', KeepsServed, FramesInv, UNCHANGED <<place, missed>>,
         NEW m \in WS!Messages, NEW p \in Pods, NEW c \in Clients, NEW i \in WS!Connections, Emits(m, p, c, i)
  PROVE  FramesInv'
<1> DEFINE count == seq_counters[p][c]
           frame == [seq |-> count + 1, msg |-> m]
           kept == WS!Trim(Append(message_buffers[p][c], frame))
<1>1. /\ seq_counters' = [seq_counters EXCEPT ![p][c] = frame.seq]
      /\ message_buffers' = [message_buffers EXCEPT ![p][c] = kept]
      /\ WS!Receive(i, c, frame) /\ place[i] = <<p, c>>
  BY DEF Emits, WS!Emit
<1>2. count \in Nat /\ frame \in WS!Frame /\ count + 1 <= Cardinality(Served(p, c)')
  BY EmitCounts
<1>3. frame.seq = count + 1 /\ frame.msg = m
  OBVIOUS
<1>4. message_buffers[p][c] \in Seq(WS!Frame) /\ inbox[i] \in Seq(WS!Frame) /\ missed[i] \in Seq(WS!Frame)
  BY DEF FramesInv, FrameTypes
<1>5. kept \in Seq(WS!Frame) /\ In(kept) \subseteq In(message_buffers[p][c]) \cup {frame} /\ Tailed(kept, count + 1)
  <2> HIDE DEF frame, count
  <2>1. Append(message_buffers[p][c], frame) \in Seq(WS!Frame)
        /\ In(Append(message_buffers[p][c], frame)) = In(message_buffers[p][c]) \cup {frame}
    BY <1>2, <1>4, InAppend
  <2>2. Tailed(message_buffers[p][c], count)
    BY BuffersTailed DEF FramesInv, count
  <2>3. Tailed(kept, count + 1)
    BY <1>2, <1>3, <1>4, <2>2, TailedKept
  <2> QED BY <2>1, <2>3, TrimKeeps
<1>6. \/ inbox' = [inbox EXCEPT ![i] = Append(inbox[i], frame)] /\ lastSeq' = [lastSeq EXCEPT ![c] = frame.seq]
      \/ inbox' = inbox /\ lastSeq' = lastSeq
  BY <1>1 DEF WS!Receive
<1> HIDE DEF frame, kept
<1>7. /\ Append(inbox[i], frame) \in Seq(WS!Frame) /\ In(Append(inbox[i], frame)) = In(inbox[i]) \cup {frame}
  BY <1>2, <1>4, InAppend
<1>8. FrameTypes'
  <2>1. seq_counters' \in [Pods -> [Clients -> Nat]]
    BY <1>1, <1>2, <1>3 DEF FramesInv, FrameTypes
  <2>2. message_buffers' \in [Pods -> [Clients -> Seq(WS!Frame)]]
    BY <1>1, <1>5 DEF FramesInv, FrameTypes
  <2>3. inbox' \in [WS!Connections -> Seq(WS!Frame)]
    BY <1>6, <1>7 DEF FramesInv, FrameTypes
  <2>4. frame.seq \in 0..NumMessages
    BY <1>2 DEF WS!Frame
  <2>5. lastSeq' \in [Clients -> 0..NumMessages]
    BY <1>6, <2>4 DEF FramesInv, FrameTypes
  <2> QED BY <2>1, <2>2, <2>3, <2>5 DEF FramesInv, FrameTypes
<1>9. \A q \in Pods, d \in Clients :
        /\ q = p /\ d = c => seq_counters'[q][d] = count + 1 /\ message_buffers'[q][d] = kept
        /\ ~(q = p /\ d = c) => seq_counters'[q][d] = seq_counters[q][d] /\ message_buffers'[q][d] = message_buffers[q][d]
  BY <1>1, <1>3 DEF FramesInv, FrameTypes
<1>10. \A j \in WS!Connections :
         /\ j # i => inbox'[j] = inbox[j]
         /\ j = i => inbox'[j] = inbox[j] \/ inbox'[j] = Append(inbox[j], frame)
  BY <1>6 DEF FramesInv, FrameTypes
<1>11. WS!BufferIsTail'
  <2>1. ASSUME NEW q \in Pods, NEW d \in Clients PROVE Tailed(message_buffers'[q][d], seq_counters'[q][d])
    <3>1. Tailed(message_buffers[q][d], seq_counters[q][d])
      BY BuffersTailed DEF FramesInv
    <3>2. CASE q = p /\ d = c
      BY <1>5, <1>9, <3>2
    <3>3. CASE ~(q = p /\ d = c)
      BY <1>9, <3>1, <3>3
    <3> QED BY <3>2, <3>3
  <2> QED BY <2>1 DEF WS!BufferIsTail, Tailed
<1>12. \A f \in Frames(p, c) : f \in WS!Frame /\ f.seq \in Nat /\ f.seq <= count /\ f.msg \in Served(p, c)
  BY FramesTyped DEF FramesInv, Numbering
<1>13. ASSUME NEW q \in Pods, NEW d \in Clients
       PROVE  Frames(q, d)' \subseteq IF q = p /\ d = c THEN Frames(q, d) \cup {frame} ELSE Frames(q, d)
  <2> SUFFICES ASSUME NEW f \in Frames(q, d)'
               PROVE  f \in Frames(q, d) \/ (q = p /\ d = c /\ f = frame)
    OBVIOUS
  <2>1. CASE f \in In(message_buffers'[q][d])
    <3>1. f \in In(message_buffers[q][d]) \/ (q = p /\ d = c /\ f = frame)
      BY <1>5, <1>9, <2>1
    <3> QED BY <3>1 DEF Frames
  <2>2. ASSUME NEW j \in WS!Connections, f \in WS!Frame, place[j] = <<q, d>>, f \in In(missed[j]) \/ f \in In(inbox'[j])
        PROVE  f \in Frames(q, d) \/ (q = p /\ d = c /\ f = frame)
    <3>1. CASE f \in In(missed[j]) \/ f \in In(inbox[j])
      BY <2>2, <3>1 DEF Frames
    <3>2. CASE f \notin In(inbox[j]) /\ f \in In(inbox'[j])
      <4>1. j = i /\ In(inbox'[j]) = In(inbox[j]) \cup {frame}
        BY <1>7, <1>10, <3>2
      <4> QED BY <1>1, <2>2, <3>2, <4>1
    <3> QED BY <2>2, <3>1, <3>2
  <2> QED BY <2>1, <2>2 DEF Frames, In
<1>14. ASSUME NEW q \in Pods, NEW d \in Clients PROVE Numbering(q, d)'
  <2>1. CASE ~(q = p /\ d = c)
    <3>1. Numbering(q, d) /\ seq_counters[q][d] \in Nat
      BY DEF FramesInv, FrameTypes
    <3> QED BY <1>9, <1>13, <2>1, <3>1, NumberingKept
  <2>2. CASE q = p /\ d = c
    <3>1. seq_counters'[p][c] = count + 1 /\ Frames(p, c)' \subseteq Frames(p, c) \cup {frame}
      BY <1>9, <1>13, <2>2
    <3>2. \A f, g \in Frames(p, c) : f.seq = g.seq <=> f.msg = g.msg
      BY DEF FramesInv, Numbering
    <3>3. Served(p, c) \subseteq Served(p, c)' /\ m \notin Served(p, c) /\ m \in Served(p, c)'
      BY DEF KeepsServed, Emits
    <3>4. \A f \in Frames(p, c) : f.seq # count + 1 /\ f.seq <= count + 1 /\ f.msg # m /\ f.msg \in Served(p, c)'
      BY <1>2, <1>12, <3>3
    <3>5. \A f \in Frames(p, c)' : f.seq <= count + 1 /\ f.msg \in Served(p, c)'
      BY <1>2, <1>3, <3>1, <3>3, <3>4
    <3>6. \A f, g \in Frames(p, c)' : f.seq = g.seq <=> f.msg = g.msg
      BY <1>3, <3>1, <3>2, <3>4
    <3>7. Numbering(p, c)'
      BY <1>2, <3>1, <3>5, <3>6 DEF Numbering
    <3> QED BY <2>2, <3>7
  <2> QED BY <2>1, <2>2
<1>15. ASSUME NEW j \in WS!Connections PROVE Separate(j)'
  <2>1. Separate(j)
    BY DEF FramesInv
  <2>2. CASE inbox'[j] = inbox[j]
    BY <2>1, <2>2 DEF Separate, Apart, In
  <2>3. CASE j = i /\ inbox'[i] = Append(inbox[i], frame)
    <3>1. place[i] # <<>>
      BY <1>1
    <3>2. \A f \in In(missed[i]) \cup In(inbox[i]) : f \in Frames(p, c)
      <4>1. \A f \in In(missed[i]) \cup In(inbox[i]) : f \in WS!Frame
        BY <1>4 DEF In
      <4> QED BY <1>1, <4>1 DEF Frames
    <3>3. \A f \in In(missed[i]) \cup In(inbox[i]) : f.seq # frame.seq
      BY <1>2, <1>3, <1>12, <3>2
    <3>4. Apart(inbox'[i])
      BY <1>2, <1>4, <2>1, <2>3, <3>3, ApartAppend DEF Separate
    <3>5. In(inbox'[i]) = In(inbox[i]) \cup {frame}
      BY <1>7, <2>3
    <3>6. Apart(missed'[i]) /\ \A f \in In(missed'[i]), g \in In(inbox'[i]) : f.seq # g.seq
      BY <2>1, <2>3, <3>3, <3>5 DEF Separate
    <3> QED BY <2>3, <3>1, <3>4, <3>6 DEF Separate, Apart, In
  <2> QED BY <1>10, <2>2, <2>3
<1> QED BY <1>8, <1>11, <1>14, <1>15 DEF FramesInv

LEMMA TasksRest ==
  ASSUME TasksInv, UNCHANGED WS!tasks
  PROVE  TasksInv' /\ KeepsServed
<1>1. sent' = sent /\ channel' = channel /\ local' = local /\ todo' = todo
  BY DEF WS!tasks
<1>2. \A q \in Pods : Waiting(q)' = Waiting(q)
  BY <1>1 DEF Waiting, In
<1>3. QueuesInv'
  BY <1>1 DEF TasksInv, QueuesInv
<1> QED BY <1>1, <1>2, <1>3, LoopRests

LEMMA FramesStart == WS!Init => FramesInv
<1> SUFFICES ASSUME WS!Init PROVE FramesInv
  OBVIOUS
<1>1. /\ clients = [p \in Pods |-> [c \in Clients |-> 0]] /\ seq_counters = clients
      /\ message_buffers = [p \in Pods |-> [c \in Clients |-> <<>>]]
      /\ place = [i \in WS!Connections |-> <<>>] /\ missed = [i \in WS!Connections |-> <<>>]
      /\ inbox = [i \in WS!Connections |-> <<>>] /\ lastSeq = [c \in Clients |-> 0]
  BY DEF WS!Init
<1>2. In(<<>>) = {} /\ Apart(<<>>) /\ <<>> \in Seq(WS!Frame) /\ Len(<<>>) = 0
  BY DEF In, Apart
<1>3. NumMessages \in Nat /\ BufferSize \in Nat \ {0}
  BY WebSocketsAssumption
<1>4. FrameTypes
  BY <1>1, <1>2, <1>3 DEF FrameTypes
<1>5. ASSUME NEW p \in Pods, NEW c \in Clients PROVE Tailed(message_buffers[p][c], seq_counters[p][c])
  BY <1>1, <1>2, <1>3 DEF Tailed
<1>6. ASSUME NEW p \in Pods, NEW c \in Clients PROVE Numbering(p, c)
  <2>1. Frames(p, c) = {}
    BY <1>1, <1>2 DEF Frames
  <2>2. TasksInv
    BY SocketsStart
  <2>3. seq_counters[p][c] = 0 /\ Cardinality(Served(p, c)) \in Nat
    BY <1>1, <2>2, MessagesFinite
  <2>4. seq_counters[p][c] <= Cardinality(Served(p, c))
    BY <2>3
  <2> QED BY <2>1, <2>4 DEF Numbering
<1>7. ASSUME NEW i \in WS!Connections PROVE Separate(i)
  <2>1. missed[i] = <<>> /\ inbox[i] = <<>>
    BY <1>1
  <2> QED BY <1>2, <2>1 DEF Separate
<1> QED BY <1>4, <1>5, <1>6, <1>7, BuffersTailed DEF FramesInv

LEMMA ConnectKeeps ==
  ASSUME SocketServerInv, NEW i \in WS!Connections, NEW p \in Pods, NEW c \in Clients, NEW resume \in BOOLEAN,
         WS!Connect(i, p, c, resume)
  PROVE  SocketServerInv'
<1> DEFINE replayed == IF resume THEN WS!After(message_buffers[p][c], lastSeq[c]) ELSE <<>>
<1>1. /\ place[i] = <<>> /\ place' = [place EXCEPT ![i] = <<p, c>>] /\ link' = [link EXCEPT ![i] = "up"]
      /\ clients' = [clients EXCEPT ![p][c] = i] /\ missed' = [missed EXCEPT ![i] = replayed]
      /\ UNCHANGED <<seq_counters, message_buffers, inbox, lastSeq>> /\ UNCHANGED WS!tasks
  BY DEF WS!Connect
<1>2. TasksInv /\ SocketsInv /\ FramesInv
  BY DEF SocketServerInv
<1>3. TasksInv' /\ KeepsServed
  BY <1>1, <1>2, TasksRest
<1>4. <<p, c>> \in WS!Places /\ \A q \in Pods, d \in Clients : <<q, d>> # <<>>
  BY DEF WS!Places
<1>5. SocketsInv'
  <2>1. /\ clients' \in [Pods -> [Clients -> {0} \cup WS!Connections]]
        /\ place' \in [WS!Connections -> WS!Places \cup {<<>>}] /\ link' \in [WS!Connections -> {"up", "lost", "closed"}]
    BY <1>1, <1>2, <1>4 DEF SocketsInv
  <2>2. place'[i] = <<p, c>> /\ \A j \in WS!Connections : j # i => place'[j] = place[j]
    BY <1>1, <1>2 DEF SocketsInv
  <2>3. ASSUME NEW q \in Pods, NEW d \in Clients, clients'[q][d] # 0 PROVE place'[clients'[q][d]] = <<q, d>>
    <3>1. clients'[q][d] = IF q = p /\ d = c THEN i ELSE clients[q][d]
      BY <1>1, <1>2 DEF SocketsInv
    <3>2. CASE q = p /\ d = c
      BY <2>2, <3>1, <3>2
    <3>3. CASE ~(q = p /\ d = c)
      <4>1. clients'[q][d] = clients[q][d] /\ clients[q][d] \in WS!Connections /\ place[clients[q][d]] = <<q, d>>
        BY <1>2, <2>3, <3>1, <3>3 DEF SocketsInv
      <4>2. clients[q][d] # i
        BY <1>1, <1>4, <4>1
      <4> QED BY <2>2, <4>1, <4>2
    <3> QED BY <3>2, <3>3
  <2>4. ASSUME NEW m \in WS!Messages, NEW q \in Pods, NEW d \in Clients, NEW j \in WS!Connections, <<d, j>> \in todo'[m][q]
        PROVE  place'[j] = <<q, d>>
    <3>1. place[j] = <<q, d>>
      BY <1>1, <1>2, <2>4 DEF SocketsInv, WS!tasks
    <3>2. j # i
      BY <1>1, <1>4, <3>1
    <3> QED BY <2>2, <3>1, <3>2
  <2> QED BY <2>1, <2>3, <2>4 DEF SocketsInv
<1>6. message_buffers[p][c] \in Seq(WS!Frame) /\ lastSeq[c] \in Nat /\ inbox[i] = <<>>
  <2>1. lastSeq[c] \in 0..NumMessages
    BY <1>2 DEF FramesInv, FrameTypes
  <2> QED BY <1>1, <1>2, <2>1 DEF FramesInv, FrameTypes, Separate
<1>7. replayed \in Seq(WS!Frame) /\ In(replayed) \subseteq In(message_buffers[p][c]) /\ Apart(replayed)
  <2>1. Apart(message_buffers[p][c])
    <3>1. Tailed(message_buffers[p][c], seq_counters[p][c]) /\ seq_counters[p][c] \in Nat
      BY <1>2, BuffersTailed DEF FramesInv, FrameTypes
    <3> QED BY <1>6, <3>1, TailedApart
  <2>2. CASE resume
    BY <1>6, <2>1, <2>2, AfterOfBuffer
  <2>3. CASE ~resume
    BY <2>3 DEF In, Apart
  <2> QED BY <2>2, <2>3
<1> HIDE DEF replayed
<1>8. \A j \in WS!Connections : /\ j = i => missed'[j] = replayed /\ place'[j] = <<p, c>>
                                /\ j # i => missed'[j] = missed[j] /\ place'[j] = place[j]
  BY <1>1, <1>2 DEF SocketsInv, FramesInv, FrameTypes
<1>9. In(<<>>) = {} /\ Apart(<<>>)
  BY DEF In, Apart
<1>10. FrameTypes' /\ WS!BufferIsTail'
  <2>1. missed' \in [WS!Connections -> Seq(WS!Frame)]
    BY <1>1, <1>2, <1>7 DEF FramesInv, FrameTypes
  <2> QED BY <1>1, <1>2, <2>1 DEF FramesInv, FrameTypes, WS!BufferIsTail
<1>11. ASSUME NEW q \in Pods, NEW d \in Clients PROVE Numbering(q, d)'
  <2>1. Frames(q, d)' \subseteq Frames(q, d)
    <3> SUFFICES ASSUME NEW f \in Frames(q, d)' PROVE f \in Frames(q, d)
      OBVIOUS
    <3>1. CASE f \in In(message_buffers'[q][d])
      BY <1>1, <3>1 DEF Frames, In
    <3>2. ASSUME NEW j \in WS!Connections, f \in WS!Frame, place'[j] = <<q, d>>, f \in In(missed'[j]) \/ f \in In(inbox'[j])
          PROVE  f \in Frames(q, d)
      <4>1. inbox'[j] = inbox[j]
        BY <1>1
      <4>2. CASE j # i
        <5>1. place[j] = <<q, d>> /\ (f \in In(missed[j]) \/ f \in In(inbox[j]))
          BY <1>8, <3>2, <4>1, <4>2
        <5> QED BY <3>2, <5>1 DEF Frames
      <4>3. CASE j = i
        <5>1. <<q, d>> = <<p, c>> /\ f \in In(message_buffers[p][c])
          BY <1>6, <1>7, <1>8, <1>9, <3>2, <4>1, <4>3
        <5>2. q = p /\ d = c
          BY <5>1
        <5> QED BY <5>1, <5>2 DEF Frames
      <4> QED BY <4>2, <4>3
    <3> QED BY <3>1, <3>2 DEF Frames, In
  <2>2. Numbering(q, d) /\ seq_counters[q][d] \in Nat /\ seq_counters'[q][d] = seq_counters[q][d]
    BY <1>1, <1>2 DEF FramesInv, FrameTypes
  <2> QED BY <1>2, <1>3, <2>1, <2>2, NumberingKept
<1>12. ASSUME NEW j \in WS!Connections PROVE Separate(j)'
  <2>1. Separate(j) /\ inbox'[j] = inbox[j]
    BY <1>1, <1>2 DEF FramesInv
  <2>2. CASE j # i
    BY <1>8, <2>1, <2>2 DEF Separate, Apart, In
  <2>3. CASE j = i
    <3>1. place'[j] # <<>> /\ missed'[j] = replayed /\ inbox'[j] = <<>>
      BY <1>4, <1>6, <1>8, <2>1, <2>3
    <3> QED BY <1>7, <1>9, <3>1 DEF Separate, Apart, In
  <2> QED BY <2>2, <2>3
<1>13. FramesInv'
  BY <1>10, <1>11, <1>12 DEF FramesInv
<1> QED BY <1>3, <1>5, <1>13 DEF SocketServerInv

LEMMA ReplayKeeps ==
  ASSUME SocketServerInv, NEW i \in WS!Connections, WS!Replay(i)
  PROVE  SocketServerInv'
<1> DEFINE f == Head(missed[i])
           c == place[i][2]
<1>1. /\ missed[i] # <<>> /\ missed' = [missed EXCEPT ![i] = Tail(missed[i])] /\ WS!Receive(i, c, f)
      /\ UNCHANGED <<clients, seq_counters, message_buffers, place, link>> /\ UNCHANGED WS!tasks
  BY DEF WS!Replay, WS!pods
<1>2. TasksInv /\ SocketsInv /\ FramesInv
  BY DEF SocketServerInv
<1>3. TasksInv' /\ KeepsServed
  BY <1>1, <1>2, TasksRest
<1>4. SocketsInv'
  BY <1>1, <1>2 DEF SocketsInv, WS!tasks
<1>5. Separate(i) /\ missed[i] \in Seq(WS!Frame) /\ inbox[i] \in Seq(WS!Frame)
  BY <1>2 DEF FramesInv, FrameTypes
<1>6. place[i] # <<>> /\ place[i] \in Pods \X Clients
  BY <1>1, <1>2, <1>5 DEF Separate, SocketsInv, WS!Places
<1>7. /\ Tail(missed[i]) \in Seq(WS!Frame) /\ In(Tail(missed[i])) \subseteq In(missed[i])
      /\ f \in WS!Frame /\ f \in In(missed[i])
      /\ Apart(Tail(missed[i])) /\ \A g \in In(Tail(missed[i])) : g.seq # f.seq
  BY <1>1, <1>5, InTail, ApartTail DEF Separate
<1>8. c \in Clients
  BY <1>6
<1>9. \/ inbox' = [inbox EXCEPT ![i] = Append(inbox[i], f)] /\ lastSeq' = [lastSeq EXCEPT ![c] = f.seq]
      \/ inbox' = inbox /\ lastSeq' = lastSeq
  BY <1>1 DEF WS!Receive
<1> HIDE DEF f, c
<1>10. Append(inbox[i], f) \in Seq(WS!Frame) /\ In(Append(inbox[i], f)) = In(inbox[i]) \cup {f}
  BY <1>5, <1>7, InAppend
<1>11. Apart(Append(inbox[i], f))
  <2>1. Apart(inbox[i]) /\ \A g \in In(inbox[i]) : g.seq # f.seq
    BY <1>5, <1>7 DEF Separate
  <2> QED BY <1>5, <1>7, <2>1, ApartAppend
<1>12. \A j \in WS!Connections : /\ j # i => missed'[j] = missed[j] /\ inbox'[j] = inbox[j]
                                 /\ j = i => /\ missed'[j] = Tail(missed[i])
                                             /\ inbox'[j] = inbox[i] \/ inbox'[j] = Append(inbox[i], f)
  BY <1>1, <1>2, <1>9 DEF FramesInv, FrameTypes
<1>13. FrameTypes' /\ WS!BufferIsTail'
  <2>1. missed' \in [WS!Connections -> Seq(WS!Frame)]
    BY <1>1, <1>2, <1>7 DEF FramesInv, FrameTypes
  <2>2. inbox' \in [WS!Connections -> Seq(WS!Frame)]
    BY <1>2, <1>9, <1>10 DEF FramesInv, FrameTypes
  <2>3. f.seq \in 0..NumMessages
    BY <1>7 DEF WS!Frame
  <2>4. lastSeq' \in [Clients -> 0..NumMessages]
    BY <1>2, <1>9, <2>3 DEF FramesInv, FrameTypes
  <2> QED BY <1>1, <1>2, <2>1, <2>2, <2>4 DEF FramesInv, FrameTypes, WS!BufferIsTail
<1>14. ASSUME NEW q \in Pods, NEW d \in Clients PROVE Numbering(q, d)'
  <2>1. Frames(q, d)' \subseteq Frames(q, d)
    <3> SUFFICES ASSUME NEW g \in Frames(q, d)' PROVE g \in Frames(q, d)
      OBVIOUS
    <3>1. CASE g \in In(message_buffers'[q][d])
      BY <1>1, <3>1 DEF Frames, In
    <3>2. ASSUME NEW j \in WS!Connections, g \in WS!Frame, place'[j] = <<q, d>>, g \in In(missed'[j]) \/ g \in In(inbox'[j])
          PROVE  g \in Frames(q, d)
      <4>1. g \in In(missed[j]) \/ g \in In(inbox[j])
        BY <1>7, <1>10, <1>12, <3>2
      <4> QED BY <1>1, <3>2, <4>1 DEF Frames
    <3> QED BY <3>1, <3>2 DEF Frames, In
  <2>2. Numbering(q, d) /\ seq_counters[q][d] \in Nat /\ seq_counters'[q][d] = seq_counters[q][d]
    BY <1>1, <1>2 DEF FramesInv, FrameTypes
  <2> QED BY <1>2, <1>3, <2>1, <2>2, NumberingKept
<1>15. ASSUME NEW j \in WS!Connections PROVE Separate(j)'
  <2>1. Separate(j) /\ place'[j] = place[j]
    BY <1>1, <1>2 DEF FramesInv
  <2>2. CASE j # i
    BY <1>12, <2>1, <2>2 DEF Separate, Apart, In
  <2>3. CASE j = i
    <3>1. missed'[i] = Tail(missed[i]) /\ (inbox'[i] = inbox[i] \/ inbox'[i] = Append(inbox[i], f))
      BY <1>12
    <3>2. Apart(missed'[i]) /\ Apart(inbox'[i])
      BY <1>5, <1>7, <1>11, <3>1 DEF Separate
    <3>3. \A g \in In(missed'[i]), h \in In(inbox'[i]) : g.seq # h.seq
      BY <1>5, <1>7, <1>10, <3>1 DEF Separate
    <3>4. place'[i] # <<>>
      BY <1>1, <1>6
    <3> QED BY <2>3, <3>2, <3>3, <3>4 DEF Separate, Apart, In
  <2> QED BY <2>2, <2>3
<1>16. FramesInv'
  BY <1>13, <1>14, <1>15 DEF FramesInv
<1> QED BY <1>3, <1>4, <1>16 DEF SocketServerInv

LEMMA ReplayFailsKeeps ==
  ASSUME SocketServerInv, NEW i \in WS!Connections, WS!ReplayFails(i)
  PROVE  SocketServerInv'
<1>1. /\ missed' = [missed EXCEPT ![i] = <<>>] /\ link' = [link EXCEPT ![i] = "closed"]
      /\ UNCHANGED <<clients, seq_counters, message_buffers, place, inbox, lastSeq>> /\ UNCHANGED WS!tasks
  BY DEF WS!ReplayFails, WS!pods
<1>2. TasksInv /\ SocketsInv /\ FramesInv
  BY DEF SocketServerInv
<1>3. TasksInv' /\ KeepsServed
  BY <1>1, <1>2, TasksRest
<1>4. SocketsInv'
  BY <1>1, <1>2 DEF SocketsInv, WS!tasks
<1>5. In(<<>>) = {} /\ Apart(<<>>) /\ <<>> \in Seq(WS!Frame)
  BY DEF In, Apart
<1>6. \A j \in WS!Connections : (j # i => missed'[j] = missed[j]) /\ (j = i => missed'[j] = <<>>)
  BY <1>1, <1>2 DEF FramesInv, FrameTypes
<1>7. FrameTypes' /\ WS!BufferIsTail'
  <2>1. missed' \in [WS!Connections -> Seq(WS!Frame)]
    BY <1>1, <1>2, <1>5 DEF FramesInv, FrameTypes
  <2> QED BY <1>1, <1>2, <2>1 DEF FramesInv, FrameTypes, WS!BufferIsTail
<1>8. ASSUME NEW q \in Pods, NEW d \in Clients PROVE Numbering(q, d)'
  <2>1. Frames(q, d)' \subseteq Frames(q, d)
    <3> SUFFICES ASSUME NEW g \in Frames(q, d)' PROVE g \in Frames(q, d)
      OBVIOUS
    <3>1. CASE g \in In(message_buffers'[q][d])
      BY <1>1, <3>1 DEF Frames, In
    <3>2. ASSUME NEW j \in WS!Connections, g \in WS!Frame, place'[j] = <<q, d>>, g \in In(missed'[j]) \/ g \in In(inbox'[j])
          PROVE  g \in Frames(q, d)
      <4>1. g \in In(missed[j]) \/ g \in In(inbox[j])
        BY <1>1, <1>5, <1>6, <3>2
      <4> QED BY <1>1, <3>2, <4>1 DEF Frames
    <3> QED BY <3>1, <3>2 DEF Frames, In
  <2>2. Numbering(q, d) /\ seq_counters[q][d] \in Nat /\ seq_counters'[q][d] = seq_counters[q][d]
    BY <1>1, <1>2 DEF FramesInv, FrameTypes
  <2> QED BY <1>2, <1>3, <2>1, <2>2, NumberingKept
<1>9. ASSUME NEW j \in WS!Connections PROVE Separate(j)'
  <2>1. Separate(j) /\ place'[j] = place[j] /\ inbox'[j] = inbox[j]
    BY <1>1, <1>2 DEF FramesInv
  <2>2. missed'[j] = missed[j] \/ missed'[j] = <<>>
    BY <1>6
  <2> QED BY <1>5, <2>1, <2>2 DEF Separate, Apart, In
<1>10. FramesInv'
  BY <1>7, <1>8, <1>9 DEF FramesInv
<1> QED BY <1>3, <1>4, <1>10 DEF SocketServerInv

LEMMA LinkKeeps ==
  ASSUME SocketServerInv, NEW i \in WS!Connections, WS!Drop(i) \/ WS!Disconnected(i)
  PROVE  SocketServerInv'
<1>1. UNCHANGED <<seq_counters, message_buffers, place, missed, inbox, lastSeq>> /\ UNCHANGED WS!tasks
  BY DEF WS!Drop, WS!Disconnected, WS!pods
<1>2. TasksInv /\ SocketsInv /\ FramesInv
  BY DEF SocketServerInv
<1>3. TasksInv' /\ KeepsServed
  BY <1>1, <1>2, TasksRest
<1>4. FramesInv'
  BY <1>1, <1>2, <1>3, QuietKeepsFrames
<1>5. /\ link' \in [WS!Connections -> {"up", "lost", "closed"}]
      /\ clients' \in [Pods -> [Clients -> {0} \cup WS!Connections]]
      /\ \A p \in Pods, c \in Clients : clients'[p][c] = clients[p][c] \/ clients'[p][c] = 0
  <2>1. CASE WS!Drop(i)
    BY <1>2, <2>1 DEF WS!Drop, WS!pods, SocketsInv
  <2>2. CASE WS!Disconnected(i)
    <3>1. link' = [link EXCEPT ![i] = "closed"] /\ clients' = [clients EXCEPT ![place[i][1]][place[i][2]] = 0]
      BY <2>2 DEF WS!Disconnected
    <3> QED BY <1>2, <3>1 DEF SocketsInv
  <2> QED BY <2>1, <2>2
<1>6. SocketsInv'
  BY <1>1, <1>2, <1>5 DEF SocketsInv, WS!tasks
<1> QED BY <1>3, <1>4, <1>6 DEF SocketServerInv

LEMMA SocketServerSteps == SocketServerInv /\ [WS!Next]_websockets => SocketServerInv'
<1> SUFFICES ASSUME SocketServerInv, [WS!Next]_websockets PROVE SocketServerInv'
  OBVIOUS
<1>0. TasksInv /\ SocketsInv /\ FramesInv
  BY DEF SocketServerInv
<1>1. ASSUME NEW p \in Pods, NEW t \in Targets, WS!Publish(p, t) PROVE SocketServerInv'
  <2>1. TasksInv' /\ KeepsServed
    BY <1>0, <1>1, PublishKeepsTasks DEF KeepsServed
  <2>2. UNCHANGED <<clients, place, link, missed, seq_counters, message_buffers, inbox, lastSeq, todo>>
    BY <1>1 DEF WS!Publish, WS!pods, WS!sockets
  <2>3. SocketsInv'
    BY <1>0, <2>2 DEF SocketsInv
  <2>4. FramesInv'
    BY <1>0, <2>1, <2>2, QuietKeepsFrames
  <2> QED BY <2>1, <2>3, <2>4 DEF SocketServerInv
<1>2. ASSUME TasksInv', KeepsServed, SocketsInv', SendsAtMostOne, UNCHANGED <<place, missed>> PROVE SocketServerInv'
  <2>1. FramesInv'
    BY <1>0, <1>2, QuietKeepsFrames, EmitKeepsFrames DEF SendsAtMostOne
  <2> QED BY <1>2, <2>1 DEF SocketServerInv
<1>3. ASSUME NEW m \in WS!Messages, WS!SendLocal(m) PROVE SocketServerInv'
  BY <1>0, <1>2, <1>3, SendLocalKeeps DEF WS!SendLocal, WS!sockets
<1>4. ASSUME NEW p \in Pods, WS!Listen(p) PROVE SocketServerInv'
  BY <1>0, <1>2, <1>4, ListenKeeps DEF WS!Listen, WS!sockets
<1>5. ASSUME NEW m \in WS!Messages, NEW p \in Pods, WS!SendNext(m, p) PROVE SocketServerInv'
  BY <1>0, <1>2, <1>5, SendNextKeeps DEF WS!SendNext, WS!sockets
<1>6. ASSUME UNCHANGED websockets PROVE SocketServerInv'
  <2>1. UNCHANGED WS!tasks /\ UNCHANGED <<clients, place, link, missed, seq_counters, message_buffers, inbox, lastSeq, todo>>
    BY <1>6 DEF websockets, WS!tasks
  <2>2. TasksInv' /\ KeepsServed
    BY <1>0, <2>1, TasksRest
  <2>3. SocketsInv'
    BY <1>0, <2>1 DEF SocketsInv
  <2>4. FramesInv'
    BY <1>0, <2>1, <2>2, QuietKeepsFrames
  <2> QED BY <2>2, <2>3, <2>4 DEF SocketServerInv
<1> QED BY <1>1, <1>3, <1>4, <1>5, <1>6, ConnectKeeps, ReplayKeeps, ReplayFailsKeeps, LinkKeeps DEF WS!Next

(* The invariant holds of every behaviour of the socket server.              *)
THEOREM SocketServerInvariance == Spec => []SocketServerInv
<1>1. WS!Init => SocketServerInv
  BY SocketsStart, FramesStart DEF SocketServerInv
<1>2. Init => SocketServerInv
  BY <1>1, Behaviours
<1>3. SocketServerInv /\ [Next]_vars => SocketServerInv'
  BY SocketServerSteps, Behaviours
<1> QED BY <1>2, <1>3, PTL DEF Spec

(* Whatever connections, losses and loops there are, a pod's buffer for a    *)
(* client is the gapless tail of what it numbered, and no connection is sent *)
(* a message or a number twice.                                              *)
THEOREM SocketsFramesInOrder == Spec => []FramesInOrder
<1>1. SocketServerInv => WS!FramesInOrder
  <2> SUFFICES ASSUME SocketServerInv PROVE WS!BufferIsTail /\ WS!NumberedOnce /\ WS!ReplayedOrLive
    BY DEF WS!FramesInOrder
  <2>0. TasksInv /\ SocketsInv /\ FramesInv
    BY DEF SocketServerInv
  <2>1. ASSUME NEW i \in WS!Connections, NEW j \in 1..NumMessages, NEW k \in 1..NumMessages, j < k, k <= Len(inbox[i])
        PROVE  inbox[i][j].seq # inbox[i][k].seq /\ inbox[i][j].msg # inbox[i][k].msg
    <3>1. Separate(i) /\ inbox[i] \in Seq(WS!Frame)
      BY <2>0 DEF FramesInv, FrameTypes
    <3>2. NumMessages \in Nat
      BY WebSocketsAssumption
    <3>3. Len(inbox[i]) \in Nat
      BY <3>1
    <3>4. j \in 1..Len(inbox[i]) /\ k \in 1..Len(inbox[i]) /\ j # k
      BY <2>1, <3>2, <3>3
    <3>5. inbox[i][j].seq # inbox[i][k].seq
      BY <3>1, <3>4 DEF Separate, Apart
    <3>6. inbox[i] # <<>>
      BY <3>4
    <3>7. PICK p \in Pods, c \in Clients : place[i] = <<p, c>>
      BY <2>0, <3>1, <3>6 DEF Separate, SocketsInv, WS!Places
    <3>8. inbox[i][j] \in WS!Frame /\ inbox[i][k] \in WS!Frame /\ inbox[i][j] \in In(inbox[i]) /\ inbox[i][k] \in In(inbox[i])
      BY <3>1, <3>4 DEF In
    <3>9. inbox[i][j] \in Frames(p, c) /\ inbox[i][k] \in Frames(p, c)
      BY <3>7, <3>8 DEF Frames
    <3>10. Numbering(p, c)
      BY <2>0 DEF FramesInv
    <3> QED BY <3>5, <3>9, <3>10 DEF Numbering
  <2>2. WS!NumberedOnce
    BY <2>1 DEF WS!NumberedOnce
  <2>3. WS!ReplayedOrLive
    BY <2>1 DEF WS!ReplayedOrLive
  <2> QED BY <2>0, <2>2, <2>3 DEF FramesInv
<1>2. SocketServerInv => FramesInOrder
  BY <1>1 DEF FramesInOrder
<1> QED BY <1>2, SocketServerInvariance, PTL

LEMMA SocketsTyped == SocketServerInv => WS!TypeOK
<1> SUFFICES ASSUME SocketServerInv PROVE WS!TypeOK
  OBVIOUS
<1>1. TasksInv /\ SocketsInv /\ FramesInv
  BY DEF SocketServerInv
<1>2. \A p \in Pods, c \in Clients : seq_counters[p][c] \in 0..NumMessages
  <2> SUFFICES ASSUME NEW p \in Pods, NEW c \in Clients PROVE seq_counters[p][c] \in 0..NumMessages
    OBVIOUS
  <2>1. seq_counters[p][c] \in Nat /\ seq_counters[p][c] <= Cardinality(Served(p, c))
    BY <1>1 DEF FramesInv, FrameTypes, Numbering
  <2>2. Cardinality(Served(p, c)) \in Nat /\ Cardinality(Served(p, c)) <= NumMessages
    BY <1>1, MessagesFinite
  <2>3. NumMessages \in Nat
    BY WebSocketsAssumption
  <2> QED BY <2>1, <2>2, <2>3
<1>3. seq_counters \in [Pods -> [Clients -> 0..NumMessages]]
  BY <1>1, <1>2 DEF FramesInv, FrameTypes
<1>4. \A p \in Pods, c \in Clients : message_buffers[p][c] \in Seq(WS!Frame)
  BY <1>1 DEF FramesInv, FrameTypes
<1>5. local \subseteq WS!Messages
  BY <1>1, SentNumbers DEF TasksInv, QueuesInv
<1>6. \A m \in WS!Messages, p \in Pods : todo[m][p] \subseteq Clients \X WS!Connections
  BY <1>1, SentNumbers
<1> QED BY <1>1, <1>3, <1>4, <1>5, <1>6 DEF WS!TypeOK, TasksInv, QueuesInv, SocketsInv, FramesInv, FrameTypes

-----------------------------------------------------------------------------
(* Example 02: pages.                                                        *)

LEMMA PagesCardinality == \A S : OP!Cardinality(S) = Cardinality(S)
BY DEF OP!Cardinality, Cardinality

\* In a finite set of numbers each rank belongs to one of them: the rank, the
\* number of the smaller ones, tells two numbers apart, and there are as many
\* ranks as numbers.
Smaller(S, x) == {y \in S : y < x}

LEMMA RanksDiffer ==
  ASSUME NEW S \in SUBSET Nat, IsFiniteSet(S), NEW x \in S, NEW y \in S, x < y
  PROVE  /\ Cardinality(Smaller(S, x)) \in Nat /\ Cardinality(Smaller(S, y)) \in Nat
         /\ Cardinality(Smaller(S, x)) < Cardinality(Smaller(S, y))
         /\ Cardinality(Smaller(S, y)) < Cardinality(S)
<1>1. Smaller(S, x) \cup {x} \subseteq Smaller(S, y) /\ x \notin Smaller(S, x)
  <2>1. \A z \in S : z \in Nat /\ (z < x => z < y) /\ ~(x < x)
    OBVIOUS
  <2> QED BY <2>1 DEF Smaller
<1>2. Smaller(S, y) \cup {y} \subseteq S /\ y \notin Smaller(S, y)
  BY DEF Smaller
<1>3. IsFiniteSet(Smaller(S, x)) /\ IsFiniteSet(Smaller(S, y))
  BY FS_Subset DEF Smaller
<1>4. Cardinality(Smaller(S, x) \cup {x}) = Cardinality(Smaller(S, x)) + 1
      /\ Cardinality(Smaller(S, y) \cup {y}) = Cardinality(Smaller(S, y)) + 1
  BY <1>1, <1>2, <1>3, FS_AddElement
<1>5. Cardinality(Smaller(S, x) \cup {x}) <= Cardinality(Smaller(S, y))
  BY <1>1, <1>3, FS_Subset
<1>6. Cardinality(Smaller(S, y) \cup {y}) <= Cardinality(S)
  BY <1>2, FS_Subset
<1>7. Cardinality(Smaller(S, x)) \in Nat /\ Cardinality(Smaller(S, y)) \in Nat /\ Cardinality(S) \in Nat
  BY <1>3, FS_CardinalityType
<1> QED BY <1>4, <1>5, <1>6, <1>7

LEMMA RankBelow ==
  ASSUME NEW S \in SUBSET Nat, IsFiniteSet(S), NEW x \in S
  PROVE  Cardinality(S) \in Nat /\ Cardinality(Smaller(S, x)) \in 0..(Cardinality(S) - 1)
<1>1. Smaller(S, x) \cup {x} \subseteq S /\ x \notin Smaller(S, x)
  BY DEF Smaller
<1>2. IsFiniteSet(Smaller(S, x)) /\ Cardinality(Smaller(S, x)) \in Nat /\ Cardinality(S) \in Nat
  BY FS_Subset, FS_CardinalityType DEF Smaller
<1>3. Cardinality(Smaller(S, x) \cup {x}) = Cardinality(Smaller(S, x)) + 1
  BY <1>1, <1>2, FS_AddElement
<1>4. Cardinality(Smaller(S, x) \cup {x}) <= Cardinality(S)
  BY <1>1, FS_Subset
<1> QED BY <1>2, <1>3, <1>4

LEMMA RanksTaken ==
  ASSUME NEW S \in SUBSET Nat, IsFiniteSet(S)
  PROVE  \A k \in 1..Cardinality(S) : \E x \in S : Cardinality(Smaller(S, x)) = k - 1
<1> DEFINE n == Cardinality(S)
           rank == [x \in S |-> Cardinality(Smaller(S, x)) + 1]
<1>1. n \in Nat
  BY FS_CardinalityType
<1>2. \A x \in S : Cardinality(Smaller(S, x)) \in 0..(n - 1)
  BY RankBelow
<1>3. rank \in [S -> 1..n]
  <2> SUFFICES ASSUME NEW x \in S PROVE Cardinality(Smaller(S, x)) + 1 \in 1..n
    OBVIOUS
  <2> HIDE DEF n
  <2> QED BY <1>1, <1>2
<1>4. \A x, y \in S : x < y => Cardinality(Smaller(S, x)) # Cardinality(Smaller(S, y))
  <2> SUFFICES ASSUME NEW x \in S, NEW y \in S, x < y PROVE Cardinality(Smaller(S, x)) # Cardinality(Smaller(S, y))
    OBVIOUS
  <2>1. /\ Cardinality(Smaller(S, x)) \in Nat /\ Cardinality(Smaller(S, y)) \in Nat
        /\ Cardinality(Smaller(S, x)) < Cardinality(Smaller(S, y))
    BY RanksDiffer
  <2> QED BY ONLY <2>1
<1>5. \A x, y \in S : rank[x] = rank[y] => x = y
  <2> SUFFICES ASSUME NEW x \in S, NEW y \in S, x # y PROVE rank[x] # rank[y]
    OBVIOUS
  <2>1. x < y \/ y < x
    OBVIOUS
  <2>2. Cardinality(Smaller(S, x)) # Cardinality(Smaller(S, y))
    BY <1>4, <2>1
  <2>3. Cardinality(Smaller(S, x)) \in Nat /\ Cardinality(Smaller(S, y)) \in Nat
    BY <1>2
  <2>4. rank[x] = Cardinality(Smaller(S, x)) + 1 /\ rank[y] = Cardinality(Smaller(S, y)) + 1
    OBVIOUS
  <2> QED BY ONLY <2>2, <2>3, <2>4
<1> HIDE DEF rank
<1>6. rank \in Injection(S, 1..n)
  BY <1>3, <1>5 DEF Injection, IsInjective
<1>7. IsFiniteSet(1..n) /\ Cardinality(1..n) = n
  <2>1. Cardinality(1..n) = IF 1 > n THEN 0 ELSE n - 1 + 1
    BY <1>1, FS_Interval
  <2> QED BY <1>1, <2>1, FS_Interval
<1>8. rank \in Surjection(S, 1..n)
  BY <1>6, <1>7, FS_Injection
<1>9. ASSUME NEW k \in 1..n PROVE \E x \in S : Cardinality(Smaller(S, x)) = k - 1
  <2>1. PICK x \in S : rank[x] = k
    BY <1>8 DEF Surjection
  <2>2. Cardinality(Smaller(S, x)) \in Nat /\ k \in Nat
    BY <1>1, <1>2
  <2>3. Cardinality(Smaller(S, x)) + 1 = k
    BY <2>1 DEF rank
  <2>4. Cardinality(Smaller(S, x)) = k - 1
    BY <2>2, <2>3
  <2> QED BY <2>4
<1> QED BY <1>9

\* What a client was shown, and where it goes on.
PagesInv ==
  /\ placed \in SUBSET Ids /\ first \in SUBSET placed /\ limit \in Nat /\ after \in Nat
  /\ walk \in {"going", "ended", "failed"}
  /\ seen \in Seq(placed)
  /\ \A j, k \in 1..Len(seen) : j < k => seen[j] < seen[k]
  /\ walk = "going" => /\ after = IF seen = <<>> THEN 0 ELSE seen[Len(seen)]
                       /\ \A id \in first : id <= after => \E k \in 1..Len(seen) : seen[k] = id
  /\ walk = "ended" => \A id \in first : \E k \in 1..Len(seen) : seen[k] = id
  /\ walk = "failed" => limit = 0

LEMMA PagesInitially == OP!Init => PagesInv
<1> SUFFICES ASSUME OP!Init PROVE PagesInv
  OBVIOUS
<1>1. placed \in SUBSET Ids /\ limit \in Nat /\ first = placed /\ after = 0 /\ seen = <<>> /\ walk = "going"
  BY PagesAssumption DEF OP!Init
<1>2. seen \in Seq(placed) /\ Len(seen) = 0
  BY <1>1
<1>3. \A id \in first : ~(id <= after)
  BY <1>1, PagesAssumption
<1> QED BY <1>1, <1>2, <1>3 DEF PagesInv

LEMMA PagesPlaceStep ==
  ASSUME PagesInv, NEW id \in Ids \ placed, OP!PlaceOrder(id)
  PROVE  PagesInv'
<1>1. /\ placed' = placed \cup {id}
      /\ first' = (IF seen = <<>> /\ walk = "going" THEN placed' ELSE first)
      /\ UNCHANGED <<limit, after, seen, walk>>
  BY DEF OP!PlaceOrder
<1>2. placed' \in SUBSET Ids /\ first' \in SUBSET placed'
  BY <1>1 DEF PagesInv
<1>3. seen \in Seq(placed')
  <2>1. \A k \in 1..Len(seen) : seen[k] \in placed
    BY DEF PagesInv
  <2>2. seen \in Seq(placed) /\ placed \subseteq placed'
    BY <1>1 DEF PagesInv
  <2> QED BY <2>2
<1>4. CASE seen = <<>> /\ walk = "going"
  <2>1. after = 0
    BY <1>4 DEF PagesInv
  <2>2. \A x \in first' : ~(x <= after)
    BY <1>2, <2>1, PagesAssumption
  <2> QED BY <1>1, <1>2, <1>3, <1>4, <2>2 DEF PagesInv
<1>5. CASE ~(seen = <<>> /\ walk = "going")
  BY <1>1, <1>2, <1>3, <1>5 DEF PagesInv
<1> QED BY <1>4, <1>5

\* A page: the first rows behind the cursor, by ascending id; what is smaller
\* than one of them and behind the cursor is one of them.
LEMMA RowsInOrder ==
  ASSUME PagesInv
  PROVE  LET S == OP!Later
             page == OP!Rows
             n == Cardinality(S) IN
         /\ IsFiniteSet(S) /\ n \in Nat
         /\ page \in Seq(S) /\ Len(page) = IF n < limit THEN n ELSE limit
         /\ \A j, k \in 1..Len(page) : j < k => page[j] < page[k]
         /\ \A x \in S : Len(page) = n \/ (\E k \in 1..Len(page) : x <= page[k]) => \E k \in 1..Len(page) : page[k] = x
<1> DEFINE S == OP!Later
           n == Cardinality(S)
           len == IF n < limit THEN n ELSE limit
           page == OP!Rows
<1>1. S \in SUBSET Nat /\ IsFiniteSet(S) /\ n \in Nat /\ limit \in Nat
  <2>1. S \in SUBSET Ids /\ limit \in Nat
    BY DEF OP!Later, PagesInv
  <2>2. IsFiniteSet(S)
    BY <2>1, PagesAssumption, FS_Subset
  <2> QED BY <2>1, <2>2, PagesAssumption, FS_CardinalityType
<1>2. \A x : OP!Before(x) = Smaller(S, x)
  BY DEF OP!Before, Smaller
<1>3. page = [k \in 1..len |-> CHOOSE x \in S : Cardinality(Smaller(S, x)) = k - 1]
  BY <1>2, PagesCardinality DEF OP!Rows
<1> HIDE DEF S, page
<1>4. len \in Nat /\ len <= n
  BY <1>1
<1> HIDE DEF n, len
<1>5. ASSUME NEW k \in 1..len PROVE page[k] \in S /\ Cardinality(Smaller(S, page[k])) = k - 1
  <2>1. k \in 1..n
    BY <1>1, <1>4
  <2>2. \E x \in S : Cardinality(Smaller(S, x)) = k - 1
    BY <1>1, <2>1, RanksTaken DEF n
  <2> QED BY <1>3, <2>2
<1>6. page \in Seq(S) /\ Len(page) = len
  BY <1>3, <1>4, <1>5
<1>7. ASSUME NEW j \in 1..len, NEW k \in 1..len, j < k PROVE page[j] < page[k]
  <2>1. page[j] \in S /\ page[k] \in S /\ Cardinality(Smaller(S, page[j])) = j - 1 /\ Cardinality(Smaller(S, page[k])) = k - 1
    BY <1>5
  <2>2. page[j] # page[k]
    BY <1>4, <1>7, <2>1
  <2>3. ~(page[k] < page[j])
    <3> SUFFICES ASSUME page[k] < page[j] PROVE FALSE
      OBVIOUS
    <3>1. Cardinality(Smaller(S, page[k])) < Cardinality(Smaller(S, page[j]))
      BY <1>1, <2>1, RanksDiffer
    <3> QED BY <1>4, <1>7, <2>1, <3>1
  <2>4. page[j] \in Nat /\ page[k] \in Nat
    BY <1>1, <2>1
  <2> QED BY ONLY <2>2, <2>3, <2>4
<1>8. ASSUME NEW x \in S, len = n \/ (\E k \in 1..len : x <= page[k]) PROVE \E k \in 1..len : page[k] = x
  <2> DEFINE r == Cardinality(Smaller(S, x)) + 1
  <2>1. r \in 1..n /\ Cardinality(Smaller(S, x)) = r - 1
    <3>1. Cardinality(Smaller(S, x)) \in 0..(n - 1)
      BY <1>1, RankBelow DEF n
    <3> QED BY <1>1, <3>1
  <2> HIDE DEF r
  <2>2. r \in 1..len
    <3>1. CASE len = n
      BY <2>1, <3>1
    <3>2. ASSUME NEW k \in 1..len, x <= page[k] PROVE r \in 1..len
      <4>1. page[k] \in S /\ Cardinality(Smaller(S, page[k])) = k - 1 /\ x \in Nat /\ page[k] \in Nat
        BY <1>1, <1>5
      <4>2. CASE x = page[k]
        BY <1>4, <2>1, <4>1, <4>2
      <4>3. CASE x < page[k]
        <5>1. Cardinality(Smaller(S, x)) < Cardinality(Smaller(S, page[k]))
          BY <1>1, <4>1, <4>3, RanksDiffer
        <5> QED BY <1>1, <1>4, <2>1, <4>1, <5>1
      <4> QED BY <3>2, <4>1, <4>2, <4>3
    <3> QED BY <1>8, <3>1, <3>2
  <2>3. page[r] \in S /\ Cardinality(Smaller(S, page[r])) = r - 1
    BY <1>5, <2>2
  <2>4. ~(page[r] < x) /\ ~(x < page[r])
    <3>1. Cardinality(Smaller(S, page[r])) = Cardinality(Smaller(S, x)) /\ r \in Nat
      BY <1>1, <2>1, <2>3
    <3>2. ASSUME page[r] < x PROVE FALSE
      <4>1. Cardinality(Smaller(S, page[r])) \in Nat /\ Cardinality(Smaller(S, x)) \in Nat /\ Cardinality(Smaller(S, page[r])) < Cardinality(Smaller(S, x))
        BY <1>1, <2>3, <3>2, RanksDiffer
      <4> QED BY ONLY <3>1, <4>1
    <3>3. ASSUME x < page[r] PROVE FALSE
      <4>1. Cardinality(Smaller(S, page[r])) \in Nat /\ Cardinality(Smaller(S, x)) \in Nat /\ Cardinality(Smaller(S, x)) < Cardinality(Smaller(S, page[r]))
        BY <1>1, <2>3, <3>3, RanksDiffer
      <4> QED BY ONLY <3>1, <4>1
    <3> QED BY <3>2, <3>3
  <2>5. x \in Nat /\ page[r] \in Nat
    BY <1>1, <2>3
  <2>6. page[r] = x
    BY ONLY <2>4, <2>5
  <2> QED BY <2>2, <2>6
<1> QED BY <1>1, <1>6, <1>7, <1>8 DEF S, n, len, page

\* Behind what was shown, a page continues it.
LEMMA PageAppended ==
  ASSUME PagesInv, walk = "going"
  PROVE  LET all == seen \o OP!Rows IN
         /\ all \in Seq(placed) /\ Len(all) = Len(seen) + Len(OP!Rows)
         /\ \A j, k \in 1..Len(all) : j < k => all[j] < all[k]
         /\ \A k \in 1..Len(seen) : all[k] = seen[k]
         /\ \A k \in 1..Len(OP!Rows) : Len(seen) + k \in 1..Len(all) /\ all[Len(seen) + k] = OP!Rows[k]
<1> DEFINE p == OP!Rows
           all == seen \o p
<1>1. /\ p \in Seq(OP!Later) /\ \A j, k \in 1..Len(p) : j < k => p[j] < p[k]
  BY RowsInOrder
<1>2. OP!Later \subseteq placed /\ \A x \in OP!Later : x > after
  BY DEF OP!Later
<1>3. p \in Seq(placed) /\ Len(p) \in Nat /\ \A k \in 1..Len(p) : p[k] \in placed /\ p[k] > after
  <2>1. \A k \in 1..Len(p) : p[k] \in OP!Later
    BY <1>1
  <2>2. Len(p) \in Nat
    BY <1>1
  <2>3. p \in Seq(placed)
    BY <1>1, <1>2
  <2> QED BY <1>2, <2>1, <2>2, <2>3
<1>4. seen \in Seq(placed) /\ Len(seen) \in Nat /\ \A k \in 1..Len(seen) : seen[k] \in placed
  BY DEF PagesInv
<1> HIDE DEF p
<1>5. /\ all \in Seq(placed) /\ Len(all) = Len(seen) + Len(p)
      /\ \A k \in 1..(Len(seen) + Len(p)) : all[k] = IF k <= Len(seen) THEN seen[k] ELSE p[k - Len(seen)]
  BY <1>3, <1>4
<1> HIDE DEF all
<1>6. \A x \in placed : x \in Nat
  BY PagesAssumption DEF PagesInv
<1>7. ASSUME NEW k \in 1..Len(seen) PROVE seen[k] <= after
  <2>1. after = seen[Len(seen)] /\ Len(seen) \in 1..Len(seen)
    <3>1. seen # <<>>
      BY <1>4, <1>7
    <3> QED BY <1>4, <1>7, <3>1 DEF PagesInv
  <2>2. seen[k] \in Nat /\ seen[Len(seen)] \in Nat
    BY <1>4, <1>6, <2>1
  <2>3. k < Len(seen) => seen[k] < seen[Len(seen)]
    BY <2>1 DEF PagesInv
  <2>4. k < Len(seen) \/ k = Len(seen)
    BY <1>4
  <2> QED BY <2>1, <2>2, <2>3, <2>4
<1>8. ASSUME NEW j \in 1..Len(all), NEW k \in 1..Len(all), j < k PROVE all[j] < all[k]
  <2>1. CASE k <= Len(seen)
    <3>1. j \in 1..Len(seen) /\ k \in 1..Len(seen) /\ all[j] = seen[j] /\ all[k] = seen[k]
      BY <1>3, <1>4, <1>5, <1>8, <2>1
    <3> QED BY <1>8, <3>1 DEF PagesInv
  <2>2. CASE j <= Len(seen) /\ ~(k <= Len(seen))
    <3>1. j \in 1..Len(seen) /\ k - Len(seen) \in 1..Len(p) /\ all[j] = seen[j] /\ all[k] = p[k - Len(seen)]
      BY <1>3, <1>4, <1>5, <1>8, <2>2
    <3>2. seen[j] <= after /\ p[k - Len(seen)] > after /\ seen[j] \in Nat /\ p[k - Len(seen)] \in Nat
      BY <1>3, <1>4, <1>6, <1>7, <3>1
    <3>3. after \in Nat
      BY DEF PagesInv
    <3> QED BY <3>1, <3>2, <3>3
  <2>3. CASE ~(j <= Len(seen))
    <3>1. /\ j - Len(seen) \in 1..Len(p) /\ k - Len(seen) \in 1..Len(p) /\ j - Len(seen) < k - Len(seen)
          /\ all[j] = p[j - Len(seen)] /\ all[k] = p[k - Len(seen)]
      BY <1>3, <1>4, <1>5, <1>8, <2>3
    <3> QED BY <1>1, <3>1 DEF p
  <2>4. j \in Int /\ k \in Int /\ Len(seen) \in Nat
    BY <1>3, <1>4, <1>5
  <2>5. k <= Len(seen) \/ (j <= Len(seen) /\ ~(k <= Len(seen))) \/ ~(j <= Len(seen))
    BY <1>8, <2>4
  <2> QED BY <2>1, <2>2, <2>3, <2>5
<1>9. \A k \in 1..Len(p) : Len(seen) + k \in 1..Len(all) /\ all[Len(seen) + k] = p[k]
  BY <1>3, <1>4, <1>5
<1>10. \A k \in 1..Len(seen) : all[k] = seen[k]
  BY <1>3, <1>4, <1>5
<1> QED BY <1>5, <1>8, <1>9, <1>10 DEF p, all

LEMMA PagesListStep ==
  ASSUME PagesInv, OP!ListOrders
  PROVE  PagesInv'
<1> DEFINE p == OP!Rows
           all == seen \o p
           n == Cardinality(OP!Later)
<1>1. walk = "going" /\ UNCHANGED <<placed, limit, first>>
  BY DEF OP!ListOrders
<1>2. /\ n \in Nat /\ limit \in Nat /\ p \in Seq(OP!Later) /\ Len(p) = IF n < limit THEN n ELSE limit
      /\ \A x \in OP!Later : Len(p) = n \/ (\E k \in 1..Len(p) : x <= p[k]) => \E k \in 1..Len(p) : p[k] = x
  BY RowsInOrder DEF PagesInv
<1>3. /\ all \in Seq(placed) /\ Len(all) = Len(seen) + Len(p)
      /\ \A j, k \in 1..Len(all) : j < k => all[j] < all[k]
      /\ \A k \in 1..Len(seen) : all[k] = seen[k]
      /\ \A k \in 1..Len(p) : Len(seen) + k \in 1..Len(all) /\ all[Len(seen) + k] = p[k]
  BY <1>1, PageAppended
<1>4. /\ Len(p) # limit => walk' = "ended" /\ seen' = all /\ after' = 0
      /\ Len(p) = limit /\ p = <<>> => walk' = "failed" /\ UNCHANGED <<seen, after>>
      /\ Len(p) = limit /\ p # <<>> => seen' = all /\ after' = p[Len(p)] /\ walk' = walk
  BY DEF OP!ListOrders, OP!Last
<1> HIDE DEF p, all, n
<1>5. Len(seen) \in Nat /\ Len(p) \in Nat
  BY <1>2 DEF PagesInv
<1>6. \A k \in 1..Len(seen) : k \in 1..Len(all)
  BY <1>3, <1>5
<1>7. ASSUME NEW id \in first, id <= after \/ (\E k \in 1..Len(p) : p[k] = id)
      PROVE  \E k \in 1..Len(all) : all[k] = id
  <2>1. CASE id <= after
    <3>1. PICK k \in 1..Len(seen) : seen[k] = id
      BY <1>1, <2>1 DEF PagesInv
    <3> QED BY <1>3, <1>6, <3>1
  <2>2. CASE \E k \in 1..Len(p) : p[k] = id
    BY <1>3, <2>2
  <2> QED BY <1>7, <2>1, <2>2
<1>8. \A id \in first : id \in Nat /\ id \in placed /\ after \in Nat /\ (~(id <= after) => id \in OP!Later)
  BY PagesAssumption DEF PagesInv, OP!Later
<1>9. CASE Len(p) # limit
  <2>1. Len(p) = n
    BY <1>2, <1>9
  <2>2. \A id \in first : \E k \in 1..Len(all) : all[k] = id
    BY <1>2, <1>7, <1>8, <2>1
  <2> QED BY <1>1, <1>3, <1>4, <1>9, <2>2 DEF PagesInv
<1>10. CASE Len(p) = limit /\ p = <<>>
  <2>1. limit = 0
    BY <1>10
  <2> QED BY <1>1, <1>4, <1>10, <2>1 DEF PagesInv
<1>11. CASE Len(p) = limit /\ p # <<>>
  <2>1. Len(p) \in 1..Len(p)
    BY <1>2, <1>5, <1>11
  <2>2. p[Len(p)] \in OP!Later /\ p[Len(p)] \in Nat
    <3>1. p[Len(p)] \in OP!Later
      BY <1>2, <2>1
    <3> QED BY <3>1, PagesAssumption DEF OP!Later, PagesInv
  <2>3. all # <<>> /\ all[Len(all)] = p[Len(p)]
    BY <1>3, <1>5, <2>1
  <2>4. ASSUME NEW id \in first, id <= p[Len(p)] PROVE \E k \in 1..Len(all) : all[k] = id
    <3>1. CASE id <= after
      BY <1>7, <3>1
    <3>2. CASE ~(id <= after)
      <4>1. id \in OP!Later
        BY <1>8, <3>2
      <4>2. \E k \in 1..Len(p) : p[k] = id
        BY <1>2, <2>1, <2>4, <4>1
      <4> QED BY <1>7, <4>2
    <3> QED BY <3>1, <3>2
  <2> QED BY <1>1, <1>3, <1>4, <1>11, <2>2, <2>3, <2>4 DEF PagesInv
<1> QED BY <1>9, <1>10, <1>11

LEMMA PagesSteps == PagesInv /\ [OP!Next]_orderpages => PagesInv'
<1> SUFFICES ASSUME PagesInv, [OP!Next]_orderpages PROVE PagesInv'
  OBVIOUS
<1>1. CASE UNCHANGED orderpages
  BY <1>1 DEF PagesInv, orderpages
<1> QED BY <1>1, PagesPlaceStep, PagesListStep DEF OP!Next

(* Paging goes through the orders by ascending id, whoever places orders     *)
(* meanwhile.                                                                *)
THEOREM PagesInvariance == Spec => []PagesInv
<1>1. Init => PagesInv
  BY PagesInitially, Behaviours
<1>2. PagesInv /\ [Next]_vars => PagesInv'
  BY PagesSteps, Behaviours
<1> QED BY <1>1, <1>2, PTL DEF Spec

LEMMA PagesComplete == PagesInv => OP!PagesAreComplete
<1> SUFFICES ASSUME PagesInv PROVE OP!PagesAreComplete
  OBVIOUS
<1>1. seen \in Seq(placed) /\ OP!ToSet(seen) = {seen[k] : k \in 1..Len(seen)}
  BY DEF PagesInv, OP!ToSet
<1>2. OP!ToSet(seen) \subseteq placed
  BY <1>1
<1>3. walk = "ended" => first \subseteq OP!ToSet(seen)
  BY <1>1 DEF PagesInv
<1> QED BY <1>2, <1>3 DEF PagesInv, OP!PagesAreComplete

-----------------------------------------------------------------------------
(* Example 24: the router.                                                   *)
(* An order is where its tenant's request was sent; while no request of a    *)
(* tenant was sent elsewhere, a read of it goes there too.                   *)

RoutedRequest ==
  [pc : {"none"}]
    \cup [pc : {"post", "placed", "get", "read"}, tenant : Tenants, upstream : SR!Services,
          id : Nat, found : Tenants \cup {"", "stub"}]
Stored(orders, s, id, tenant) == id \in 1..Len(orders[s]) /\ orders[s][id] = tenant
Finds(orders, elsewhere, q) ==
  /\ q.pc = "placed" => Stored(orders, q.upstream, q.id, q.tenant)
  /\ q.pc = "get" /\ q.tenant \notin elsewhere => Stored(orders, q.upstream, q.id, q.tenant)
  /\ q.pc = "read" /\ q.tenant \notin elsewhere => q.found = q.tenant

RouterInv ==
  /\ routes \in [tenant_routes : [Tenants -> SR!Services \cup {"none"}], default : SR!Services]
  /\ stranglerOrders \in [SR!Services -> Seq(Tenants)]
  /\ stranglerRequest \in [Requests -> RoutedRequest]
  /\ \A r \in Requests : Finds(stranglerOrders, moved, stranglerRequest[r])

LEMMA RouterInitially == SR!Init => RouterInv
<1> SUFFICES ASSUME SR!Init PROVE RouterInv
  OBVIOUS
<1>1. routes \in [tenant_routes : [Tenants -> SR!Services \cup {"none"}], default : SR!Services]
  BY DEF SR!Init, SR!Initial, SR!Services
<1>2. stranglerOrders \in [SR!Services -> Seq(Tenants)]
  BY DEF SR!Init
<1>3. stranglerRequest \in [Requests -> RoutedRequest] /\ \A r \in Requests : stranglerRequest[r].pc = "none"
  BY DEF SR!Init, RoutedRequest
<1> QED BY <1>1, <1>2, <1>3 DEF RouterInv, Finds

\* Only the table or the counter changes, or nothing does.
LEMMA RouterRulesStep ==
  ASSUME RouterInv, SR!UpdateRules \/ SR!Restart
  PROVE  RouterInv'
<1>1. UNCHANGED <<stranglerOrders, stranglerRequest, moved>>
  BY DEF SR!UpdateRules, SR!Restart
<1>2. routes' \in [tenant_routes : [Tenants -> SR!Services \cup {"none"}], default : SR!Services]
  BY DEF SR!UpdateRules, SR!Restart, SR!Initial, SR!Services, RouterInv
<1> QED BY <1>1, <1>2 DEF RouterInv

LEMMA RouterSendStep ==
  ASSUME RouterInv, NEW r \in Requests, NEW t \in Tenants, NEW step \in {"post", "get"}, NEW id \in Nat,
         SR!Send(r, t, step, id, SR!ResolveUpstream(t)),
         step = "get" => \E q \in Requests : /\ stranglerRequest[q].pc = "placed" /\ stranglerRequest[q].tenant = t
                                             /\ stranglerRequest[q].id = id
  PROVE  RouterInv'
<1> DEFINE up == SR!ResolveUpstream(t)
           w == [pc |-> step, tenant |-> t, upstream |-> up, id |-> id, found |-> ""]
<1>1. /\ stranglerRequest' = [stranglerRequest EXCEPT ![r] = w]
      /\ moved' = (IF SR!Used(t) \subseteq {up} THEN moved ELSE moved \cup {t})
      /\ UNCHANGED <<routes, stranglerOrders>>
  BY DEF SR!Send
<1>2. up \in SR!Services
  BY DEF RouterInv, SR!ResolveUpstream
<1>3. /\ w \in RoutedRequest /\ w.pc = step /\ w.tenant = t /\ w.upstream = up /\ w.id = id
  BY <1>2 DEF RoutedRequest
<1>4. moved \subseteq moved'
  BY <1>1
<1>5. step = "get" /\ t \notin moved' => Stored(stranglerOrders, up, id, t)
  <2> SUFFICES ASSUME step = "get", t \notin moved' PROVE Stored(stranglerOrders, up, id, t)
    OBVIOUS
  <2>1. PICK q \in Requests : stranglerRequest[q].pc = "placed" /\ stranglerRequest[q].tenant = t /\ stranglerRequest[q].id = id
    OBVIOUS
  <2>2. stranglerRequest[q].upstream \in SR!Used(t)
    BY <2>1 DEF SR!Used
  <2>3. stranglerRequest[q].upstream = up
    BY <1>1, <2>2
  <2> QED BY <2>1, <2>3 DEF RouterInv, Finds
<1> HIDE DEF w, up
<1>6. stranglerRequest' \in [Requests -> RoutedRequest]
  BY <1>1, <1>3 DEF RouterInv
<1>7. \A q \in Requests : stranglerRequest'[q] = IF q = r THEN w ELSE stranglerRequest[q]
  BY <1>1 DEF RouterInv
<1>8. ASSUME NEW q \in Requests PROVE Finds(stranglerOrders, moved', stranglerRequest'[q])
  <2>1. CASE q = r
    BY <1>3, <1>5, <1>7, <2>1 DEF Finds
  <2>2. CASE q # r
    BY <1>4, <1>7, <2>2 DEF RouterInv, Finds
  <2> QED BY <2>1, <2>2
<1> QED BY <1>1, <1>6, <1>8 DEF RouterInv

LEMMA RouterCreateStep ==
  ASSUME RouterInv, NEW r \in Requests, SR!CreateOrder(r)
  PROVE  RouterInv'
<1> DEFINE q == stranglerRequest[r]
           s == q.upstream
           n == Len(stranglerOrders[s]) + 1
           w == [q EXCEPT !.pc = "placed", !.id = n]
<1>1. /\ q.pc = "post" /\ stranglerOrders' = [stranglerOrders EXCEPT ![s] = Append(stranglerOrders[s], q.tenant)]
      /\ stranglerRequest' = [stranglerRequest EXCEPT ![r].pc = "placed", ![r].id = n]
      /\ UNCHANGED <<routes, moved>>
  BY DEF SR!CreateOrder
<1>2. q \in [pc : {"post", "placed", "get", "read"}, tenant : Tenants, upstream : SR!Services,
             id : Nat, found : Tenants \cup {"", "stub"}]
  BY <1>1 DEF RouterInv, RoutedRequest
<1>3. /\ stranglerOrders[s] \in Seq(Tenants) /\ n \in Nat \ {0} /\ Len(stranglerOrders[s]) \in Nat /\ n = Len(stranglerOrders[s]) + 1
      /\ Append(stranglerOrders[s], q.tenant) \in Seq(Tenants) /\ Len(Append(stranglerOrders[s], q.tenant)) = n
      /\ \A k \in 1..n : Append(stranglerOrders[s], q.tenant)[k] = IF k = n THEN q.tenant ELSE stranglerOrders[s][k]
  <2>1. stranglerOrders[s] \in Seq(Tenants) /\ q.tenant \in Tenants
    BY <1>2 DEF RouterInv
  <2> HIDE DEF q, s
  <2> QED BY <2>1
<1>4. w \in RoutedRequest /\ w.pc = "placed" /\ w.id = n /\ w.upstream = s /\ w.tenant = q.tenant
  BY <1>2, <1>3 DEF RoutedRequest
<1>5. \A x \in Requests : stranglerRequest'[x] = IF x = r THEN w ELSE stranglerRequest[x]
  BY <1>1 DEF RouterInv
<1>6. stranglerRequest' \in [Requests -> RoutedRequest]
  BY <1>1, <1>4 DEF RouterInv
<1> HIDE DEF w, n, q, s
<1>7. stranglerOrders' \in [SR!Services -> Seq(Tenants)]
  BY <1>1, <1>3 DEF RouterInv
<1>8. \A u \in SR!Services : stranglerOrders'[u] = IF u = s THEN Append(stranglerOrders[s], q.tenant) ELSE stranglerOrders[u]
  BY <1>1 DEF RouterInv
<1>9. ASSUME NEW u \in SR!Services, NEW id, NEW t, Stored(stranglerOrders, u, id, t)
      PROVE  Stored(stranglerOrders', u, id, t)
  <2>1. CASE u = s
    <3>1. id \in 1..Len(stranglerOrders[s]) /\ stranglerOrders[s][id] = t
      BY <1>9, <2>1 DEF Stored
    <3>2. id \in 1..n /\ id # n
      BY <1>3, <3>1
    <3>3. stranglerOrders'[s] = Append(stranglerOrders[s], q.tenant)
      BY <1>8, <2>1
    <3> QED BY <1>3, <2>1, <3>1, <3>2, <3>3 DEF Stored
  <2>2. CASE u # s
    BY <1>8, <1>9, <2>2 DEF Stored
  <2> QED BY <2>1, <2>2
<1>10. Stored(stranglerOrders', s, n, q.tenant)
  <2>1. s \in SR!Services
    BY <1>2 DEF s, q
  <2>2. stranglerOrders'[s] = Append(stranglerOrders[s], q.tenant)
    BY <1>8, <2>1
  <2>3. n \in 1..n
    BY <1>3
  <2> QED BY <1>3, <2>2, <2>3 DEF Stored
<1>11. ASSUME NEW x \in Requests PROVE Finds(stranglerOrders', moved, stranglerRequest'[x])
  <2>1. CASE x = r
    BY <1>4, <1>5, <1>10, <2>1 DEF Finds
  <2>2. CASE x # r
    <3> DEFINE v == stranglerRequest[x]
    <3>1. stranglerRequest'[x] = v
      BY <1>5, <2>2
    <3>2. v.pc \in {"placed", "get"} => v.upstream \in SR!Services
      BY DEF RouterInv, RoutedRequest
    <3>3. Finds(stranglerOrders, moved, v)
      BY DEF RouterInv
    <3> HIDE DEF v
    <3> QED BY <1>9, <3>1, <3>2, <3>3 DEF Finds
  <2> QED BY <2>1, <2>2
<1> QED BY <1>1, <1>6, <1>7, <1>11 DEF RouterInv

LEMMA RouterGetStep ==
  ASSUME RouterInv, NEW r \in Requests, SR!GetOrder(r)
  PROVE  RouterInv'
<1> DEFINE q == stranglerRequest[r]
           found == IF q.id \in 1..Len(stranglerOrders[q.upstream]) THEN stranglerOrders[q.upstream][q.id] ELSE "stub"
           w == [q EXCEPT !.pc = "read", !.found = found]
<1>1. /\ q.pc = "get" /\ stranglerRequest' = [stranglerRequest EXCEPT ![r].pc = "read", ![r].found = found]
      /\ UNCHANGED <<routes, stranglerOrders, moved>>
  BY DEF SR!GetOrder
<1>2. q \in [pc : {"post", "placed", "get", "read"}, tenant : Tenants, upstream : SR!Services,
             id : Nat, found : Tenants \cup {"", "stub"}]
  BY <1>1 DEF RouterInv, RoutedRequest
<1>3. found \in Tenants \cup {"", "stub"}
  <2>1. stranglerOrders[q.upstream] \in Seq(Tenants)
    BY <1>2 DEF RouterInv
  <2> HIDE DEF q
  <2>2. q.id \in 1..Len(stranglerOrders[q.upstream]) => stranglerOrders[q.upstream][q.id] \in Tenants
    BY <2>1
  <2> QED BY <2>2
<1>4. q.tenant \notin moved => found = q.tenant
  BY <1>1 DEF RouterInv, Finds, Stored
<1> HIDE DEF found
<1>5. w \in RoutedRequest /\ w.pc = "read" /\ w.found = found /\ w.tenant = q.tenant
  BY <1>2, <1>3 DEF RoutedRequest
<1>6. \A x \in Requests : stranglerRequest'[x] = IF x = r THEN w ELSE stranglerRequest[x]
  BY <1>1 DEF RouterInv
<1>7. stranglerRequest' \in [Requests -> RoutedRequest]
  BY <1>1, <1>5 DEF RouterInv
<1> HIDE DEF w, q
<1>8. ASSUME NEW x \in Requests PROVE Finds(stranglerOrders, moved, stranglerRequest'[x])
  <2>1. CASE x = r
    BY <1>4, <1>5, <1>6, <2>1 DEF Finds
  <2>2. CASE x # r
    BY <1>6, <2>2 DEF RouterInv
  <2> QED BY <2>1, <2>2
<1> QED BY <1>1, <1>7, <1>8 DEF RouterInv

LEMMA RouterSteps == RouterInv /\ [SR!Next]_strangler => RouterInv'
<1> SUFFICES ASSUME RouterInv, [SR!Next]_strangler PROVE RouterInv'
  OBVIOUS
<1>1. CASE UNCHANGED strangler
  BY <1>1 DEF RouterInv, strangler
<1>2. ASSUME NEW r \in Requests, NEW t \in Tenants, SR!RoutePost(r, t) PROVE RouterInv'
  BY <1>2, RouterSendStep DEF SR!RoutePost
<1>3. ASSUME NEW r \in Requests, NEW t \in Tenants, SR!RouteGet(r, t) PROVE RouterInv'
  <2>1. PICK q \in Requests : /\ stranglerRequest[q].pc = "placed" /\ stranglerRequest[q].tenant = t
                              /\ SR!Send(r, t, "get", stranglerRequest[q].id, SR!ResolveUpstream(t))
    BY <1>3 DEF SR!RouteGet
  <2>2. stranglerRequest[q].id \in Nat
    BY <2>1 DEF RouterInv, RoutedRequest
  <2> QED BY <2>1, <2>2, RouterSendStep
<1> QED BY <1>1, <1>2, <1>3, RouterCreateStep, RouterGetStep, RouterRulesStep DEF SR!Next

(* A tenant that no change of the rules moved finds its orders.              *)
THEOREM RouterInvariance == Spec => []RouterInv
<1>1. Init => RouterInv
  BY RouterInitially, Behaviours
<1>2. RouterInv /\ [Next]_vars => RouterInv'
  BY RouterSteps, Behaviours
<1> QED BY <1>1, <1>2, PTL DEF Spec

-----------------------------------------------------------------------------
(* Example 03: the gateway.                                                  *)

StockOf(sku) == IF sku \in DOMAIN Stock THEN Stock[sku] ELSE 0
Known == {Stock[sku] : sku \in DOMAIN Stock} \cup {0}
ComposedQuery ==
  [pc : {"none", "resolving", "done"}, orders : Seq(Skus), next : Nat \ {0}, stock : Seq(Known)]

\* What a resolver has asked for is among the keys that its loader collected.
Resolved(q) ==
  /\ query[q].pc # "done" => calls[q] = 0
  /\ query[q].pc = "none" => query[q].next = 1
  /\ \A k \in 1..Len(query[q].orders) :
       /\ k < query[q].next => \E j \in 1..Len(loader[q]) : loader[q][j] = query[q].orders[k]
       /\ query[q].pc = "done" => query[q].stock[k] = StockOf(query[q].orders[k])

GatewayInv ==
  /\ gatewayOrders \in Seq(Skus)
  /\ query \in [Queries -> ComposedQuery] /\ loader \in [Queries -> Seq(Skus)] /\ calls \in [Queries -> 0..1]
  /\ \A q \in Queries : Resolved(q)

LEMMA GatewayCardinality == \A S : GW!Cardinality(S) = Cardinality(S)
BY DEF GW!Cardinality, Cardinality

\* However the inventory orders the items of its reply, all are there.
LEMMA SequencesOfSet ==
  ASSUME NEW S, IsFiniteSet(S), NEW items \in GW!SetToSeqs(S)
  PROVE  GW!ToSet(items) = S
<1> DEFINE n == Cardinality(S)
<1>1. n \in Nat
  BY FS_CardinalityType
<1>2. items \in [1..n -> S] /\ \A i, j \in 1..n : i # j => items[i] # items[j]
  BY GatewayCardinality DEF GW!SetToSeqs
<1>3. IsFiniteSet(1..n) /\ Cardinality(1..n) = n
  <2>1. Cardinality(1..n) = IF 1 > n THEN 0 ELSE n - 1 + 1
    BY <1>1, FS_Interval
  <2> HIDE DEF n
  <2> QED BY <1>1, <2>1, FS_Interval
<1>4. items \in Injection(1..n, S)
  BY <1>2 DEF Injection, IsInjective
<1>5. items \in Surjection(1..n, S)
  BY <1>3, <1>4, FS_Injection
<1> HIDE DEF n
<1>6. \A x \in S : \E i \in 1..n : items[i] = x
  BY <1>5 DEF Surjection
<1>7. DOMAIN items = 1..n /\ \A i \in 1..n : items[i] \in S
  BY <1>2
<1> QED BY <1>6, <1>7 DEF GW!ToSet

LEMMA BatchAnswers ==
  ASSUME NEW keys \in Seq(Skus), NEW items \in GW!SetToSeqs(GW!ToSet(GW!GetStockBatch(keys))),
         NEW j \in 1..Len(keys)
  PROVE  (CHOOSE item \in GW!ToSet(items) : item.sku = keys[j]).available = StockOf(keys[j])
<1> DEFINE item(k) == [sku |-> keys[k], available |-> StockOf(keys[k])]
           B == {item(k) : k \in 1..Len(keys)}
           f == [k \in 1..Len(keys) |-> item(k)]
<1>1. Len(keys) \in Nat /\ DOMAIN keys = 1..Len(keys)
  OBVIOUS
<1>2. GW!GetStockBatch(keys) = f
  BY <1>1 DEF GW!GetStockBatch, StockOf
<1>3. GW!ToSet(f) = B
  BY DEF GW!ToSet
<1>4. IsFiniteSet(B)
  <2>1. f \in Surjection(1..Len(keys), B)
    BY DEF Surjection
  <2>2. IsFiniteSet(1..Len(keys))
    BY <1>1, FS_Interval
  <2> HIDE DEF f, B
  <2> QED BY <2>1, <2>2, FS_Surjection
<1>5. GW!ToSet(items) = B
  <2>1. items \in GW!SetToSeqs(B)
    BY <1>2, <1>3
  <2> HIDE DEF B
  <2> QED BY <1>4, <2>1, SequencesOfSet
<1>6. item(j) \in B /\ item(j).sku = keys[j]
  OBVIOUS
<1>7. ASSUME NEW x \in B, x.sku = keys[j] PROVE x.available = StockOf(keys[j])
  <2>1. PICK k \in 1..Len(keys) : x = item(k)
    OBVIOUS
  <2> QED BY <1>7, <2>1
<1> HIDE DEF B, item
<1>8. (CHOOSE x \in B : x.sku = keys[j]) \in B /\ (CHOOSE x \in B : x.sku = keys[j]).sku = keys[j]
  BY <1>6
<1> QED BY <1>5, <1>7, <1>8

LEMMA GatewayInitially == gatewayOrders \in Seq(Skus) /\ GW!Init => GatewayInv
<1> SUFFICES ASSUME gatewayOrders \in Seq(Skus), GW!Init PROVE GatewayInv
  OBVIOUS
<1>1. [pc |-> "none", orders |-> <<>>, next |-> 1, stock |-> <<>>] \in ComposedQuery
  BY DEF ComposedQuery
<1>2. query \in [Queries -> ComposedQuery] /\ loader \in [Queries -> Seq(Skus)] /\ calls \in [Queries -> 0..1]
  BY <1>1 DEF GW!Init
<1>3. \A q \in Queries : Resolved(q)
  BY DEF GW!Init, Resolved
<1> QED BY <1>2, <1>3 DEF GatewayInv

\* A step of one query leaves the others alone.
Alone(q, w, keys, n) ==
  /\ query' = [query EXCEPT ![q] = w] /\ loader' = [loader EXCEPT ![q] = keys] /\ calls' = [calls EXCEPT ![q] = n]
  /\ w \in ComposedQuery /\ keys \in Seq(Skus) /\ n \in 0..1
  /\ w.pc # "done" => n = 0
  /\ w.pc = "none" => w.next = 1
  /\ \A k \in 1..Len(w.orders) :
       /\ k < w.next => \E j \in 1..Len(keys) : keys[j] = w.orders[k]
       /\ w.pc = "done" => w.stock[k] = StockOf(w.orders[k])

LEMMA GatewayAlone ==
  ASSUME GatewayInv, NEW q \in Queries, NEW w, NEW keys, NEW n, Alone(q, w, keys, n), gatewayOrders' = gatewayOrders
  PROVE  GatewayInv'
<1>1. /\ query' \in [Queries -> ComposedQuery] /\ loader' \in [Queries -> Seq(Skus)] /\ calls' \in [Queries -> 0..1]
      /\ query'[q] = w /\ loader'[q] = keys /\ calls'[q] = n
      /\ \A p \in Queries : p # q => query'[p] = query[p] /\ loader'[p] = loader[p] /\ calls'[p] = calls[p]
  BY DEF GatewayInv, Alone
<1>2. ASSUME NEW p \in Queries PROVE Resolved(p)'
  <2>1. CASE p = q
    BY <1>1, <2>1 DEF Alone, Resolved
  <2>2. CASE p # q
    <3>1. Resolved(p)
      BY DEF GatewayInv
    <3> QED BY <1>1, <2>2, <3>1 DEF Resolved
  <2> QED BY <2>1, <2>2
<1> QED BY <1>1, <1>2 DEF GatewayInv

LEMMA GatewayUnchanged ==
  ASSUME GatewayInv, NEW q \in Queries
  PROVE  loader = [loader EXCEPT ![q] = loader[q]] /\ calls = [calls EXCEPT ![q] = calls[q]]
         /\ query[q] \in ComposedQuery /\ loader[q] \in Seq(Skus) /\ calls[q] \in 0..1 /\ Resolved(q)
BY DEF GatewayInv

LEMMA GatewayFetchStep ==
  ASSUME GatewayInv, NEW q \in Queries,
         (\E lim \in 0..MaxOrders + 1 : GW!FetchOrders(q, lim)) \/ (\E id \in 1..MaxOrders + 1 : GW!FetchOrder(q, id))
  PROVE  GatewayInv'
<1>1. PICK pc \in {"resolving", "done"}, found \in Seq(Skus) :
        /\ query' = [query EXCEPT ![q].pc = pc, ![q].orders = found]
        /\ pc = "done" => found = <<>>
  <2>1. ASSUME NEW lim \in 0..MaxOrders + 1, GW!FetchOrders(q, lim)
        PROVE  \E pc \in {"resolving", "done"}, found \in Seq(Skus) :
                 query' = [query EXCEPT ![q].pc = pc, ![q].orders = found] /\ (pc = "done" => found = <<>>)
    <3> DEFINE n == IF lim < Len(gatewayOrders) THEN lim ELSE Len(gatewayOrders)
    <3>1. query' = [query EXCEPT ![q].pc = "resolving", ![q].orders = SubSeq(gatewayOrders, 1, n)]
      BY <2>1 DEF GW!FetchOrders
    <3>2. gatewayOrders \in Seq(Skus) /\ Len(gatewayOrders) \in Nat
      BY DEF GatewayInv
    <3>3. n \in 0..Len(gatewayOrders)
      BY <3>2
    <3> HIDE DEF n
    <3>4. SubSeq(gatewayOrders, 1, n) \in Seq(Skus)
      BY <3>2, <3>3
    <3> QED BY <3>1, <3>4
  <2>2. ASSUME NEW id \in 1..MaxOrders + 1, GW!FetchOrder(q, id)
        PROVE  \E pc \in {"resolving", "done"}, found \in Seq(Skus) :
                 query' = [query EXCEPT ![q].pc = pc, ![q].orders = found] /\ (pc = "done" => found = <<>>)
    <3> DEFINE pc == IF id \in DOMAIN gatewayOrders THEN "resolving" ELSE "done"
               found == IF id \in DOMAIN gatewayOrders THEN <<gatewayOrders[id]>> ELSE <<>>
    <3>1. query' = [query EXCEPT ![q].pc = pc, ![q].orders = found]
      BY <2>2 DEF GW!FetchOrder
    <3>2. gatewayOrders \in Seq(Skus)
      BY DEF GatewayInv
    <3>3. pc \in {"resolving", "done"} /\ found \in Seq(Skus) /\ (pc = "done" => found = <<>>)
      <4>1. CASE id \in DOMAIN gatewayOrders
        <5>1. gatewayOrders[id] \in Skus
          BY <3>2, <4>1
        <5> QED BY <4>1, <5>1
      <4>2. CASE id \notin DOMAIN gatewayOrders
        BY <4>2
      <4> QED BY <4>1, <4>2
    <3> QED BY <3>1, <3>3
  <2> QED BY <2>1, <2>2
<1> DEFINE w == [query[q] EXCEPT !.pc = pc, !.orders = found]
<1>2. query[q].pc = "none" /\ UNCHANGED <<gatewayOrders, loader, calls>>
  BY DEF GW!FetchOrders, GW!FetchOrder
<1>3. /\ query[q] \in ComposedQuery /\ loader[q] \in Seq(Skus) /\ calls[q] \in 0..1 /\ Resolved(q)
      /\ loader = [loader EXCEPT ![q] = loader[q]] /\ calls = [calls EXCEPT ![q] = calls[q]]
  BY GatewayUnchanged
<1>4. w \in ComposedQuery /\ w.pc = pc /\ w.orders = found /\ w.next = 1
  BY <1>2, <1>3 DEF ComposedQuery, Resolved
<1>5. query' = [query EXCEPT ![q] = w]
  BY <1>1 DEF GatewayInv
<1> HIDE DEF w
<1>6. Len(w.orders) \in Nat /\ (pc = "done" => Len(w.orders) = 0)
  BY <1>1, <1>4
<1>7. Alone(q, w, loader[q], calls[q])
  BY <1>2, <1>3, <1>4, <1>5, <1>6 DEF Alone, Resolved
<1> QED BY <1>2, <1>7, GatewayAlone

LEMMA GatewayLoadStep ==
  ASSUME GatewayInv, NEW q \in Queries, GW!LoadStock(q)
  PROVE  GatewayInv'
<1> DEFINE sku == query[q].orders[query[q].next]
           keys == IF sku \in GW!ToSet(loader[q]) THEN loader[q] ELSE Append(loader[q], sku)
           w == [query[q] EXCEPT !.next = query[q].next + 1]
<1>1. /\ query[q].pc = "resolving" /\ query[q].next <= Len(query[q].orders)
      /\ loader' = [loader EXCEPT ![q] = keys]
      /\ query' = [query EXCEPT ![q].next = @ + 1] /\ UNCHANGED <<gatewayOrders, calls>>
  BY DEF GW!LoadStock
<1>2. /\ query[q] \in ComposedQuery /\ loader[q] \in Seq(Skus) /\ calls[q] \in 0..1 /\ Resolved(q)
      /\ calls = [calls EXCEPT ![q] = calls[q]]
  BY GatewayUnchanged
<1>3. /\ query[q].orders \in Seq(Skus) /\ Len(query[q].orders) \in Nat /\ query[q].next \in Nat \ {0}
      /\ query[q].next \in 1..Len(query[q].orders)
  <2>1. query[q].orders \in Seq(Skus) /\ query[q].next \in Nat \ {0}
    BY <1>2 DEF ComposedQuery
  <2>2. Len(query[q].orders) \in Nat
    BY <2>1
  <2> QED BY <1>1, <2>1, <2>2
<1>4. sku \in Skus
  BY <1>3
<1>5. /\ keys \in Seq(Skus) /\ (\E j \in 1..Len(keys) : keys[j] = sku)
      /\ \A x : (\E j \in 1..Len(loader[q]) : loader[q][j] = x) => \E j \in 1..Len(keys) : keys[j] = x
  <2>1. CASE sku \in GW!ToSet(loader[q])
    <3>1. \E j \in 1..Len(loader[q]) : loader[q][j] = sku
      BY <1>2, <2>1 DEF GW!ToSet
    <3> QED BY <1>2, <2>1, <3>1
  <2>2. CASE sku \notin GW!ToSet(loader[q])
    <3> HIDE DEF sku
    <3>1. keys = Append(loader[q], sku)
      BY <2>2
    <3>2. /\ Append(loader[q], sku) \in Seq(Skus) /\ Len(Append(loader[q], sku)) = Len(loader[q]) + 1 /\ Len(loader[q]) \in Nat
          /\ \A k \in 1..(Len(loader[q]) + 1) : Append(loader[q], sku)[k] = IF k = Len(loader[q]) + 1 THEN sku ELSE loader[q][k]
      BY <1>2, <1>4
    <3> HIDE DEF keys
    <3>3. Len(keys) \in 1..Len(keys) /\ keys[Len(keys)] = sku
      BY <3>1, <3>2
    <3>4. \A j \in 1..Len(loader[q]) : j \in 1..Len(keys) /\ keys[j] = loader[q][j]
      BY <3>1, <3>2
    <3> QED BY <3>1, <3>2, <3>3, <3>4
  <2> QED BY <2>1, <2>2
<1>6. w \in ComposedQuery /\ w.pc = "resolving" /\ w.orders = query[q].orders /\ w.next = query[q].next + 1
  <2>1. query[q].next + 1 \in Nat \ {0}
    BY <1>3
  <2> HIDE DEF sku, keys
  <2> QED BY <1>1, <1>2, <2>1 DEF ComposedQuery
<1>7. query' = [query EXCEPT ![q] = w]
  BY <1>1 DEF GatewayInv
<1> HIDE DEF keys, w
<1>8. ASSUME NEW k \in 1..Len(w.orders), k < w.next PROVE \E j \in 1..Len(keys) : keys[j] = w.orders[k]
  <2>1. CASE k = query[q].next
    BY <1>5, <1>6, <2>1
  <2>2. CASE k # query[q].next
    <3>1. k < query[q].next
      BY <1>3, <1>6, <1>8, <2>2
    <3>2. \E j \in 1..Len(loader[q]) : loader[q][j] = query[q].orders[k]
      BY <1>2, <1>6, <3>1 DEF Resolved
    <3> QED BY <1>5, <1>6, <3>2
  <2> QED BY <2>1, <2>2
<1>9. calls[q] = 0
  BY <1>1, <1>2 DEF Resolved
<1>10. calls' = [calls EXCEPT ![q] = calls[q]]
  BY <1>1, <1>2
<1>11. Alone(q, w, keys, calls[q])
  BY <1>1, <1>2, <1>5, <1>6, <1>7, <1>8, <1>9, <1>10 DEF Alone
<1> QED BY <1>1, <1>11, GatewayAlone

LEMMA GatewayDispatchStep ==
  ASSUME GatewayInv, NEW q \in Queries, GW!Dispatch(q)
  PROVE  GatewayInv'
<1>1. /\ query[q].pc = "resolving" /\ query[q].next > Len(query[q].orders)
      /\ calls' = [calls EXCEPT ![q] = IF loader[q] = <<>> THEN calls[q] ELSE calls[q] + 1]
      /\ UNCHANGED <<gatewayOrders, loader>>
  BY DEF GW!Dispatch
<1> DEFINE shown(items) == [k \in DOMAIN query[q].orders |-> GW!BatchLoadStock(q, items)[query[q].orders[k]]]
<1>2. PICK items \in GW!SetToSeqs(GW!ToSet(GW!GetStockBatch(loader[q]))) :
        query' = [query EXCEPT ![q].pc = "done", ![q].stock = shown(items)]
  BY DEF GW!Dispatch
<1> DEFINE stocks == shown(items)
           w == [query[q] EXCEPT !.pc = "done", !.stock = stocks]
           n == IF loader[q] = <<>> THEN calls[q] ELSE calls[q] + 1
<1>3. /\ query[q] \in ComposedQuery /\ loader[q] \in Seq(Skus) /\ calls[q] = 0 /\ Resolved(q)
      /\ loader = [loader EXCEPT ![q] = loader[q]]
  BY <1>1, GatewayUnchanged DEF Resolved
<1>4. /\ query[q].orders \in Seq(Skus) /\ Len(query[q].orders) \in Nat /\ query[q].next \in Nat
      /\ DOMAIN query[q].orders = 1..Len(query[q].orders)
  <2>1. query[q].orders \in Seq(Skus) /\ query[q].next \in Nat
    BY <1>3 DEF ComposedQuery
  <2> QED BY <2>1
<1>5. ASSUME NEW k \in 1..Len(query[q].orders) PROVE stocks[k] = StockOf(query[q].orders[k])
  <2>1. k < query[q].next
    BY <1>1, <1>4
  <2>2. PICK j \in 1..Len(loader[q]) : loader[q][j] = query[q].orders[k]
    BY <1>3, <2>1 DEF Resolved
  <2>3. query[q].orders[k] \in GW!ToSet(loader[q])
    BY <1>3, <2>2 DEF GW!ToSet
  <2>4. GW!BatchLoadStock(q, items)[query[q].orders[k]]
          = (CHOOSE item \in GW!ToSet(items) : item.sku = query[q].orders[k]).available
    BY <2>3 DEF GW!BatchLoadStock
  <2>5. (CHOOSE item \in GW!ToSet(items) : item.sku = loader[q][j]).available = StockOf(loader[q][j])
    BY <1>2, <1>3, BatchAnswers
  <2>6. stocks[k] = GW!BatchLoadStock(q, items)[query[q].orders[k]]
    BY <1>4
  <2> HIDE DEF stocks
  <2> QED BY <2>2, <2>4, <2>5, <2>6
<1>6. stocks = [k \in 1..Len(query[q].orders) |-> stocks[k]]
  BY <1>4
<1> HIDE DEF stocks
<1>7. stocks \in Seq(Known)
  <2>1. \A k \in 1..Len(query[q].orders) : stocks[k] \in Known
    BY <1>5 DEF StockOf, Known
  <2> QED BY <1>4, <1>6, <2>1
<1>8. w \in ComposedQuery /\ w.pc = "done" /\ w.orders = query[q].orders /\ w.next = query[q].next /\ w.stock = stocks
  BY <1>3, <1>7 DEF ComposedQuery
<1>9. query' = [query EXCEPT ![q] = w]
  BY <1>2 DEF GatewayInv, stocks
<1>10. n \in 0..1 /\ calls' = [calls EXCEPT ![q] = n]
  BY <1>1, <1>3
<1> HIDE DEF w, n
<1>11. \A k \in 1..Len(w.orders) :
         /\ k < w.next => \E j \in 1..Len(loader[q]) : loader[q][j] = w.orders[k]
         /\ w.stock[k] = StockOf(w.orders[k])
  BY <1>3, <1>5, <1>8 DEF Resolved
<1>12. loader' = [loader EXCEPT ![q] = loader[q]]
  BY <1>1, <1>3
<1>13. Alone(q, w, loader[q], n)
  BY <1>3, <1>8, <1>9, <1>10, <1>11, <1>12 DEF Alone
<1> QED BY <1>1, <1>13, GatewayAlone

LEMMA GatewaySteps == GatewayInv /\ [GW!Next]_gateway => GatewayInv'
<1> SUFFICES ASSUME GatewayInv, [GW!Next]_gateway PROVE GatewayInv'
  OBVIOUS
<1>1. CASE UNCHANGED gateway
  BY <1>1 DEF GatewayInv, Resolved, gateway
<1>2. ASSUME GW!Next PROVE GatewayInv'
  <2>1. PICK q \in Queries : \/ (\E lim \in 0..MaxOrders + 1 : GW!FetchOrders(q, lim)) \/ (\E id \in 1..MaxOrders + 1 : GW!FetchOrder(q, id))
                             \/ GW!LoadStock(q) \/ GW!Dispatch(q)
    BY <1>2 DEF GW!Next
  <2> QED BY <2>1, GatewayFetchStep, GatewayLoadStep, GatewayDispatchStep
<1> QED BY <1>1, <1>2

(* Each query composes its answer from what it loaded itself.                *)
THEOREM GatewayInvariance == Spec => []GatewayInv
<1>1. Init => GatewayInv
  <2>1. GW!Init => gatewayOrders \in Seq(Skus)
    <3> SUFFICES ASSUME NEW n \in 0..MaxOrders, gatewayOrders \in [1..n -> Skus] PROVE gatewayOrders \in Seq(Skus)
      BY DEF GW!Init
    <3>1. n \in Nat
      OBVIOUS
    <3> QED BY <3>1
  <2> QED BY <2>1, GatewayInitially, Behaviours
<1>2. GatewayInv /\ [Next]_vars => GatewayInv'
  BY GatewaySteps, Behaviours
<1> QED BY <1>1, <1>2, PTL DEF Spec

LEMMA GatewayComposes == GatewayInv => GW!ComposedRight
<1> SUFFICES ASSUME GatewayInv, NEW q \in Queries
             PROVE  /\ calls[q] <= 1
                    /\ query[q].pc = "done" => \A k \in DOMAIN query[q].orders :
                         query[q].stock[k] = StockOf(query[q].orders[k])
  BY DEF GW!ComposedRight, StockOf
<1>1. query[q] \in ComposedQuery /\ calls[q] \in 0..1 /\ Resolved(q)
  BY GatewayUnchanged
<1>2. query[q].orders \in Seq(Skus)
  BY <1>1 DEF ComposedQuery
<1>3. DOMAIN query[q].orders = 1..Len(query[q].orders)
  BY <1>2
<1> QED BY <1>1, <1>3 DEF Resolved

-----------------------------------------------------------------------------
(* Pages show each order once and miss none (02), a tenant that was never    *)
(* moved reads its own orders (24), a composed answer shows each order with  *)
(* the stock of its own sku (03).                                            *)
THEOREM AnswersAreComplete == Spec => []AnswersComplete
<1>1. RouterInv => SR!OwnOrderIsRead
  BY DEF RouterInv, Finds, SR!OwnOrderIsRead
<1>2. PagesInv /\ RouterInv /\ GatewayInv => AnswersComplete
  BY <1>1, PagesComplete, GatewayComposes DEF AnswersComplete
<1> QED BY <1>2, PagesInvariance, RouterInvariance, GatewayInvariance, PTL

-----------------------------------------------------------------------------
(* The variables of the service that runs have their types in every state.   *)
THEOREM ServicesTyped == Spec => []TypeOK
<1>1. SocketServerInv /\ DrainInv /\ OrderingInv /\ EdgeInv /\ CacheInv /\ PipelineInv => TypeOK
  BY SocketsTyped, DrainTypes, OrderingTyped, EdgeTyped, PipelineTypesSuffice DEF TypeOK, CacheInv, PipelineInv
<1> QED BY <1>1, SocketServerInvariance, DrainInvariance, OrderingInvariance, EdgeInvariance, CacheInvariance, PipelineInvariance, PTL
=============================================================================
