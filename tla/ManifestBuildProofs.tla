------------------------- MODULE ManifestBuildProofs -------------------------
(* What a manifest that build.py made without a problem does to its deck, for *)
(* any decks, words, rewrites and edits.                                      *)
EXTENDS ManifestBuild, SequenceTheorems, FiniteSetTheorems, WellFoundedInduction, TLAPS

------------------------------------------------------------------------------
(* Induction over the numbers, and what a flattened sequence holds.           *)
LEMMA Least ==
  ASSUME NEW T \in SUBSET Nat, T # {}
  PROVE  \E m \in T : \A k \in T : m <= k
<1> DEFINE R == OpToRel(<, Nat)
<1>1. IsWellFoundedOn(R, Nat)
  BY NatLessThanWellFounded
<1>2. \A x, y \in Nat : <<y, x>> \in R <=> y < x
  BY DEF OpToRel
<1> HIDE DEF R
<1>3. PICK x \in T : \A y \in T : ~ (<<y, x>> \in R)
  BY <1>1, WFMin
<1>4. ASSUME NEW k \in T PROVE x <= k
  <2>1. k \in Nat /\ x \in Nat /\ ~ (k < x)
    BY <1>2, <1>3
  <2>2. QED
    BY <2>1
<1>5. QED
  BY <1>4

LEMMA NumberInduction ==
  ASSUME NEW F, 0 \in F, \A n \in Nat : n \in F => n + 1 \in F
  PROVE  \A n \in Nat : n \in F
<1> DEFINE T == {n \in Nat : n \notin F}
<1> SUFFICES ASSUME T # {} PROVE FALSE
  OBVIOUS
<1>1. PICK m \in T : \A k \in T : m <= k
  BY Least
<1>2. m - 1 \in Nat /\ m - 1 \notin T
  BY <1>1
<1>3. QED
  BY <1>1, <1>2

-------------------------------------------------------------------------------
(* FlattenSeq: what it computes up to each of its arguments.                 *)
LEMMA Accumulated ==
  ASSUME NEW a, NEW n \in Nat
  PROVE  \E f : f = [i \in 1..n |-> IF i = 1 THEN a[i] ELSE f[i - 1] \o a[i]]
<1> DEFINE Acc(f, m) == DOMAIN f = 1..m /\ \A i \in 1..m : f[i] = IF i = 1 THEN a[i] ELSE f[i - 1] \o a[i]
           F == {m \in Nat : \E f : Acc(f, m)}
<1>1. 0 \in F
  <2>1. Acc(<<>>, 0)
    OBVIOUS
  <2>2. QED
    BY <2>1
<1>2. ASSUME NEW m \in Nat, m \in F PROVE m + 1 \in F
  <2>1. PICK f : Acc(f, m)
    BY <1>2
  <2> DEFINE g == [i \in 1..m + 1 |-> IF i <= m THEN f[i] ELSE IF i = 1 THEN a[i] ELSE f[i - 1] \o a[i]]
  <2>2. DOMAIN g = 1..m + 1
    OBVIOUS
  <2>3. ASSUME NEW i \in 1..m + 1 PROVE g[i] = IF i = 1 THEN a[i] ELSE g[i - 1] \o a[i]
    <3>1. CASE i <= m
      <4>1. g[i] = f[i] /\ (i # 1 => g[i - 1] = f[i - 1])
        BY <3>1
      <4>2. f[i] = IF i = 1 THEN a[i] ELSE f[i - 1] \o a[i]
        <5>1. i \in 1..m
          BY <3>1
        <5> HIDE DEF g
        <5>2. QED
          BY <2>1, <5>1
      <4> HIDE DEF g
      <4>3. QED
        BY <4>1, <4>2
    <3>2. CASE i = m + 1
      <4>1. g[i] = (IF i = 1 THEN a[i] ELSE f[i - 1] \o a[i]) /\ (i # 1 => g[i - 1] = f[i - 1])
        BY <3>2
      <4> HIDE DEF g
      <4>2. QED
        BY <4>1
    <3>3. QED
      BY <3>1, <3>2
  <2>4. Acc(g, m + 1)
    BY <2>2, <2>3
  <2> HIDE DEF Acc, g
  <2>5. QED
    BY <2>4
<1>3. n \in F
  <2> HIDE DEF F
  <2>1. QED
    BY <1>1, <1>2, NumberInduction
<1>4. PICK f : Acc(f, n)
  BY <1>3
<1> DEFINE h == [i \in 1..n |-> f[i]]
<1>5. \A i \in 1..n : h[i] = f[i] /\ (i # 1 => h[i - 1] = f[i - 1])
  OBVIOUS
<1>6. h = [i \in 1..n |-> IF i = 1 THEN a[i] ELSE h[i - 1] \o a[i]]
  <2>1. DOMAIN h = 1..n /\ h = [i \in 1..n |-> h[i]]
    OBVIOUS
  <2> HIDE DEF h
  <2>2. QED
    BY <1>4, <1>5, <2>1
<1> HIDE DEF h
<1>7. QED
  BY <1>6

LEMMA Flattened ==
  ASSUME NEW a, NEW n \in Nat, n # 0, Len(a) = n
  PROVE  \E f : /\ FlattenSeq(a) = f[n]
                /\ \A i \in 1..n : f[i] = IF i = 1 THEN a[i] ELSE f[i - 1] \o a[i]
<1> DEFINE G(f) == f = [i \in 1..n |-> IF i = 1 THEN a[i] ELSE f[i - 1] \o a[i]]
           g == CHOOSE f : G(f)
<1>1. \E f : G(f)
  BY Accumulated
<1>2. G(g)
  <2> HIDE DEF G
  <2>1. QED
    BY <1>1
<1>3. FlattenSeq(a) = g[n]
  BY DEF FlattenSeq
<1> HIDE DEF g
<1>4. \A i \in 1..n : g[i] = IF i = 1 THEN a[i] ELSE g[i - 1] \o a[i]
  BY <1>2
<1>5. QED
  BY <1>3, <1>4

LEMMA FlatTyped ==
  ASSUME NEW X, NEW a \in Seq(Seq(X)) PROVE FlattenSeq(a) \in Seq(X)
<1> DEFINE n == Len(a)
<1>1. n \in Nat /\ \A i \in 1..n : a[i] \in Seq(X)
  BY LenProperties
<1>2. CASE n = 0
  <2>1. Len(a) = 0 /\ FlattenSeq(a) = a
    BY <1>2 DEF FlattenSeq
  <2>2. a = <<>>
    BY <2>1, EmptySeq
  <2>3. QED
    BY <2>1, <2>2, EmptySeq
<1>3. CASE n # 0
  <2>1. PICK f : FlattenSeq(a) = f[n] /\ \A i \in 1..n : f[i] = IF i = 1 THEN a[i] ELSE f[i - 1] \o a[i]
    <3> HIDE DEF n
    <3>1. Len(a) = n
      BY DEF n
    <3>2. QED
      BY <1>1, <1>3, <3>1, Flattened
  <2> DEFINE F == {m \in Nat : m + 1 \in 1..n => f[m + 1] \in Seq(X)}
  <2> HIDE DEF n
  <2>2. 0 \in F
    BY <1>1, <2>1
  <2>3. ASSUME NEW m \in Nat, m \in F PROVE m + 1 \in F
    <3>1. SUFFICES ASSUME m + 1 + 1 \in 1..n PROVE f[m + 1 + 1] \in Seq(X)
      OBVIOUS
    <3>2. f[m + 1 + 1] = f[m + 1] \o a[m + 1 + 1]
      <4> DEFINE q == m + 1 + 1
      <4>1. q # 1 /\ q - 1 = m + 1 /\ q \in 1..n
        BY <3>1
      <4> HIDE DEF q
      <4>2. f[q] = f[q - 1] \o a[q]
        BY <2>1, <4>1
      <4>3. QED
        BY <4>1, <4>2 DEF q
    <3>3. f[m + 1] \in Seq(X) /\ a[m + 1 + 1] \in Seq(X)
      BY <1>1, <2>3, <3>1
    <3>4. QED
      BY <3>2, <3>3, ConcatProperties
  <2>4. n - 1 \in F
    <3>1. n - 1 \in Nat
      BY <1>1, <1>3
    <3> HIDE DEF F
    <3>2. QED
      BY <2>2, <2>3, <3>1, NumberInduction
  <2>5. QED
    BY <1>1, <1>3, <2>1, <2>4
<1>4. QED
  BY <1>2, <1>3

-------------------------------------------------------------------------------
(* build.py, check_rewrites.py, verify_all.py: sums over finite sets.        *)
LEMMA SubsetsWellFounded ==
  ASSUME NEW S, IsFiniteSet(S)
  PROVE  IsWellFoundedOn(StrictSubsetOrdering(S), SUBSET S)
<1>1. FiniteSubsetsOf(S) = SUBSET S
  BY FS_FiniteSubsetsOfFinite
<1>2. IsWellFoundedOn(StrictSubsetOrdering(S), FiniteSubsetsOf(S))
  BY FS_StrictSubsetOrderingWellFounded
<1> QED BY <1>1, <1>2

(* A collection that has the empty set and stays closed when an element is   *)
(* added has every finite set.                                               *)
LEMMA SetInduction ==
  ASSUME NEW S, IsFiniteSet(S), NEW F, {} \in F,
         \A T \in SUBSET S : \A x \in S \ T : T \in F => T \cup {x} \in F
  PROVE  \A T \in SUBSET S : T \in F
<1> DEFINE B == {T \in SUBSET S : T \notin F}
<1> SUFFICES ASSUME B # {} PROVE FALSE
  OBVIOUS
<1>1. IsWellFoundedOn(StrictSubsetOrdering(S), SUBSET S)
  BY SubsetsWellFounded
<1>2. PICK T \in B : \A U \in B : ~ (<<U, T>> \in StrictSubsetOrdering(S))
  <2>1. B \subseteq SUBSET S
    OBVIOUS
  <2> HIDE DEF B
  <2> QED BY <1>1, <2>1, WFMin
<1>3. PICK x \in T : TRUE
  OBVIOUS
<1>4. <<T \ {x}, T>> \in StrictSubsetOrdering(S)
  BY DEF StrictSubsetOrdering
<1>5. T \ {x} \in F
  BY <1>2, <1>4
<1>6. (T \ {x}) \cup {x} = T /\ x \in S \ (T \ {x})
  OBVIOUS
<1>7. T \in SUBSET S /\ T \notin F
  BY <1>2
<1>8. T \ {x} \in SUBSET S
  BY <1>7
<1>9. (T \ {x}) \cup {x} \in F
  BY <1>5, <1>6, <1>8
<1> QED BY <1>6, <1>7, <1>9

(* The same, from smaller sets to larger ones.                               *)
LEMMA SubsetInduction ==
  ASSUME NEW S, IsFiniteSet(S), NEW F,
         \A T \in SUBSET S : (\A U \in SUBSET T : U # T => U \in F) => T \in F
  PROVE  \A T \in SUBSET S : T \in F
<1> DEFINE B == {T \in SUBSET S : T \notin F}
<1> SUFFICES ASSUME B # {} PROVE FALSE
  OBVIOUS
<1>1. IsWellFoundedOn(StrictSubsetOrdering(S), SUBSET S)
  BY SubsetsWellFounded
<1>2. PICK T \in B : \A U \in B : ~ (<<U, T>> \in StrictSubsetOrdering(S))
  <2>1. B \subseteq SUBSET S
    OBVIOUS
  <2> HIDE DEF B
  <2> QED BY <1>1, <2>1, WFMin
<1>3. \A U \in SUBSET T : U # T => U \in F
  BY <1>2 DEF StrictSubsetOrdering
<1> QED BY <1>2, <1>3

(* One round of the recursion behind a sum, and the partial sums over all    *)
(* subsets of a set.                                                         *)
SumStep(f, g, s) == IF s = {} THEN 0 ELSE f[CHOOSE x \in s : TRUE] + g[s \ {CHOOSE x \in s : TRUE}]
SumTable(f, S) == CHOOSE g : g = [s \in SUBSET S |-> SumStep(f, g, s)]

LEMMA SumIsTable == \A f, S : SumFunctionOnSet(f, S) = SumTable(f, S)[S]
BY DEF SumFunctionOnSet, FoldFunctionOnSet, MapThenFoldSet, SumTable, SumStep

LEMMA TableExists ==
  ASSUME NEW f, NEW S, IsFiniteSet(S)
  PROVE  SumTable(f, S) = [s \in SUBSET S |-> SumStep(f, SumTable(f, S), s)]
<1> DEFINE Up(n) == {s \in SUBSET S : Cardinality(s) <= n}
           F == {n \in Nat : \E g : g = [s \in Up(n) |-> SumStep(f, g, s)]}
<1>0. \A s \in SUBSET S : IsFiniteSet(s) /\ Cardinality(s) \in Nat /\ Cardinality(s) <= Cardinality(S)
      /\ \A x \in s : Cardinality(s \ {x}) = Cardinality(s) - 1
      /\ (Cardinality(s) = 0 <=> s = {})
  BY FS_Subset, FS_CardinalityType, FS_RemoveElement, FS_EmptySet
<1>1. 0 \in F
  <2> DEFINE g == [s \in Up(0) |-> 0]
  <2>1. Up(0) = {{}}
    <3>1. ASSUME NEW s \in SUBSET S, Cardinality(s) <= 0 PROVE s = {}
      <4>1. Cardinality(s) = 0
        BY <1>0, <3>1
      <4> QED BY <1>0, <4>1
    <3>2. Cardinality({}) = 0
      BY FS_EmptySet
    <3> QED BY <3>1, <3>2
  <2>2. g = [s \in Up(0) |-> SumStep(f, g, s)]
    BY <2>1 DEF SumStep
  <2> HIDE DEF g
  <2> QED BY <2>2
<1>2. ASSUME NEW n \in Nat, n \in F PROVE n + 1 \in F
  <2>1. PICK g : g = [s \in Up(n) |-> SumStep(f, g, s)]
    BY <1>2
  <2> DEFINE h == [s \in Up(n + 1) |-> IF s \in Up(n) THEN g[s] ELSE SumStep(f, g, s)]
  <2>2. ASSUME NEW s \in Up(n + 1) PROVE h[s] = SumStep(f, h, s)
    <3>1. CASE s = {}
      <4>1. s \in Up(n)
        <5>1. Cardinality(s) = 0
          BY <3>1, FS_EmptySet
        <5> QED BY <5>1
      <4>2. g[s] = SumStep(f, g, s)
        BY <2>1, <4>1
      <4> QED BY <4>1, <4>2, <3>1 DEF SumStep
    <3>2. CASE s # {}
      <4> DEFINE x == CHOOSE y \in s : TRUE
      <4>1. x \in s
        BY <3>2
      <4>2. s \ {x} \in Up(n)
        <5>1. Cardinality(s) <= n + 1 /\ Cardinality(s) \in Nat /\ s \in SUBSET S
          BY <1>0
        <5>2. Cardinality(s \ {x}) = Cardinality(s) - 1
          BY <1>0, <4>1, <5>1
        <5>3. Cardinality(s \ {x}) <= n /\ s \ {x} \in SUBSET S
          BY <5>1, <5>2
        <5> QED BY <5>3
      <4>3. h[s \ {x}] = g[s \ {x}]
        BY <4>2, <1>0
      <4>4. SumStep(f, h, s) = SumStep(f, g, s)
        BY <4>3, <3>2 DEF SumStep
      <4>5. s \in Up(n) => g[s] = SumStep(f, g, s)
        BY <2>1
      <4> QED BY <4>4, <4>5
    <3> QED BY <3>1, <3>2
  <2>3. h = [s \in Up(n + 1) |-> SumStep(f, h, s)]
    BY <2>2
  <2> HIDE DEF h
  <2> QED BY <2>3
<1>3. \A n \in Nat : n \in F
  <2> HIDE DEF F
  <2> QED BY <1>1, <1>2, NumberInduction
<1>4. Up(Cardinality(S)) = SUBSET S /\ Cardinality(S) \in Nat
  BY <1>0
<1>5. \E g : g = [s \in SUBSET S |-> SumStep(f, g, s)]
  BY <1>3, <1>4
<1> QED BY <1>5 DEF SumTable

LEMMA TableStep ==
  ASSUME NEW f, NEW S, IsFiniteSet(S), NEW T \in SUBSET S
  PROVE  SumTable(f, S)[T] = SumStep(f, SumTable(f, S), T)
<1>1. SumTable(f, S) = [s \in SUBSET S |-> SumStep(f, SumTable(f, S), s)]
  BY TableExists
<1> DEFINE g == SumTable(f, S)
<1> HIDE DEF g
<1>2. g = [s \in SUBSET S |-> SumStep(f, g, s)]
  BY <1>1 DEF g
<1>3. g[T] = SumStep(f, g, T)
  BY <1>2
<1> QED BY <1>3 DEF g

LEMMA TableOfSubset ==
  ASSUME NEW f, NEW S, IsFiniteSet(S), NEW T \in SUBSET S
  PROVE  SumTable(f, S)[T] = SumFunctionOnSet(f, T)
<1> DEFINE F == {U \in SUBSET T : SumTable(f, S)[U] = SumTable(f, T)[U]}
<1>1. IsFiniteSet(T)
  BY FS_Subset
<1>2. ASSUME NEW U \in SUBSET T, \A V \in SUBSET U : V # U => V \in F PROVE U \in F
  <2>1. SumTable(f, S)[U] = SumStep(f, SumTable(f, S), U) /\ SumTable(f, T)[U] = SumStep(f, SumTable(f, T), U)
    BY <1>1, TableStep
  <2>2. CASE U = {}
    BY <2>1, <2>2 DEF SumStep
  <2>3. CASE U # {}
    <3> DEFINE x == CHOOSE y \in U : TRUE
    <3>1. x \in U
      BY <2>3
    <3>2. U \ {x} \in F
      BY <1>2, <3>1
    <3> QED BY <2>1, <2>3, <3>2 DEF SumStep
  <2> QED BY <2>2, <2>3
<1>3. T \in F
  <2> HIDE DEF F
  <2> QED BY <1>1, <1>2, SubsetInduction
<1> QED BY <1>3, SumIsTable

LEMMA SumEmpty == \A f : SumFunctionOnSet(f, {}) = 0
<1>1. ASSUME NEW f PROVE SumTable(f, {})[{}] = 0
  <2>1. SumTable(f, {})[{}] = SumStep(f, SumTable(f, {}), {})
    BY TableStep, FS_EmptySet
  <2> QED BY <2>1 DEF SumStep
<1> QED BY <1>1, SumIsTable

LEMMA SumChosen ==
  ASSUME NEW f, NEW S, IsFiniteSet(S), S # {}
  PROVE  \E x \in S : SumFunctionOnSet(f, S) = f[x] + SumFunctionOnSet(f, S \ {x})
<1> DEFINE x == CHOOSE y \in S : TRUE
<1>1. x \in S
  OBVIOUS
<1>2. SumTable(f, S)[S] = f[x] + SumTable(f, S)[S \ {x}]
  <2>1. SumTable(f, S)[S] = SumStep(f, SumTable(f, S), S)
    BY TableStep
  <2> QED BY <2>1 DEF SumStep
<1>3. SumTable(f, S)[S \ {x}] = SumFunctionOnSet(f, S \ {x})
  BY TableOfSubset
<1> QED BY <1>1, <1>2, <1>3, SumIsTable

LEMMA SumInt ==
  ASSUME NEW S, IsFiniteSet(S), NEW f, \A x \in S : f[x] \in Int
  PROVE  SumFunctionOnSet(f, S) \in Int
<1> DEFINE F == {T \in SUBSET S : SumFunctionOnSet(f, T) \in Int}
<1>1. ASSUME NEW T \in SUBSET S, \A U \in SUBSET T : U # T => U \in F PROVE T \in F
  <2>1. IsFiniteSet(T)
    BY FS_Subset
  <2>2. CASE T = {}
    BY <2>2, SumEmpty
  <2>3. CASE T # {}
    <3>1. PICK x \in T : SumFunctionOnSet(f, T) = f[x] + SumFunctionOnSet(f, T \ {x})
      BY <2>1, <2>3, SumChosen
    <3>2. T \ {x} \in F
      BY <1>1
    <3> QED BY <3>1, <3>2
  <2> QED BY <2>2, <2>3
<1>2. S \in F
  <2> HIDE DEF F
  <2> QED BY <1>1, SubsetInduction
<1> QED BY <1>2

LEMMA SumRemove ==
  ASSUME NEW S, IsFiniteSet(S), NEW f, \A x \in S : f[x] \in Int, NEW x \in S
  PROVE  SumFunctionOnSet(f, S) = f[x] + SumFunctionOnSet(f, S \ {x})
<1> DEFINE Out(T) == \A y \in T : SumFunctionOnSet(f, T) = f[y] + SumFunctionOnSet(f, T \ {y})
           F == {T \in SUBSET S : Out(T)}
<1>1. ASSUME NEW T \in SUBSET S, \A U \in SUBSET T : U # T => U \in F PROVE T \in F
  <2> SUFFICES ASSUME NEW y \in T PROVE SumFunctionOnSet(f, T) = f[y] + SumFunctionOnSet(f, T \ {y})
    OBVIOUS
  <2>1. IsFiniteSet(T)
    BY FS_Subset
  <2>2. PICK z \in T : SumFunctionOnSet(f, T) = f[z] + SumFunctionOnSet(f, T \ {z})
    BY <2>1, SumChosen
  <2>3. CASE z = y
    BY <2>2, <2>3
  <2>4. CASE z # y
    <3>1. y \in T \ {z} /\ z \in T \ {y} /\ (T \ {z}) \ {y} = (T \ {y}) \ {z}
      BY <2>4
    <3>2. T \ {z} \in F /\ T \ {y} \in F
      BY <1>1
    <3>3. SumFunctionOnSet(f, T \ {z}) = f[y] + SumFunctionOnSet(f, (T \ {z}) \ {y})
      BY <3>1, <3>2
    <3>4. SumFunctionOnSet(f, T \ {y}) = f[z] + SumFunctionOnSet(f, (T \ {z}) \ {y})
      BY <3>1, <3>2
    <3>5. SumFunctionOnSet(f, (T \ {z}) \ {y}) \in Int
      <4>1. IsFiniteSet((T \ {z}) \ {y})
        BY <2>1, FS_Subset
      <4> QED BY <4>1, SumInt
    <3>6. f[y] \in Int /\ f[z] \in Int
      OBVIOUS
    <3> HIDE DEF F, Out
    <3> QED BY <2>2, <3>3, <3>4, <3>5, <3>6
  <2> QED BY <2>3, <2>4
<1>2. S \in F
  <2> HIDE DEF F
  <2> QED BY <1>1, SubsetInduction
<1> QED BY <1>2

LEMMA SumAdd ==
  ASSUME NEW S, IsFiniteSet(S), NEW f, \A x \in S : f[x] \in Int, NEW x, x \notin S, f[x] \in Int
  PROVE  SumFunctionOnSet(f, S \cup {x}) = f[x] + SumFunctionOnSet(f, S)
<1>1. IsFiniteSet(S \cup {x}) /\ (S \cup {x}) \ {x} = S /\ \A y \in S \cup {x} : f[y] \in Int
  BY FS_AddElement
<1>2. SumFunctionOnSet(f, S \cup {x}) = f[x] + SumFunctionOnSet(f, (S \cup {x}) \ {x})
  BY <1>1, SumRemove
<1> QED BY <1>1, <1>2

LEMMA SumMonotone ==
  ASSUME NEW S, IsFiniteSet(S), NEW f, NEW g,
         \A x \in S : f[x] \in Int /\ g[x] \in Int /\ f[x] <= g[x]
  PROVE  SumFunctionOnSet(f, S) <= SumFunctionOnSet(g, S)
<1> DEFINE F == {T \in SUBSET S : SumFunctionOnSet(f, T) <= SumFunctionOnSet(g, T)}
<1>1. {} \in F
  BY SumEmpty
<1>2. ASSUME NEW T \in SUBSET S, NEW x \in S \ T, T \in F PROVE T \cup {x} \in F
  <2>1. IsFiniteSet(T)
    BY FS_Subset
  <2>2. SumFunctionOnSet(f, T \cup {x}) = f[x] + SumFunctionOnSet(f, T)
    BY <2>1, SumAdd
  <2>3. SumFunctionOnSet(g, T \cup {x}) = g[x] + SumFunctionOnSet(g, T)
    BY <2>1, SumAdd
  <2>4. SumFunctionOnSet(f, T) \in Int /\ SumFunctionOnSet(g, T) \in Int
    BY <2>1, SumInt
  <2>5. SumFunctionOnSet(f, T) <= SumFunctionOnSet(g, T)
    BY <1>2
  <2>6. f[x] \in Int /\ g[x] \in Int /\ f[x] <= g[x]
    OBVIOUS
  <2>7. SumFunctionOnSet(f, T \cup {x}) <= SumFunctionOnSet(g, T \cup {x})
    BY <2>2, <2>3, <2>4, <2>5, <2>6
  <2> QED BY <2>7
<1>3. S \in F
  <2> HIDE DEF F
  <2> QED BY <1>1, <1>2, SetInduction
<1> QED BY <1>3

LEMMA SumSame ==
  ASSUME NEW S, IsFiniteSet(S), NEW f, NEW g, \A x \in S : f[x] \in Int /\ g[x] = f[x]
  PROVE  SumFunctionOnSet(g, S) = SumFunctionOnSet(f, S)
<1>1. SumFunctionOnSet(f, S) <= SumFunctionOnSet(g, S) /\ SumFunctionOnSet(g, S) <= SumFunctionOnSet(f, S)
  BY SumMonotone
<1>2. SumFunctionOnSet(f, S) \in Int /\ SumFunctionOnSet(g, S) \in Int
  BY SumInt
<1> QED BY <1>1, <1>2

LEMMA SumZero ==
  ASSUME NEW S, IsFiniteSet(S), NEW f, \A x \in S : f[x] = 0
  PROVE  SumFunctionOnSet(f, S) = 0
<1> DEFINE F == {T \in SUBSET S : SumFunctionOnSet(f, T) = 0}
<1>1. {} \in F
  BY SumEmpty
<1>2. ASSUME NEW T \in SUBSET S, NEW x \in S \ T, T \in F PROVE T \cup {x} \in F
  <2>1. IsFiniteSet(T)
    BY FS_Subset
  <2>2. f[x] \in Int /\ \A y \in T : f[y] \in Int
    OBVIOUS
  <2>3. SumFunctionOnSet(f, T \cup {x}) = f[x] + SumFunctionOnSet(f, T)
    BY <2>1, <2>2, SumAdd
  <2> QED BY <1>2, <2>3
<1>3. S \in F
  <2> HIDE DEF F
  <2> QED BY <1>1, <1>2, SetInduction
<1> QED BY <1>3

LEMMA SumNat ==
  ASSUME NEW S, IsFiniteSet(S), NEW f, \A x \in S : f[x] \in Nat
  PROVE  /\ SumFunctionOnSet(f, S) \in Nat
         /\ \A x \in S : f[x] <= SumFunctionOnSet(f, S)
<1>1. ASSUME NEW T, IsFiniteSet(T), T \subseteq S PROVE SumFunctionOnSet(f, T) \in Nat
  <2> DEFINE zero == [x \in T |-> 0]
  <2>1. \A x \in T : zero[x] = 0 /\ zero[x] \in Int /\ f[x] \in Int /\ zero[x] <= f[x]
    BY <1>1
  <2> HIDE DEF zero
  <2>2. SumFunctionOnSet(zero, T) = 0
    BY <1>1, <2>1, SumZero
  <2>3. SumFunctionOnSet(zero, T) <= SumFunctionOnSet(f, T)
    BY <1>1, <2>1, SumMonotone
  <2>4. SumFunctionOnSet(f, T) \in Int
    BY <1>1, <2>1, SumInt
  <2> QED BY <2>2, <2>3, <2>4
<1>2. ASSUME NEW x \in S PROVE f[x] <= SumFunctionOnSet(f, S)
  <2>1. SumFunctionOnSet(f, S) = f[x] + SumFunctionOnSet(f, S \ {x})
    BY SumRemove
  <2>2. SumFunctionOnSet(f, S \ {x}) \in Nat
    BY <1>1, FS_RemoveElement
  <2> QED BY <2>1, <2>2
<1> QED BY <1>1, <1>2

(* What is summed up is zero outside of a part.                              *)
LEMMA SumPart ==
  ASSUME NEW S, IsFiniteSet(S), NEW f, \A x \in S : f[x] \in Nat, NEW T \in SUBSET S, \A x \in S \ T : f[x] = 0
  PROVE  SumFunctionOnSet(f, S) = SumFunctionOnSet(f, T)
<1> DEFINE D == S \ T
           F == {U \in SUBSET D : SumFunctionOnSet(f, T \cup U) = SumFunctionOnSet(f, T)}
<1>1. IsFiniteSet(D)
  BY FS_Subset
<1>2. {} \in F
  <2>1. T \cup {} = T
    OBVIOUS
  <2>2. QED
    BY <2>1
<1>3. ASSUME NEW U \in SUBSET D, NEW x \in D \ U, U \in F PROVE U \cup {x} \in F
  <2>1. IsFiniteSet(T \cup U) /\ \A y \in T \cup U : f[y] \in Int
    BY FS_Subset
  <2>2. x \notin T \cup U /\ f[x] = 0 /\ f[x] \in Int /\ T \cup (U \cup {x}) = (T \cup U) \cup {x}
    OBVIOUS
  <2>3. SumFunctionOnSet(f, (T \cup U) \cup {x}) = f[x] + SumFunctionOnSet(f, T \cup U)
    BY <2>1, <2>2, SumAdd
  <2>4. SumFunctionOnSet(f, T \cup U) \in Int
    BY <2>1, SumInt
  <2>5. SumFunctionOnSet(f, T \cup (U \cup {x})) = SumFunctionOnSet(f, T \cup U)
    <3>1. SumFunctionOnSet(f, T \cup (U \cup {x})) = f[x] + SumFunctionOnSet(f, T \cup U)
      BY Zenon, <2>2, <2>3
    <3>2. f[x] = 0
      BY <2>2
    <3>3. QED
      BY <2>4, <3>1, <3>2
  <2>6. SumFunctionOnSet(f, T \cup U) = SumFunctionOnSet(f, T) /\ U \cup {x} \in SUBSET D
    BY <1>3
  <2>7. QED
    BY <2>5, <2>6
<1>4. T \cup D = S /\ D \in SUBSET D
  OBVIOUS
<1> HIDE DEF D
<1>5. D \in F
  <2> HIDE DEF F
  <2>1. \A U \in SUBSET D : U \in F
    BY <1>1, <1>2, <1>3, SetInduction
  <2>2. QED
    BY <1>4, <2>1
<1>6. QED
  BY <1>4, <1>5

(* A function on natural numbers, step by step from a first value; two such  *)
(* functions with the same first value and the same steps are the same.      *)
Follows(f, N, start, next) == f[0] = start /\ \A n \in 1..N : f[n] = next[<<n, f[n - 1]>>]
SameSteps(f, g, N) == f[0] = g[0] /\ \A n \in 1..N : f[n - 1] = g[n - 1] => f[n] = g[n]

LEMMA Iterated ==
  ASSUME NEW N \in Nat, NEW S, NEW start \in S, NEW next \in [(1..N) \X S -> S]
  PROVE  \E f \in [0..N -> S] : Follows(f, N, start, next)
<1> DEFINE Upto(m, f) == f \in [0..m -> S] /\ f[0] = start /\ \A n \in 1..m : f[n] = next[<<n, f[n - 1]>>]
           F == {m \in Nat : m <= N => \E f : Upto(m, f)}
<1>1. 0 \in F
  <2> DEFINE f == [n \in 0..0 |-> start]
  <2>1. f \in [0..0 -> S] /\ f[0] = start
    OBVIOUS
  <2> HIDE DEF f
  <2>2. Upto(0, f)
    BY <2>1
  <2>3. QED
    BY <2>2
<1>2. ASSUME NEW m \in Nat, m \in F PROVE m + 1 \in F
  <2>1. SUFFICES ASSUME m + 1 <= N PROVE \E f : Upto(m + 1, f)
    OBVIOUS
  <2>2. PICK f : Upto(m, f)
    BY <1>2, <2>1
  <2> DEFINE g == [n \in 0..m + 1 |-> IF n <= m THEN f[n] ELSE next[<<m + 1, f[m]>>]]
  <2>3. f[m] \in S /\ next[<<m + 1, f[m]>>] \in S
    BY <2>1, <2>2
  <2>4. g \in [0..m + 1 -> S] /\ g[0] = start
    BY <2>2, <2>3
  <2>5. ASSUME NEW n \in 1..m + 1 PROVE g[n] = next[<<n, g[n - 1]>>]
    <3>1. CASE n <= m
      <4>1. g[n] = f[n] /\ g[n - 1] = f[n - 1] /\ n \in 1..m
        BY <3>1
      <4> HIDE DEF g
      <4>2. QED
        BY <2>2, <4>1
    <3>2. CASE n = m + 1
      <4>1. g[n] = next[<<m + 1, f[m]>>] /\ g[n - 1] = f[m]
        BY <3>2
      <4> HIDE DEF g
      <4>2. QED
        BY <3>2, <4>1
    <3>3. QED
      BY <3>1, <3>2
  <2> HIDE DEF g
  <2>6. Upto(m + 1, g)
    BY <2>4, <2>5
  <2>7. QED
    BY <2>6
<1>3. N \in F
  <2> HIDE DEF F
  <2>1. QED
    BY <1>1, <1>2, NumberInduction
<1>4. QED
  BY <1>3 DEF Follows

LEMMA Determined ==
  ASSUME NEW N \in Nat, NEW f, NEW g, SameSteps(f, g, N)
  PROVE  \A n \in 0..N : f[n] = g[n]
<1> DEFINE F == {n \in Nat : n <= N => f[n] = g[n]}
<1>1. 0 \in F
  BY DEF SameSteps
<1>2. ASSUME NEW n \in Nat, n \in F PROVE n + 1 \in F
  <2>1. SUFFICES ASSUME n + 1 <= N PROVE f[n + 1] = g[n + 1]
    OBVIOUS
  <2>2. n + 1 \in 1..N /\ (n + 1) - 1 = n /\ f[n] = g[n]
    BY <1>2, <2>1
  <2>3. QED
    BY <2>2 DEF SameSteps
<1>3. \A n \in Nat : n \in F
  <2> HIDE DEF F
  <2>1. QED
    BY <1>1, <1>2, NumberInduction
<1>4. QED
  BY <1>3

(* What holds of the first value and is kept by the steps holds of all.      *)
Along(f, N, F) == f[0] \in F /\ \A n \in 1..N : f[n - 1] \in F => f[n] \in F

LEMMA AllAlong ==
  ASSUME NEW N \in Nat, NEW f, NEW F, Along(f, N, F)
  PROVE  \A n \in 0..N : f[n] \in F
<1> DEFINE G == {n \in Nat : n <= N => f[n] \in F}
<1>1. 0 \in G
  BY DEF Along
<1>2. ASSUME NEW n \in Nat, n \in G PROVE n + 1 \in G
  <2>1. SUFFICES ASSUME n + 1 <= N PROVE f[n + 1] \in F
    OBVIOUS
  <2>2. n + 1 \in 1..N /\ (n + 1) - 1 = n /\ f[n] \in F
    BY <1>2, <2>1
  <2>3. QED
    BY <2>2 DEF Along
<1>3. \A n \in Nat : n \in G
  <2> HIDE DEF G
  <2>1. QED
    BY <1>1, <1>2, NumberInduction
<1>4. QED
  BY <1>3

-------------------------------------------------------------------------------
(* The decks that build.py edits, and what its edits are made of.            *)
SlideParts == {"slide", "code", "notes"}
BuildDecks == UNION {[S -> [SlideParts -> [Vocabulary -> Nat]]] : S \in {T \in SUBSET (Nat \ {0}) : IsFiniteSet(T)}}
GoodReplace(op) == op.find \in Vocabulary /\ op.repl \in Vocabulary

LEMMA BuildDeck ==
  ASSUME NEW k
  PROVE  k \in BuildDecks <=> /\ k \in [DOMAIN k -> [SlideParts -> [Vocabulary -> Nat]]]
                              /\ DOMAIN k \in SUBSET (Nat \ {0}) /\ IsFiniteSet(DOMAIN k)
BY DEF BuildDecks

LEMMA ScopeOf == \A op : Scope(op) \subseteq SlideParts /\ IsFiniteSet(Scope(op))
<1> TAKE op
<1>1. Scope(op) \subseteq SlideParts
  BY DEF Scope, Parts, SlideParts
<1>2. IsFiniteSet(SlideParts)
  <2>1. IsFiniteSet({"slide"}) /\ IsFiniteSet({"code"}) /\ IsFiniteSet({"notes"})
    BY FS_Singleton
  <2>2. SlideParts = {"slide"} \cup ({"code"} \cup {"notes"})
    BY DEF SlideParts
  <2>3. QED
    BY <2>1, <2>2, FS_Union
<1>3. QED
  BY <1>1, <1>2, FS_Subset

(* How often a text is on a slide.                                           *)
LEMMA OnSlideCounts ==
  ASSUME NEW k \in BuildDecks, NEW op, op.find \in Vocabulary, NEW s \in DOMAIN k
  PROVE  /\ OnSlide(k, op, s) \in Nat
         /\ OnSlide(k, op, s) = 0 => \A p \in Scope(op) : k[s][p][op.find] = 0
<1> DEFINE f == [p \in Scope(op) |-> k[s][p][op.find]]
<1>1. \A p \in Scope(op) : f[p] = k[s][p][op.find] /\ f[p] \in Nat
  BY BuildDeck, ScopeOf
<1>2. OnSlide(k, op, s) = SumFunctionOnSet(f, Scope(op))
  BY DEF OnSlide, SumFunction
<1> HIDE DEF f
<1>3. SumFunctionOnSet(f, Scope(op)) \in Nat /\ \A p \in Scope(op) : f[p] <= SumFunctionOnSet(f, Scope(op))
  BY <1>1, ScopeOf, SumNat
<1>4. ASSUME OnSlide(k, op, s) = 0, NEW p \in Scope(op) PROVE k[s][p][op.find] = 0
  <2>1. f[p] <= 0 /\ f[p] \in Nat /\ f[p] = k[s][p][op.find]
    BY <1>1, <1>2, <1>3, <1>4
  <2>2. QED
    BY <2>1
<1>5. QED
  BY <1>2, <1>3, <1>4

LEMMA CountsSlides ==
  ASSUME NEW k \in BuildDecks, NEW op, op.find \in Vocabulary
  PROVE  /\ SlidesOf(k, op) \in SUBSET DOMAIN k /\ IsFiniteSet(SlidesOf(k, op))
         /\ Count(k, op) \in Nat
         /\ Hit(k, op) = {} => Count(k, op) = 0
         /\ Count(k, op) = 0 => Hit(k, op) = {}
<1> DEFINE S == SlidesOf(k, op)
           f == [s \in S |-> OnSlide(k, op, s)]
<1>1. S \in SUBSET DOMAIN k /\ IsFiniteSet(S)
  <2>1. S \in SUBSET DOMAIN k
    BY DEF SlidesOf
  <2>2. QED
    BY <2>1, BuildDeck, FS_Subset
<1>2. \A s \in S : f[s] = OnSlide(k, op, s) /\ f[s] \in Nat
  BY <1>1, OnSlideCounts
<1>3. Count(k, op) = SumFunctionOnSet(f, S)
  BY DEF Count, SumFunction
<1>4. Hit(k, op) = {s \in S : OnSlide(k, op, s) > 0}
  BY DEF Hit
<1> HIDE DEF f, S
<1>5. SumFunctionOnSet(f, S) \in Nat /\ \A s \in S : f[s] <= SumFunctionOnSet(f, S)
  BY <1>1, <1>2, SumNat
<1>6. ASSUME Hit(k, op) = {} PROVE Count(k, op) = 0
  <2>1. \A s \in S : f[s] = 0
    BY <1>2, <1>4, <1>6
  <2>2. QED
    BY <1>1, <1>3, <2>1, SumZero
<1>7. ASSUME Count(k, op) = 0 PROVE Hit(k, op) = {}
  BY <1>2, <1>3, <1>4, <1>5, <1>7
<1>8. QED
  BY <1>1, <1>3, <1>5, <1>6, <1>7 DEF S

(* A replacement keeps the slides, and adds to no word but the new one.      *)
LEMMA ReplacedWords ==
  ASSUME NEW k \in BuildDecks, NEW op, GoodReplace(op), NEW s \in DOMAIN k, NEW p \in SlideParts
  PROVE  LET v == [[k[s][p] EXCEPT ![op.find] = 0] EXCEPT ![op.repl] = @ + k[s][p][op.find]]
         IN  /\ v \in [Vocabulary -> Nat]
             /\ \A w \in Vocabulary \ {op.repl} : v[w] <= k[s][p][w]
             /\ k[s][p][op.find] = 0 => v = k[s][p]
<1> DEFINE c == k[s][p]
           v == [[c EXCEPT ![op.find] = 0] EXCEPT ![op.repl] = @ + c[op.find]]
<1>1. c \in [Vocabulary -> Nat]
  BY BuildDeck
<1>2. op.find \in Vocabulary /\ op.repl \in Vocabulary
  BY DEF GoodReplace
<1> HIDE DEF c
<1>3. /\ DOMAIN v = Vocabulary
      /\ \A w \in Vocabulary : v[w] = IF w = op.repl THEN (IF w = op.find THEN 0 ELSE c[w]) + c[op.find]
                                 ELSE IF w = op.find THEN 0 ELSE c[w]
  BY <1>1, <1>2
<1>3a. v = [w \in Vocabulary |-> v[w]]
  BY <1>1, <1>2
<1> HIDE DEF v
<1>4. \A w \in Vocabulary : v[w] \in Nat /\ (w # op.repl => v[w] <= c[w])
  BY <1>1, <1>2, <1>3
<1>5. v \in [Vocabulary -> Nat]
  BY <1>3a, <1>4
<1>6. ASSUME c[op.find] = 0 PROVE v = c
  <2>1. \A w \in Vocabulary : v[w] = c[w]
    BY <1>1, <1>2, <1>3, <1>6
  <2>2. QED
    BY <1>1, <1>3a, <2>1
<1>7. QED
  BY <1>4, <1>5, <1>6 DEF v, c

LEMMA ReplacedDeck ==
  ASSUME NEW k \in BuildDecks, NEW op, GoodReplace(op)
  PROVE  /\ Replaced(k, op) \in BuildDecks /\ DOMAIN Replaced(k, op) = DOMAIN k
         /\ \A s \in DOMAIN k, p \in SlideParts, w \in Vocabulary \ {op.repl} : Replaced(k, op)[s][p][w] <= k[s][p][w]
<1> DEFINE r == Replaced(k, op)
           V(s, p) == [[k[s][p] EXCEPT ![op.find] = 0] EXCEPT ![op.repl] = @ + k[s][p][op.find]]
           W(s, p) == IF s \in SlidesOf(k, op) /\ p \in Scope(op) THEN V(s, p) ELSE k[s][p]
<1>1. r = [s \in DOMAIN k |-> [p \in SlideParts |-> W(s, p)]]
  BY DEF Replaced, Parts, SlideParts
<1>2. ASSUME NEW s \in DOMAIN k, NEW p \in SlideParts
      PROVE  W(s, p) \in [Vocabulary -> Nat] /\ \A w \in Vocabulary \ {op.repl} : W(s, p)[w] <= k[s][p][w]
  <2>1. k[s][p] \in [Vocabulary -> Nat]
    BY BuildDeck
  <2>2. V(s, p) \in [Vocabulary -> Nat] /\ \A w \in Vocabulary \ {op.repl} : V(s, p)[w] <= k[s][p][w]
    BY ReplacedWords
  <2> HIDE DEF V
  <2>3. CASE s \in SlidesOf(k, op) /\ p \in Scope(op)
    BY <2>2, <2>3
  <2>4. CASE ~(s \in SlidesOf(k, op) /\ p \in Scope(op))
    <3>1. W(s, p) = k[s][p]
      BY <2>4
    <3> HIDE DEF W
    <3>2. \A w \in Vocabulary : k[s][p][w] \in Nat
      BY <2>1
    <3>3. QED
      BY <2>1, <3>1, <3>2
  <2>5. QED
    BY <2>3, <2>4
<1> HIDE DEF r, W
<1>3. DOMAIN r = DOMAIN k /\ \A s \in DOMAIN k, p \in SlideParts : r[s][p] = W(s, p)
  BY <1>1
<1>4. r \in [DOMAIN k -> [SlideParts -> [Vocabulary -> Nat]]]
  BY <1>1, <1>2
<1>5. r \in BuildDecks
  BY <1>3, <1>4, BuildDeck
<1>6. \A s \in DOMAIN k, p \in SlideParts, w \in Vocabulary \ {op.repl} : r[s][p][w] <= k[s][p][w]
  BY <1>2, <1>3
<1>7. QED
  BY <1>3, <1>5, <1>6 DEF r

(* Restricted to the slides that it hits, a replacement is the same.         *)
LEMMA HitOnly ==
  ASSUME NEW k \in BuildDecks, NEW op, GoodReplace(op), Hit(k, op) # {},
         NEW at, at.find = op.find, at.repl = op.repl, at.scope = op.scope, at.ids = Hit(k, op)
  PROVE  Count(k, at) = Count(k, op) /\ Replaced(k, at) = Replaced(k, op)
<1> DEFINE S == SlidesOf(k, op)
           T == Hit(k, op)
           f == [s \in S |-> OnSlide(k, op, s)]
           g == [s \in T |-> OnSlide(k, at, s)]
<1>0. op.find \in Vocabulary /\ op.repl \in Vocabulary
  BY DEF GoodReplace
<1>1. /\ S \in SUBSET DOMAIN k /\ IsFiniteSet(S) /\ T = {s \in S : OnSlide(k, op, s) > 0}
      /\ Scope(at) = Scope(op)
  <2>1. Scope(at) = Scope(op)
    BY DEF Scope
  <2>2. T = {s \in S : OnSlide(k, op, s) > 0}
    BY DEF Hit
  <2>3. QED
    BY <1>0, <2>1, <2>2, CountsSlides
<1>2. \A s \in S : OnSlide(k, at, s) = OnSlide(k, op, s) /\ OnSlide(k, op, s) \in Nat
  <2>1. ASSUME NEW s \in S PROVE OnSlide(k, at, s) = OnSlide(k, op, s)
    BY <1>1 DEF OnSlide
  <2>2. QED
    BY <1>0, <1>1, <2>1, OnSlideCounts
<1>3. SlidesOf(k, at) = T
  <2>1. T \subseteq DOMAIN k /\ at.ids = T /\ T # {}
    BY <1>1
  <2>2. QED
    BY <2>1 DEF SlidesOf, Everywhere
<1>4. Count(k, op) = SumFunctionOnSet(f, S)
  BY DEF Count, SumFunction
<1>5. Count(k, at) = SumFunctionOnSet(g, T)
  <2>1. Count(k, at) = SumFunction([s \in SlidesOf(k, at) |-> OnSlide(k, at, s)])
    BY DEF Count
  <2>2. QED
    BY <1>3, <2>1 DEF SumFunction
<1>6. \A s \in S : f[s] = OnSlide(k, op, s)
  OBVIOUS
<1>7. \A s \in T : g[s] = OnSlide(k, at, s)
  OBVIOUS
<1>8. Count(k, at) = Count(k, op)
  <2> HIDE DEF f, g, S, T
  <2>1. T \in SUBSET S /\ IsFiniteSet(T)
    BY <1>1, FS_Subset
  <2>2. \A s \in S : f[s] \in Nat /\ (s \notin T => f[s] = 0)
    BY <1>1, <1>2, <1>6
  <2>3. SumFunctionOnSet(f, S) = SumFunctionOnSet(f, T)
    BY <1>1, <2>1, <2>2, SumPart
  <2>4. \A s \in T : f[s] \in Int /\ g[s] = f[s]
    BY <1>2, <1>6, <1>7, <2>1, <2>2
  <2>5. SumFunctionOnSet(g, T) = SumFunctionOnSet(f, T)
    BY <2>1, <2>4, SumSame
  <2>6. QED
    BY <1>4, <1>5, <2>3, <2>5
<1> HIDE DEF f, g, S, T
<1>9. Replaced(k, at) = Replaced(k, op)
  <2> DEFINE V(s, p) == [[k[s][p] EXCEPT ![op.find] = 0] EXCEPT ![op.repl] = @ + k[s][p][op.find]]
  <2>1. Replaced(k, op) = [s \in DOMAIN k |-> [p \in SlideParts |->
          IF s \in S /\ p \in Scope(op) THEN V(s, p) ELSE k[s][p]]]
    BY DEF Replaced, Parts, SlideParts, S
  <2>2. Replaced(k, at) = [s \in DOMAIN k |-> [p \in SlideParts |->
          IF s \in T /\ p \in Scope(op) THEN V(s, p) ELSE k[s][p]]]
    BY <1>1, <1>3 DEF Replaced, Parts, SlideParts
  <2>3. ASSUME NEW s \in S, s \notin T, NEW p \in Scope(op) PROVE V(s, p) = k[s][p]
    <3>1. OnSlide(k, op, s) = 0 /\ s \in DOMAIN k /\ p \in SlideParts
      BY <1>1, <1>2, <2>3, ScopeOf
    <3>2. k[s][p][op.find] = 0
      BY <1>0, <3>1, OnSlideCounts
    <3>3. QED
      BY <3>1, <3>2, ReplacedWords
  <2> HIDE DEF V
  <2>4. T \subseteq S
    BY <1>1
  <2>5. \A s \in DOMAIN k, p \in SlideParts :
          (IF s \in T /\ p \in Scope(op) THEN V(s, p) ELSE k[s][p])
            = (IF s \in S /\ p \in Scope(op) THEN V(s, p) ELSE k[s][p])
    BY <2>3, <2>4
  <2>6. QED
    BY <2>1, <2>2, <2>5
<1>10. QED
  BY <1>8, <1>9

LEMMA MaxOf ==
  ASSUME NEW S \in SUBSET Nat, IsFiniteSet(S), S # {}
  PROVE  Max(S) \in S
<1> DEFINE F == {T \in SUBSET S : T = {} \/ \E m \in T : \A x \in T : m >= x}
<1>1. {} \in F
  OBVIOUS
<1>2. ASSUME NEW T \in SUBSET S, NEW x \in S \ T, T \in F PROVE T \cup {x} \in F
  <2>1. CASE T = {}
    BY <2>1
  <2>2. CASE T # {}
    <3>1. PICK m \in T : \A y \in T : m >= y
      BY <1>2, <2>2
    <3>2. CASE m >= x
      BY <3>1, <3>2
    <3>3. CASE ~ (m >= x)
      <4>1. \A y \in T \cup {x} : x >= y
        BY <3>1, <3>3
      <4>2. QED
        BY <4>1
    <3>4. QED
      BY <3>2, <3>3
  <2>3. QED
    BY <2>1, <2>2
<1>3. S \in F
  <2> HIDE DEF F
  <2>1. QED
    BY <1>1, <1>2, SetInduction
<1>4. \E m \in S : \A x \in S : m >= x
  BY <1>3
<1>5. QED
  BY <1>4 DEF Max

(* A clone gets a number of its own, and leaves the other slides.            *)
LEMMA ClonedDeck ==
  ASSUME NEW k \in BuildDecks, NEW op, op.of \in DOMAIN k
  PROVE  /\ CloneId(k) \in Nat /\ Cloned(k, op) \in BuildDecks
         /\ DOMAIN k \subseteq DOMAIN Cloned(k, op)
<1> DEFINE D == DOMAIN k
           c == Cloned(k, op)
           n == CloneId(k)
<1>1. D \in SUBSET (Nat \ {0}) /\ IsFiniteSet(D) /\ k \in [D -> [SlideParts -> [Vocabulary -> Nat]]] /\ D # {}
  BY BuildDeck
<1>2. Max(D) \in D
  BY <1>1, MaxOf
<1>3. n \in Nat \ {0}
  BY <1>1, <1>2 DEF CloneId
<1> HIDE DEF n
<1>4. c = [s \in D \cup {n} |-> k[IF s \in D THEN s ELSE op.of]]
  BY DEF Cloned, n
<1> HIDE DEF c, D
<1>5. DOMAIN c = D \cup {n} /\ c \in [D \cup {n} -> [SlideParts -> [Vocabulary -> Nat]]]
  <2>1. op.of \in D
    BY DEF D
  <2>2. \A s \in D \cup {n} : (IF s \in D THEN s ELSE op.of) \in D
    BY <2>1
  <2>3. QED
    BY <1>1, <1>4, <2>2
<1>6. IsFiniteSet(D \cup {n}) /\ D \cup {n} \in SUBSET (Nat \ {0})
  BY <1>1, <1>3, FS_AddElement
<1>7. c \in BuildDecks
  BY <1>5, <1>6, BuildDeck
<1>8. QED
  BY <1>3, <1>5, <1>7 DEF c, n, D

(* deck_edit.py, as build.py and verify_all.py use it: the edits in turn.    *)
GoodEdit(op) == op.op = "clone" \/ GoodReplace(op)
EditStates == [ok : BOOLEAN, deck : BuildDecks, new : Nat]

LEMMA EditState ==
  ASSUME NEW e \in EditStates, NEW op, GoodEdit(op) PROVE Edit(e, op) \in EditStates
<1> DEFINE at == Op(op, Ids(e, op), op.expect)
<1>1. e.ok \in BOOLEAN /\ e.deck \in BuildDecks /\ e.new \in Nat /\ e = [ok |-> e.ok, deck |-> e.deck, new |-> e.new]
  BY DEF EditStates
<1>2. CASE ~e.ok
  BY <1>2 DEF Edit
<1>3. CASE e.ok /\ op.op = "clone" /\ op.of \in DOMAIN e.deck
  <2>1. Edit(e, op) = [e EXCEPT !.deck = Cloned(e.deck, op), !.new = CloneId(e.deck)]
    BY <1>3 DEF Edit
  <2>2. Cloned(e.deck, op) \in BuildDecks /\ CloneId(e.deck) \in Nat
    BY <1>1, <1>3, ClonedDeck
  <2>3. QED
    BY <1>1, <2>1, <2>2 DEF EditStates
<1>4. CASE e.ok /\ op.op = "clone" /\ op.of \notin DOMAIN e.deck
  <2>1. Edit(e, op) = [e EXCEPT !.ok = FALSE]
    BY <1>4 DEF Edit
  <2>2. QED
    BY <2>1 DEF EditStates
<1>5. CASE e.ok /\ op.op # "clone"
  <2> DEFINE ok == at.ids \subseteq DOMAIN e.deck /\ Count(e.deck, at) = op.expect
  <2>1. Edit(e, op) = [e EXCEPT !.ok = ok, !.deck = Replaced(e.deck, at)]
    BY <1>5 DEF Edit
  <2>2. GoodReplace(at)
    BY <1>5 DEF GoodEdit, GoodReplace, Op
  <2> HIDE DEF at
  <2>3. ok \in BOOLEAN /\ Replaced(e.deck, at) \in BuildDecks
    BY <1>1, <2>2, ReplacedDeck
  <2> HIDE DEF ok
  <2>4. QED
    BY <1>1, <2>1, <2>3 DEF EditStates
<1>6. QED
  BY <1>1, <1>2, <1>3, <1>4, <1>5

(* What the edits make of a deck, one after the other.                       *)
LEMMA EditsTraced ==
  ASSUME NEW k \in BuildDecks, NEW Y, \A op \in Y : GoodEdit(op), NEW seq \in Seq(Y)
  PROVE  \E f \in [0..Len(seq) -> EditStates] :
           /\ f[0] = [ok |-> TRUE, deck |-> k, new |-> 0] /\ \A n \in 1..Len(seq) : f[n] = Edit(f[n - 1], seq[n])
           /\ EditDeck(k, seq) = f[Len(seq)]
<1> DEFINE N == Len(seq)
           start == [ok |-> TRUE, deck |-> k, new |-> 0]
           next == [x \in (1..N) \X EditStates |-> Edit(x[2], seq[x[1]])]
           G(f) == f = [n \in 0..N |-> IF n = 0 THEN start ELSE Edit(f[n - 1], seq[n])]
           g == CHOOSE f : G(f)
<1>1. N \in Nat /\ start \in EditStates
  BY LenProperties DEF EditStates
<1>2. ASSUME NEW n \in 1..N, NEW e \in EditStates PROVE Edit(e, seq[n]) \in EditStates
  BY EditState, ElementOfSeq
<1>3. next \in [(1..N) \X EditStates -> EditStates] /\ \A n \in 1..N, e \in EditStates : next[<<n, e>>] = Edit(e, seq[n])
  BY <1>2
<1> HIDE DEF next
<1>4. PICK f \in [0..N -> EditStates] : Follows(f, N, start, next)
  <2>1. next \in [(1..N) \X EditStates -> EditStates]
    BY <1>3
  <2> HIDE DEF N, start
  <2>2. QED
    BY <1>1, <2>1, Iterated
<1>5. ASSUME NEW n \in 1..N PROVE f[n] = Edit(f[n - 1], seq[n])
  <2>1. f[n - 1] \in EditStates
    BY <1>1, <1>4
  <2>2. QED
    BY <1>3, <1>4, <2>1 DEF Follows
<1>6. G(f)
  <2>1. f = [n \in 0..N |-> f[n]]
    BY <1>4
  <2>2. \A n \in 0..N : f[n] = IF n = 0 THEN start ELSE Edit(f[n - 1], seq[n])
    BY <1>1, <1>4, <1>5 DEF Follows
  <2>3. QED
    BY <2>1, <2>2
<1>7. G(g)
  <2> HIDE DEF G
  <2>1. QED
    BY <1>6
<1>8. EditDeck(k, seq) = g[N]
  BY DEF EditDeck, InOrder, MADE
<1> HIDE DEF g
<1>9. SameSteps(f, g, N)
  <2>1. \A n \in 0..N : g[n] = IF n = 0 THEN start ELSE Edit(g[n - 1], seq[n])
    BY <1>7
  <2>2. 0 \in 0..N /\ \A n \in 1..N : n \in 0..N /\ n # 0
    BY <1>1
  <2>3. QED
    BY <1>4, <1>5, <2>1, <2>2 DEF SameSteps, Follows
<1>10. g[N] = f[N]
  <2>1. \A n \in 0..N : f[n] = g[n]
    <3> HIDE DEF N
    <3>1. QED
      BY <1>1, <1>9, Determined
  <2>2. QED
    BY <1>1, <2>1
<1>11. QED
  BY <1>4, <1>5, <1>8, <1>10 DEF Follows

(* One edit more.                                                            *)
LEMMA EditAppended ==
  ASSUME NEW k \in BuildDecks, NEW Y, \A op \in Y : GoodEdit(op), NEW seq \in Seq(Y), NEW op \in Y
  PROVE  /\ EditDeck(k, seq) \in EditStates
         /\ EditDeck(k, Append(seq, op)) = Edit(EditDeck(k, seq), op)
<1> DEFINE N == Len(seq)
           more == Append(seq, op)
<1>1. /\ N \in Nat /\ more \in Seq(Y) /\ Len(more) = N + 1 /\ more[N + 1] = op
      /\ \A n \in 1..N : more[n] = seq[n]
  BY LenProperties, AppendProperties
<1>2. PICK f \in [0..N -> EditStates] :
        /\ f[0] = [ok |-> TRUE, deck |-> k, new |-> 0] /\ \A n \in 1..N : f[n] = Edit(f[n - 1], seq[n])
        /\ EditDeck(k, seq) = f[N]
  BY EditsTraced
<1>3. PICK g \in [0..Len(more) -> EditStates] :
        /\ g[0] = [ok |-> TRUE, deck |-> k, new |-> 0] /\ \A n \in 1..Len(more) : g[n] = Edit(g[n - 1], more[n])
        /\ EditDeck(k, more) = g[Len(more)]
  <2> HIDE DEF more
  <2>1. QED
    BY <1>1, EditsTraced
<1> HIDE DEF more
<1>4. SameSteps(f, g, N)
  BY <1>1, <1>2, <1>3 DEF SameSteps
<1>5. f[N] = g[N]
  <2>1. \A n \in 0..N : f[n] = g[n]
    <3>1. N \in Nat
      BY <1>1
    <3> HIDE DEF N
    <3>2. QED
      BY <1>4, <3>1, Determined
  <2>2. QED
    BY <1>1, <2>1
<1>6. g[N + 1] = Edit(g[N], op)
  <2>1. N + 1 \in 1..Len(more) /\ (N + 1) - 1 = N
    BY <1>1
  <2>2. QED
    BY <1>1, <1>3, <2>1
<1>7. f[N] \in EditStates
  BY <1>1, <1>2
<1>8. QED
  BY <1>1, <1>2, <1>3, <1>5, <1>6, <1>7 DEF more

(* build.py, pass 2: what is known of a deck on the way, the edits made of   *)
(* rewrites R and hand-written edits H.                                      *)
MadeOps(R, H) ==
  {Op(r, ids, n) : r \in R \cup {h \in H : h.op # "clone"}, ids \in SUBSET Nat, n \in Nat}
    \cup {h \in H : h.op = "clone"}
BuildStates(Y) == [deck : BuildDecks, ops : Seq(Y), problems : SUBSET {"shared", "matches nothing", "fails"}]

(* What is left of a deck by the shared edits, and by the hand-written ones. *)
SharedFold(seq, s0) == InOrder(seq, ApplyShared, s0)
HandFold(seq, s0) == InOrder(seq, ApplyHand, s0)

LEMMA SharedState ==
  ASSUME NEW Y, NEW s \in BuildStates(Y), NEW op, GoodReplace(op)
  PROVE  ApplyShared(s, op) \in BuildStates(Y)
<1>1. s.deck \in BuildDecks /\ s.ops \in Seq(Y) /\ s.problems \in SUBSET {"shared", "matches nothing", "fails"}
  BY DEF BuildStates
<1>2. Replaced(s.deck, op) \in BuildDecks
  BY <1>1, ReplacedDeck
<1>3. ApplyShared(s, op) = [s EXCEPT !.deck = Replaced(s.deck, op), !.problems = s.problems \cup (IF Miscounted(s, op) THEN {"shared"} ELSE {})]
  BY DEF ApplyShared
<1>4. QED
  BY <1>1, <1>2, <1>3 DEF BuildStates

LEMMA RewriteState ==
  ASSUME NEW R, NEW H, NEW s \in BuildStates(MadeOps(R, H)), NEW r \in R, GoodReplace(r)
  PROVE  ApplyRewrite(s, r) \in BuildStates(MadeOps(R, H))
<1> DEFINE op == Op(r, Hit(s.deck, r), Count(s.deck, r))
           Y == MadeOps(R, H)
<1>1. s.deck \in BuildDecks /\ s.ops \in Seq(Y) /\ s.problems \in SUBSET {"shared", "matches nothing", "fails"}
  BY DEF BuildStates
<1>2. CASE Count(s.deck, r) = 0
  BY <1>2 DEF ApplyRewrite
<1>3. CASE Count(s.deck, r) # 0
  <2>1. Replaced(s.deck, r) \in BuildDecks
    BY <1>1, ReplacedDeck
  <2>2. Hit(s.deck, r) \in SUBSET Nat /\ Count(s.deck, r) \in Nat
    <3>1. SlidesOf(s.deck, r) \in SUBSET DOMAIN s.deck /\ Count(s.deck, r) \in Nat
      BY <1>1, CountsSlides DEF GoodReplace
    <3>2. Hit(s.deck, r) \subseteq SlidesOf(s.deck, r) /\ DOMAIN s.deck \subseteq Nat
      BY <1>1, BuildDeck DEF Hit
    <3>3. QED
      BY <3>1, <3>2
  <2>3. op \in Y
    BY <2>2 DEF MadeOps
  <2>4. ApplyRewrite(s, r) = [s EXCEPT !.deck = Replaced(s.deck, r), !.ops = Append(s.ops, op)]
    BY <1>3 DEF ApplyRewrite
  <2> HIDE DEF op, Y
  <2>5. Append(s.ops, op) \in Seq(Y)
    BY <1>1, <2>3, AppendProperties
  <2>6. QED
    BY <1>1, <2>1, <2>4, <2>5 DEF BuildStates, Y
<1>4. QED
  BY <1>2, <1>3

LEMMA HandState ==
  ASSUME NEW R, NEW H, NEW s \in BuildStates(MadeOps(R, H)), NEW h \in H, GoodEdit(h), h.op # "clone" => h.ids \in SUBSET Nat
  PROVE  ApplyHand(s, h) \in BuildStates(MadeOps(R, H))
<1> DEFINE Y == MadeOps(R, H)
           Problems == SUBSET {"shared", "matches nothing", "fails"}
<1>1. s.deck \in BuildDecks /\ s.ops \in Seq(Y) /\ s.problems \in Problems
  BY DEF BuildStates
<1>2. CASE h.op = "clone"
  <2> DEFINE k == IF h.of \in DOMAIN s.deck THEN Cloned(s.deck, h) ELSE s.deck
             bad == IF h.of \in DOMAIN s.deck THEN {} ELSE {"fails"}
  <2>1. ApplyHand(s, h) = [s EXCEPT !.deck = k, !.ops = Append(s.ops, h), !.problems = s.problems \cup bad]
    BY <1>2 DEF ApplyHand
  <2>2. k \in BuildDecks
    BY <1>1, ClonedDeck
  <2>3. h \in Y
    BY <1>2 DEF MadeOps
  <2>4. s.problems \cup bad \in Problems
    BY <1>1
  <2> HIDE DEF k, bad, Y
  <2>5. Append(s.ops, h) \in Seq(Y)
    BY <1>1, <2>3, AppendProperties
  <2>6. QED
    BY <1>1, <2>1, <2>2, <2>4, <2>5 DEF BuildStates, Y
<1>3. CASE h.op # "clone"
  <2> DEFINE ids == IF h.ids = Everywhere /\ Hit(s.deck, h) # {} THEN Hit(s.deck, h) ELSE h.ids
             op == Op(h, ids, Count(s.deck, h))
             bad == IF Count(s.deck, h) = 0 THEN {"matches nothing"} ELSE {}
  <2>0. GoodReplace(h)
    BY <1>3 DEF GoodEdit
  <2>1. ApplyHand(s, h) = [s EXCEPT !.deck = Replaced(s.deck, h), !.ops = Append(s.ops, op), !.problems = s.problems \cup bad]
    BY <1>3 DEF ApplyHand
  <2>2. Replaced(s.deck, h) \in BuildDecks
    BY <1>1, <2>0, ReplacedDeck
  <2>3. Hit(s.deck, h) \in SUBSET Nat /\ Count(s.deck, h) \in Nat
    <3>1. SlidesOf(s.deck, h) \in SUBSET DOMAIN s.deck /\ Count(s.deck, h) \in Nat
      BY <1>1, <2>0, CountsSlides DEF GoodReplace
    <3>2. Hit(s.deck, h) \subseteq SlidesOf(s.deck, h) /\ DOMAIN s.deck \subseteq Nat
      BY <1>1, BuildDeck DEF Hit
    <3>3. QED
      BY <3>1, <3>2
  <2>4. ids \in SUBSET Nat
    BY <1>3, <2>3
  <2>5. op \in Y
    <3> HIDE DEF ids
    <3>1. QED
      BY <1>3, <2>3, <2>4 DEF MadeOps
  <2>6. s.problems \cup bad \in Problems
    BY <1>1
  <2> HIDE DEF op, bad, Y
  <2>7. Append(s.ops, op) \in Seq(Y)
    BY <1>1, <2>5, AppendProperties
  <2>8. QED
    BY <1>1, <2>1, <2>2, <2>6, <2>7 DEF BuildStates, Y
<1>4. QED
  BY <1>2, <1>3

(* The shared edits, one after the other.                                    *)
SharedRun(seq, s0, S) ==
  \E f \in [0..Len(seq) -> S] :
    /\ f[0] = s0 /\ \A n \in 1..Len(seq) : f[n] = ApplyShared(f[n - 1], seq[n])
    /\ SharedFold(seq, s0) = f[Len(seq)]

LEMMA SharedTraced ==
  ASSUME NEW Y, NEW X, \A op \in X : GoodReplace(op), NEW seq \in Seq(X), NEW s0 \in BuildStates(Y)
  PROVE  SharedRun(seq, s0, BuildStates(Y))
<1> DEFINE N == Len(seq)
           next == [x \in (1..N) \X BuildStates(Y) |-> ApplyShared(x[2], seq[x[1]])]
           G(f) == f = [n \in 0..N |-> IF n = 0 THEN s0 ELSE ApplyShared(f[n - 1], seq[n])]
           g == CHOOSE f : G(f)
<1>1. N \in Nat
  BY LenProperties
<1>2. ASSUME NEW n \in 1..N, NEW e \in BuildStates(Y) PROVE ApplyShared(e, seq[n]) \in BuildStates(Y)
  BY SharedState, ElementOfSeq
<1>3. next \in [(1..N) \X BuildStates(Y) -> BuildStates(Y)] /\ \A n \in 1..N, e \in BuildStates(Y) : next[<<n, e>>] = ApplyShared(e, seq[n])
  BY <1>2
<1> HIDE DEF next
<1>4. PICK f \in [0..N -> BuildStates(Y)] : Follows(f, N, s0, next)
  <2>1. next \in [(1..N) \X BuildStates(Y) -> BuildStates(Y)]
    BY <1>3
  <2> HIDE DEF N
  <2>2. QED
    BY <1>1, <2>1, Iterated
<1>5. ASSUME NEW n \in 1..N PROVE f[n] = ApplyShared(f[n - 1], seq[n])
  <2>1. f[n - 1] \in BuildStates(Y)
    BY <1>1, <1>4
  <2>2. QED
    BY <1>3, <1>4, <2>1 DEF Follows
<1>6. G(f)
  <2>1. f = [n \in 0..N |-> f[n]]
    BY <1>4
  <2>2. \A n \in 0..N : f[n] = IF n = 0 THEN s0 ELSE ApplyShared(f[n - 1], seq[n])
    BY <1>1, <1>4, <1>5 DEF Follows
  <2>3. QED
    BY <2>1, <2>2
<1>7. G(g)
  <2> HIDE DEF G
  <2>1. QED
    BY <1>6
<1>8. SharedFold(seq, s0) = g[N]
  BY DEF SharedFold, InOrder
<1> HIDE DEF g
<1>9. SameSteps(f, g, N)
  <2>1. \A n \in 0..N : g[n] = IF n = 0 THEN s0 ELSE ApplyShared(g[n - 1], seq[n])
    BY <1>7
  <2>2. 0 \in 0..N /\ \A n \in 1..N : n \in 0..N /\ n # 0
    BY <1>1
  <2>3. QED
    BY <1>4, <1>5, <2>1, <2>2 DEF SameSteps, Follows
<1>10. g[N] = f[N]
  <2>1. \A n \in 0..N : f[n] = g[n]
    <3> HIDE DEF N
    <3>1. QED
      BY <1>1, <1>9, Determined
  <2>2. QED
    BY <1>1, <2>1
<1>11. \E h \in [0..N -> BuildStates(Y)] :
         h[0] = s0 /\ (\A n \in 1..N : h[n] = ApplyShared(h[n - 1], seq[n])) /\ SharedFold(seq, s0) = h[N]
  BY <1>4, <1>5, <1>8, <1>10 DEF Follows
<1>12. QED
  BY <1>11 DEF SharedRun

(* The edits written for the deck.                                           *)
HandRun(seq, s0, S) ==
  \E f \in [0..Len(seq) -> S] :
    /\ f[0] = s0 /\ \A n \in 1..Len(seq) : f[n] = ApplyHand(f[n - 1], seq[n])
    /\ HandFold(seq, s0) = f[Len(seq)]

LEMMA HandTraced ==
  ASSUME NEW R, NEW H, \A h \in H : GoodEdit(h) /\ (h.op # "clone" => h.ids \in SUBSET Nat), NEW seq \in Seq(H),
         NEW s0 \in BuildStates(MadeOps(R, H))
  PROVE  HandRun(seq, s0, BuildStates(MadeOps(R, H)))
<1> DEFINE N == Len(seq)
           next == [x \in (1..N) \X BuildStates(MadeOps(R, H)) |-> ApplyHand(x[2], seq[x[1]])]
           G(f) == f = [n \in 0..N |-> IF n = 0 THEN s0 ELSE ApplyHand(f[n - 1], seq[n])]
           g == CHOOSE f : G(f)
<1>1. N \in Nat
  BY LenProperties
<1>2. ASSUME NEW n \in 1..N, NEW e \in BuildStates(MadeOps(R, H)) PROVE ApplyHand(e, seq[n]) \in BuildStates(MadeOps(R, H))
  BY HandState, ElementOfSeq
<1>3. next \in [(1..N) \X BuildStates(MadeOps(R, H)) -> BuildStates(MadeOps(R, H))] /\ \A n \in 1..N, e \in BuildStates(MadeOps(R, H)) : next[<<n, e>>] = ApplyHand(e, seq[n])
  BY <1>2
<1> HIDE DEF next
<1>4. PICK f \in [0..N -> BuildStates(MadeOps(R, H))] : Follows(f, N, s0, next)
  <2>1. next \in [(1..N) \X BuildStates(MadeOps(R, H)) -> BuildStates(MadeOps(R, H))]
    BY <1>3
  <2> HIDE DEF N
  <2>2. QED
    BY <1>1, <2>1, Iterated
<1>5. ASSUME NEW n \in 1..N PROVE f[n] = ApplyHand(f[n - 1], seq[n])
  <2>1. f[n - 1] \in BuildStates(MadeOps(R, H))
    BY <1>1, <1>4
  <2>2. QED
    BY <1>3, <1>4, <2>1 DEF Follows
<1>6. G(f)
  <2>1. f = [n \in 0..N |-> f[n]]
    BY <1>4
  <2>2. \A n \in 0..N : f[n] = IF n = 0 THEN s0 ELSE ApplyHand(f[n - 1], seq[n])
    BY <1>1, <1>4, <1>5 DEF Follows
  <2>3. QED
    BY <2>1, <2>2
<1>7. G(g)
  <2> HIDE DEF G
  <2>1. QED
    BY <1>6
<1>8. HandFold(seq, s0) = g[N]
  BY DEF HandFold, InOrder
<1> HIDE DEF g
<1>9. SameSteps(f, g, N)
  <2>1. \A n \in 0..N : g[n] = IF n = 0 THEN s0 ELSE ApplyHand(g[n - 1], seq[n])
    BY <1>7
  <2>2. 0 \in 0..N /\ \A n \in 1..N : n \in 0..N /\ n # 0
    BY <1>1
  <2>3. QED
    BY <1>4, <1>5, <2>1, <2>2 DEF SameSteps, Follows
<1>10. g[N] = f[N]
  <2>1. \A n \in 0..N : f[n] = g[n]
    <3> HIDE DEF N
    <3>1. QED
      BY <1>1, <1>9, Determined
  <2>2. QED
    BY <1>1, <2>1
<1>11. \E h \in [0..N -> BuildStates(MadeOps(R, H))] :
         h[0] = s0 /\ (\A n \in 1..N : h[n] = ApplyHand(h[n - 1], seq[n])) /\ HandFold(seq, s0) = h[N]
  BY <1>4, <1>5, <1>8, <1>10 DEF Follows
<1>12. QED
  BY <1>11 DEF HandRun

(* The rewrites that are not shared, by their indexes.                       *)
RestStep(d, sharedAt, s, i) ==
  IF i \in sharedAt \/ ~ Offered(rewrites[i], d) THEN s ELSE ApplyRewrite(s, rewrites[i])
RestFold(d, sharedAt, s0) ==
  LET Rest(s, i) == IF i \in sharedAt \/ ~ Offered(rewrites[i], d) THEN s ELSE ApplyRewrite(s, rewrites[i])
  IN  InOrder(Indexes, Rest, s0)

LEMMA AllIndexes ==
  ASSUME NEW R, rewrites \in Seq(R)
  PROVE  /\ Indexes \in Seq(1..Len(rewrites)) /\ Len(Indexes) = Len(rewrites)
         /\ \A n \in 1..Len(rewrites) : Indexes[n] = n
<1>1. Len(rewrites) \in Nat /\ DOMAIN rewrites = 1..Len(rewrites)
  BY LenProperties
<1>2. Indexes = [n \in 1..Len(rewrites) |-> n]
  BY <1>1 DEF Indexes
<1>3. QED
  BY <1>1, <1>2

RestRun(d, sharedAt, s0, S) ==
  \E f \in [0..Len(Indexes) -> S] :
    /\ f[0] = s0 /\ \A n \in 1..Len(Indexes) : f[n] = RestStep(d, sharedAt, f[n - 1], Indexes[n])
    /\ RestFold(d, sharedAt, s0) = f[Len(Indexes)]

LEMMA RestTraced ==
  ASSUME NEW R, rewrites \in Seq(R), \A r \in R : GoodReplace(r), NEW H, NEW d, NEW sharedAt,
         NEW s0 \in BuildStates(MadeOps(R, H))
  PROVE  RestRun(d, sharedAt, s0, BuildStates(MadeOps(R, H)))
<1> DEFINE N == Len(Indexes)
           next == [x \in (1..N) \X BuildStates(MadeOps(R, H)) |-> RestStep(d, sharedAt, x[2], Indexes[x[1]])]
           G(f) == f = [n \in 0..N |-> IF n = 0 THEN s0 ELSE RestStep(d, sharedAt, f[n - 1], Indexes[n])]
           g == CHOOSE f : G(f)
<1>1. N \in Nat
  BY AllIndexes, LenProperties
<1>2. ASSUME NEW n \in 1..N, NEW e \in BuildStates(MadeOps(R, H)) PROVE RestStep(d, sharedAt, e, Indexes[n]) \in BuildStates(MadeOps(R, H))
  <2>1. Indexes[n] \in 1..Len(rewrites)
    BY AllIndexes, ElementOfSeq
  <2>2. rewrites[Indexes[n]] \in R
    BY <2>1, ElementOfSeq
  <2>3. QED
    BY <2>2, RewriteState DEF RestStep
<1>3. next \in [(1..N) \X BuildStates(MadeOps(R, H)) -> BuildStates(MadeOps(R, H))] /\ \A n \in 1..N, e \in BuildStates(MadeOps(R, H)) : next[<<n, e>>] = RestStep(d, sharedAt, e, Indexes[n])
  BY <1>2
<1> HIDE DEF next
<1>4. PICK f \in [0..N -> BuildStates(MadeOps(R, H))] : Follows(f, N, s0, next)
  <2>1. next \in [(1..N) \X BuildStates(MadeOps(R, H)) -> BuildStates(MadeOps(R, H))]
    BY <1>3
  <2> HIDE DEF N
  <2>2. QED
    BY <1>1, <2>1, Iterated
<1>5. ASSUME NEW n \in 1..N PROVE f[n] = RestStep(d, sharedAt, f[n - 1], Indexes[n])
  <2>1. f[n - 1] \in BuildStates(MadeOps(R, H))
    BY <1>1, <1>4
  <2>2. QED
    BY <1>3, <1>4, <2>1 DEF Follows
<1>6. G(f)
  <2>1. f = [n \in 0..N |-> f[n]]
    BY <1>4
  <2>2. \A n \in 0..N : f[n] = IF n = 0 THEN s0 ELSE RestStep(d, sharedAt, f[n - 1], Indexes[n])
    BY <1>1, <1>4, <1>5 DEF Follows
  <2>3. QED
    BY <2>1, <2>2
<1>7. G(g)
  <2> HIDE DEF G
  <2>1. QED
    BY <1>6
<1>8. RestFold(d, sharedAt, s0) = g[N]
  BY DEF RestFold, InOrder, RestStep
<1> HIDE DEF g
<1>9. SameSteps(f, g, N)
  <2>1. \A n \in 0..N : g[n] = IF n = 0 THEN s0 ELSE RestStep(d, sharedAt, g[n - 1], Indexes[n])
    BY <1>7
  <2>2. 0 \in 0..N /\ \A n \in 1..N : n \in 0..N /\ n # 0
    BY <1>1
  <2>3. QED
    BY <1>4, <1>5, <2>1, <2>2 DEF SameSteps, Follows
<1>10. g[N] = f[N]
  <2>1. \A n \in 0..N : f[n] = g[n]
    <3> HIDE DEF N
    <3>1. QED
      BY <1>1, <1>9, Determined
  <2>2. QED
    BY <1>1, <2>1
<1>11. \E h \in [0..N -> BuildStates(MadeOps(R, H))] :
         h[0] = s0 /\ (\A n \in 1..N : h[n] = RestStep(d, sharedAt, h[n - 1], Indexes[n])) /\ RestFold(d, sharedAt, s0) = h[N]
  BY <1>4, <1>5, <1>8, <1>10 DEF Follows
<1>12. QED
  BY <1>11 DEF RestRun

(* Pass 2 of a deck.                                                         *)
Scanned(d) == [deck |-> decks[d], ops |-> <<>>, problems |-> {}]

LEMMA Phases ==
  ASSUME NEW d, NEW shared, NEW sharedAt
  PROVE  Pass2(d, shared, sharedAt)
           = HandFold(handOps[d], RestFold(d, sharedAt, IF d \in LANG THEN SharedFold(shared, Scanned(d)) ELSE Scanned(d)))
BY DEF Pass2, HandFold, RestFold, SharedFold, Scanned

(* What an edit finds and does depends on the slides it is for.              *)
LEMMA SameSlides ==
  ASSUME NEW k, NEW a, NEW b, a.find = b.find, a.repl = b.repl, a.scope = b.scope, SlidesOf(k, a) = SlidesOf(k, b)
  PROVE  Count(k, a) = Count(k, b) /\ Replaced(k, a) = Replaced(k, b)
<1>1. Scope(a) = Scope(b)
  BY DEF Scope
<1>2. ASSUME NEW s PROVE OnSlide(k, a, s) = OnSlide(k, b, s)
  BY <1>1 DEF OnSlide
<1>3. Count(k, a) = Count(k, b)
  BY <1>2 DEF Count
<1>4. Replaced(k, a) = Replaced(k, b)
  BY <1>1 DEF Replaced
<1>5. QED
  BY <1>3, <1>4

(* deck_edit.py applies what build.py wrote of a replacement: with the ids   *)
(* of the replacement or of the slides it hits, and the count.               *)
LEMMA EditReplaces ==
  ASSUME NEW e \in EditStates, e.ok, NEW o, GoodReplace(o), NEW op, op.op # "clone",
         op.find = o.find, op.repl = o.repl, op.scope = o.scope,
         op.ids \subseteq DOMAIN e.deck, Count(e.deck, o) = op.expect,
         op.ids = o.ids \/ (op.ids = Hit(e.deck, o) /\ op.ids # {})
  PROVE  Edit(e, op).ok /\ Edit(e, op).deck = Replaced(e.deck, o)
<1> DEFINE at == Op(op, Ids(e, op), op.expect)
<1>1. e.deck \in BuildDecks /\ DOMAIN e.deck \in SUBSET (Nat \ {0}) /\ e = [ok |-> e.ok, deck |-> e.deck, new |-> e.new]
  BY BuildDeck DEF EditStates
<1>2. at.find = o.find /\ at.repl = o.repl /\ at.scope = o.scope /\ at.ids = Ids(e, op)
  BY DEF Op
<1>3. op.ids # {} => Ids(e, op) = op.ids
  <2>1. \A i \in op.ids : i # 0
    BY <1>1
  <2>2. {IF i = MADE THEN e.new ELSE i : i \in op.ids} = op.ids
    BY <2>1 DEF MADE
  <2>3. QED
    BY <2>2 DEF Ids, Everywhere
<1>4. Ids(e, op) \subseteq DOMAIN e.deck
  <2>1. op.ids = {} => Ids(e, op) = DOMAIN e.deck
    BY DEF Ids, Everywhere
  <2>2. QED
    BY <1>3, <2>1
<1> HIDE DEF at
<1>5. Count(e.deck, at) = Count(e.deck, o) /\ Replaced(e.deck, at) = Replaced(e.deck, o)
  <2>1. CASE op.ids = o.ids
    <3>1. SlidesOf(e.deck, at) = SlidesOf(e.deck, o)
      <4>1. CASE op.ids = {}
        <5>1. at.ids = DOMAIN e.deck /\ o.ids = {}
          BY <1>2, <2>1, <4>1 DEF Ids, Everywhere
        <5>2. QED
          BY <5>1 DEF SlidesOf, Everywhere
      <4>2. CASE op.ids # {}
        <5>1. at.ids = o.ids
          BY <1>2, <1>3, <2>1, <4>2
        <5>2. QED
          BY <5>1 DEF SlidesOf
      <4>3. QED
        BY <4>1, <4>2
    <3>2. QED
      BY <1>2, <3>1, SameSlides
  <2>2. CASE op.ids = Hit(e.deck, o) /\ op.ids # {}
    <3>1. at.ids = Hit(e.deck, o) /\ Hit(e.deck, o) # {}
      BY <1>2, <1>3, <2>2
    <3>2. QED
      BY <1>1, <1>2, <3>1, HitOnly
  <2>3. QED
    BY <2>1, <2>2
<1>6. Edit(e, op) = [e EXCEPT !.ok = Ids(e, op) \subseteq DOMAIN e.deck /\ Count(e.deck, at) = op.expect,
                                 !.deck = Replaced(e.deck, at)]
  BY <1>2 DEF Edit, at
<1>7. QED
  BY <1>1, <1>4, <1>5, <1>6

-------------------------------------------------------------------------------
(* build.py: what was scanned is what deck_edit.py makes with the edits      *)
(* written so far, and no slide has gone.                                    *)
Agrees(k, pre, s) ==
  /\ s.problems = {} => EditDeck(k, pre \o s.ops).ok /\ EditDeck(k, pre \o s.ops).deck = s.deck
  /\ DOMAIN k \subseteq DOMAIN s.deck

LEMMA EditWritten ==
  ASSUME NEW k \in BuildDecks, NEW X, \A op \in X : GoodEdit(op), NEW Y, \A op \in Y : GoodEdit(op),
         NEW pre \in Seq(X), NEW ops \in Seq(Y), NEW op \in Y
  PROVE  /\ EditDeck(k, pre \o ops) \in EditStates
         /\ EditDeck(k, pre \o Append(ops, op)) = Edit(EditDeck(k, pre \o ops), op)
<1> DEFINE Z == X \cup Y
<1>1. pre \in Seq(Z) /\ ops \in Seq(Z) /\ op \in Z /\ <<op>> \in Seq(Z) /\ pre \o ops \in Seq(Z)
  <2>1. pre \in Seq(Z) /\ ops \in Seq(Z)
    BY SeqMonotonic
  <2>2. pre \o ops \in Seq(Z)
    BY <2>1, ConcatProperties
  <2>3. QED
    BY <2>1, <2>2
<1>2. \A o \in Z : GoodEdit(o)
  OBVIOUS
<1> HIDE DEF Z
<1>3. pre \o Append(ops, op) = Append(pre \o ops, op)
  <2>1. Append(ops, op) = ops \o <<op>> /\ Append(pre \o ops, op) = (pre \o ops) \o <<op>>
    BY <1>1, AppendIsConcat
  <2>2. (pre \o ops) \o <<op>> = pre \o (ops \o <<op>>)
    BY <1>1, ConcatAssociative
  <2>3. QED
    BY <2>1, <2>2
<1>4. QED
  BY <1>1, <1>2, <1>3, EditAppended

(* Slides keep their numbers when an edit replaces.                          *)
LEMMA RewriteAgrees ==
  ASSUME NEW k \in BuildDecks, NEW X, \A op \in X : GoodEdit(op), NEW pre \in Seq(X),
         NEW R, NEW H, \A op \in MadeOps(R, H) : GoodEdit(op),
         NEW s \in BuildStates(MadeOps(R, H)), Agrees(k, pre, s),
         NEW r \in R, GoodReplace(r), r.ids = {}
  PROVE  Agrees(k, pre, ApplyRewrite(s, r))
<1> DEFINE Y == MadeOps(R, H)
           op == Op(r, Hit(s.deck, r), Count(s.deck, r))
           t == ApplyRewrite(s, r)
           e == EditDeck(k, pre \o s.ops)
<1>1. s.deck \in BuildDecks /\ s.ops \in Seq(Y) /\ s = [deck |-> s.deck, ops |-> s.ops, problems |-> s.problems]
  BY DEF BuildStates
<1>2. CASE Count(s.deck, r) = 0
  BY <1>2 DEF ApplyRewrite
<1>3. CASE Count(s.deck, r) # 0
  <2>1. t.deck = Replaced(s.deck, r) /\ t.ops = Append(s.ops, op) /\ t.problems = s.problems
    BY <1>1, <1>3 DEF ApplyRewrite
  <2>2. DOMAIN t.deck = DOMAIN s.deck
    BY <1>1, <2>1, ReplacedDeck
  <2>3. Hit(s.deck, r) # {} /\ Hit(s.deck, r) \subseteq DOMAIN s.deck /\ Count(s.deck, r) \in Nat
        /\ Hit(s.deck, r) \in SUBSET Nat
    <3>1. SlidesOf(s.deck, r) \in SUBSET DOMAIN s.deck /\ Count(s.deck, r) \in Nat /\ Hit(s.deck, r) # {}
      BY <1>1, <1>3, CountsSlides DEF GoodReplace
    <3>2. Hit(s.deck, r) \subseteq SlidesOf(s.deck, r) /\ DOMAIN s.deck \in SUBSET Nat
      BY <1>1, BuildDeck DEF Hit
    <3>3. QED
      BY <3>1, <3>2
  <2>4. op \in Y
    BY <2>3 DEF MadeOps
  <2>5. op.op # "clone" /\ op.find = r.find /\ op.repl = r.repl /\ op.scope = r.scope
        /\ op.ids = Hit(s.deck, r) /\ op.expect = Count(s.deck, r)
    BY DEF Op
  <2> HIDE DEF op, Y, t
  <2>6. ASSUME s.problems = {} PROVE EditDeck(k, pre \o t.ops).ok /\ EditDeck(k, pre \o t.ops).deck = t.deck
    <3>1. e.ok /\ e.deck = s.deck
      BY <2>6 DEF Agrees
    <3>2. e \in EditStates /\ EditDeck(k, pre \o t.ops) = Edit(e, op)
      <4>1. \A o \in Y : GoodEdit(o)
        BY DEF Y
      <4>2. QED
        BY <1>1, <2>1, <2>4, <4>1, EditWritten
    <3> HIDE DEF e
    <3>3. Edit(e, op).ok /\ Edit(e, op).deck = Replaced(e.deck, r)
      BY <2>3, <2>5, <3>1, <3>2, EditReplaces
    <3>4. QED
      BY <2>1, <3>1, <3>2, <3>3
  <2>7. QED
    BY <2>1, <2>2, <2>6 DEF Agrees, t
<1>4. QED
  BY <1>2, <1>3

(* An edit that was written for the deck names slides it has, or none.       *)
Names(H, k) == \A h \in H : h.op = "clone" \/ h.ids = {} \/ h.ids \subseteq DOMAIN k

LEMMA HandAgrees ==
  ASSUME NEW k \in BuildDecks, NEW X, \A op \in X : GoodEdit(op), NEW pre \in Seq(X),
         NEW R, NEW H, \A op \in MadeOps(R, H) : GoodEdit(op), Names(H, k),
         NEW s \in BuildStates(MadeOps(R, H)), Agrees(k, pre, s),
         NEW h \in H, GoodEdit(h), h.op # "clone" => h.ids \in SUBSET Nat
  PROVE  Agrees(k, pre, ApplyHand(s, h))
<1> DEFINE Y == MadeOps(R, H)
           t == ApplyHand(s, h)
           e == EditDeck(k, pre \o s.ops)
<1>1. s.deck \in BuildDecks /\ s.ops \in Seq(Y) /\ s = [deck |-> s.deck, ops |-> s.ops, problems |-> s.problems]
  BY DEF BuildStates
<1>2. CASE h.op = "clone" /\ h.of \notin DOMAIN s.deck
  <2>1. t.deck = s.deck /\ t.problems = s.problems \cup {"fails"}
    BY <1>1, <1>2 DEF ApplyHand
  <2> HIDE DEF t
  <2>2. QED
    BY <2>1 DEF Agrees, t
<1>3. CASE h.op = "clone" /\ h.of \in DOMAIN s.deck
  <2>1. t.deck = Cloned(s.deck, h) /\ t.ops = Append(s.ops, h) /\ t.problems = s.problems
    BY <1>1, <1>3 DEF ApplyHand
  <2>2. DOMAIN s.deck \subseteq DOMAIN t.deck
    BY <1>1, <1>3, <2>1, ClonedDeck
  <2>3. h \in Y
    BY <1>3 DEF MadeOps
  <2> HIDE DEF t, Y
  <2>4. ASSUME s.problems = {} PROVE EditDeck(k, pre \o t.ops).ok /\ EditDeck(k, pre \o t.ops).deck = t.deck
    <3>1. e.ok /\ e.deck = s.deck
      BY <2>4 DEF Agrees
    <3>2. e \in EditStates /\ EditDeck(k, pre \o t.ops) = Edit(e, h)
      <4>1. \A o \in Y : GoodEdit(o)
        BY DEF Y
      <4>2. QED
        BY <1>1, <2>1, <2>3, <4>1, EditWritten
    <3> HIDE DEF e
    <3>3. Edit(e, h) = [e EXCEPT !.deck = Cloned(e.deck, h), !.new = CloneId(e.deck)]
      BY <1>3, <3>1 DEF Edit
    <3>4. e = [ok |-> e.ok, deck |-> e.deck, new |-> e.new]
      BY <3>2 DEF EditStates
    <3>5. Edit(e, h).ok /\ Edit(e, h).deck = Cloned(s.deck, h)
      BY <3>1, <3>3, <3>4
    <3>6. QED
      BY <2>1, <3>2, <3>5
  <2>5. QED
    BY <2>1, <2>2, <2>4 DEF Agrees, t
<1>4. CASE h.op # "clone"
  <2> DEFINE ids == IF h.ids = Everywhere /\ Hit(s.deck, h) # {} THEN Hit(s.deck, h) ELSE h.ids
             op == Op(h, ids, Count(s.deck, h))
             bad == IF Count(s.deck, h) = 0 THEN {"matches nothing"} ELSE {}
  <2>0. GoodReplace(h)
    BY <1>4 DEF GoodEdit
  <2>1. t.deck = Replaced(s.deck, h) /\ t.ops = Append(s.ops, op) /\ t.problems = s.problems \cup bad
    BY <1>1, <1>4 DEF ApplyHand
  <2>2. DOMAIN t.deck = DOMAIN s.deck
    BY <1>1, <2>0, <2>1, ReplacedDeck
  <2>3. Hit(s.deck, h) \subseteq DOMAIN s.deck /\ Count(s.deck, h) \in Nat /\ DOMAIN s.deck \in SUBSET Nat
        /\ (Count(s.deck, h) # 0 => Hit(s.deck, h) # {})
    <3>1. SlidesOf(s.deck, h) \in SUBSET DOMAIN s.deck /\ Count(s.deck, h) \in Nat
          /\ (Count(s.deck, h) # 0 => Hit(s.deck, h) # {})
      BY <1>1, <2>0, CountsSlides DEF GoodReplace
    <3>2. Hit(s.deck, h) \subseteq SlidesOf(s.deck, h) /\ DOMAIN s.deck \in SUBSET Nat
      BY <1>1, BuildDeck DEF Hit
    <3>3. QED
      BY <3>1, <3>2
  <2>4. ids \in SUBSET Nat
    BY <1>4, <2>3
  <2>5. op \in Y
    <3> HIDE DEF ids
    <3>1. QED
      BY <1>4, <2>3, <2>4 DEF MadeOps
  <2>6. op.op # "clone" /\ op.find = h.find /\ op.repl = h.repl /\ op.scope = h.scope
        /\ op.ids = ids /\ op.expect = Count(s.deck, h)
    BY DEF Op
  <2>7. ASSUME Count(s.deck, h) # 0
        PROVE  ids \subseteq DOMAIN s.deck /\ (ids = h.ids \/ (ids = Hit(s.deck, h) /\ ids # {}))
    <3>1. h.ids = {} \/ h.ids \subseteq DOMAIN s.deck
      BY <1>4 DEF Agrees, Names
    <3>2. QED
      BY <2>3, <2>7, <3>1 DEF Everywhere
  <2> HIDE DEF op, Y, t, ids
  <2>8. ASSUME t.problems = {} PROVE EditDeck(k, pre \o t.ops).ok /\ EditDeck(k, pre \o t.ops).deck = t.deck
    <3>0. s.problems = {} /\ Count(s.deck, h) # 0
      BY <2>1, <2>8
    <3>1. e.ok /\ e.deck = s.deck
      BY <3>0 DEF Agrees
    <3>2. e \in EditStates /\ EditDeck(k, pre \o t.ops) = Edit(e, op)
      <4>1. \A o \in Y : GoodEdit(o)
        BY DEF Y
      <4>2. t.ops = Append(s.ops, op) /\ s.ops \in Seq(Y)
        BY <1>1, <2>1
      <4>3. QED
        BY <2>5, <4>1, <4>2, EditWritten
    <3> HIDE DEF e
    <3>3. Edit(e, op).ok /\ Edit(e, op).deck = Replaced(e.deck, h)
      BY <2>0, <2>6, <2>7, <3>0, <3>1, <3>2, EditReplaces
    <3>4. QED
      BY <2>1, <3>1, <3>2, <3>3
  <2> HIDE DEF bad
  <2>9. QED
    BY <2>2, <2>8 DEF Agrees, t
<1>5. QED
  BY <1>2, <1>3, <1>4

(* The shared edits make the same deck in both.                              *)
LEMMA SharedAgrees ==
  ASSUME NEW k \in BuildDecks, NEW X, \A op \in X : GoodReplace(op) /\ op.op # "clone" /\ op.ids = {},
         NEW shared \in Seq(X), NEW Y, NEW s0 \in BuildStates(Y), s0 = [deck |-> k, ops |-> <<>>, problems |-> {}]
  PROVE  SharedFold(shared, s0) \in BuildStates(Y) /\ Agrees(k, shared, SharedFold(shared, s0))
<1> DEFINE N == Len(shared)
<1>1. N \in Nat
  BY LenProperties
<1>2. PICK f \in [0..N -> BuildStates(Y)] :
        /\ f[0] = s0 /\ \A n \in 1..N : f[n] = ApplyShared(f[n - 1], shared[n])
        /\ SharedFold(shared, s0) = f[N]
  <2>1. \A op \in X : GoodReplace(op)
    OBVIOUS
  <2>2. SharedRun(shared, s0, BuildStates(Y))
    BY <2>1, SharedTraced
  <2>3. QED
    BY <2>2 DEF SharedRun
<1>3. PICK e \in [0..N -> EditStates] :
        /\ e[0] = [ok |-> TRUE, deck |-> k, new |-> 0] /\ \A n \in 1..N : e[n] = Edit(e[n - 1], shared[n])
        /\ EditDeck(k, shared) = e[N]
  <2>1. \A op \in X : GoodEdit(op)
    BY DEF GoodEdit
  <2>2. QED
    BY <2>1, EditsTraced
<1> DEFINE F == {n \in Nat : n <= N => /\ f[n].ops = <<>> /\ DOMAIN f[n].deck = DOMAIN k
                                       /\ f[n].problems = {} => e[n].ok /\ e[n].deck = f[n].deck}
<1>4. 0 \in F
  BY <1>2, <1>3
<1>5. ASSUME NEW n \in Nat, n \in F PROVE n + 1 \in F
  <2>1. SUFFICES ASSUME n + 1 <= N
                 PROVE  /\ f[n + 1].ops = <<>> /\ DOMAIN f[n + 1].deck = DOMAIN k
                        /\ f[n + 1].problems = {} => e[n + 1].ok /\ e[n + 1].deck = f[n + 1].deck
    OBVIOUS
  <2> DEFINE s == f[n]
             op == shared[n + 1]
             t == f[n + 1]
             d == e[n]
             bad == IF Miscounted(s, op) THEN {"shared"} ELSE {}
  <2>2. n + 1 \in 1..N /\ (n + 1) - 1 = n /\ n \in 0..N /\ op \in X
    <3>1. n + 1 \in 1..N /\ (n + 1) - 1 = n /\ n \in 0..N
      BY <1>1, <2>1
    <3>2. QED
      BY <3>1, ElementOfSeq
  <2>3. t = ApplyShared(s, op) /\ e[n + 1] = Edit(d, op) /\ s \in BuildStates(Y) /\ d \in EditStates
    BY <1>2, <1>3, <2>2
  <2>4. s.ops = <<>> /\ DOMAIN s.deck = DOMAIN k /\ (s.problems = {} => d.ok /\ d.deck = s.deck)
    BY <1>1, <1>5, <2>1
  <2>5. GoodReplace(op) /\ op.op # "clone" /\ op.ids = {}
    BY <2>2
  <2> HIDE DEF s, op, t, d
  <2>6. s.deck \in BuildDecks /\ s = [deck |-> s.deck, ops |-> s.ops, problems |-> s.problems]
    BY <2>3 DEF BuildStates
  <2>7. t.deck = Replaced(s.deck, op) /\ t.ops = s.ops /\ t.problems = s.problems \cup bad
    BY <2>3, <2>6 DEF ApplyShared
  <2>8. DOMAIN t.deck = DOMAIN k
    BY <2>4, <2>5, <2>6, <2>7, ReplacedDeck
  <2>9. ASSUME t.problems = {} PROVE e[n + 1].ok /\ e[n + 1].deck = t.deck
    <3>1. s.problems = {} /\ Count(s.deck, op) = op.expect
      BY <2>7, <2>9 DEF Miscounted
    <3>2. d.ok /\ d.deck = s.deck /\ op.ids \subseteq DOMAIN d.deck
      BY <2>4, <2>5, <3>1
    <3>3. Edit(d, op).ok /\ Edit(d, op).deck = Replaced(d.deck, op)
      BY <2>3, <2>5, <3>1, <3>2, EditReplaces
    <3>4. QED
      BY <2>3, <2>7, <3>2, <3>3
  <2>10. QED
    BY <2>4, <2>7, <2>8, <2>9 DEF t
<1>6. N \in F
  <2> HIDE DEF F, N
  <2>1. \A n \in Nat : n \in F
    BY <1>4, <1>5, NumberInduction
  <2>2. QED
    BY <1>1, <2>1
<1>7. f[N] \in BuildStates(Y) /\ shared \o <<>> = shared
  BY <1>1, <1>2, ConcatEmptySeq
<1>8. f[N].ops = <<>> /\ DOMAIN f[N].deck = DOMAIN k /\ (f[N].problems = {} => e[N].ok /\ e[N].deck = f[N].deck)
  BY <1>1, <1>6
<1> HIDE DEF N
<1>9. QED
  BY <1>2, <1>3, <1>7, <1>8 DEF Agrees

LEMMA MadeGood ==
  ASSUME NEW R, \A r \in R : GoodReplace(r), NEW H, \A h \in H : GoodEdit(h)
  PROVE  \A op \in MadeOps(R, H) : GoodEdit(op)
<1> TAKE op \in MadeOps(R, H)
<1>1. CASE op \in {h \in H : h.op = "clone"}
  BY <1>1
<1>2. CASE op \in {Op(r, ids, n) : r \in R \cup {h \in H : h.op # "clone"}, ids \in SUBSET Nat, n \in Nat}
  <2>1. PICK r \in R \cup {h \in H : h.op # "clone"}, ids \in SUBSET Nat, n \in Nat : op = Op(r, ids, n)
    BY <1>2
  <2>2. r.find \in Vocabulary /\ r.repl \in Vocabulary
    BY DEF GoodReplace, GoodEdit
  <2>3. op.find = r.find /\ op.repl = r.repl
    BY <2>1 DEF Op
  <2>4. QED
    BY <2>2, <2>3 DEF GoodEdit, GoodReplace
<1>3. QED
  BY <1>1, <1>2 DEF MadeOps

(* What a deck holds that was edited by pass 2 in its three phases.          *)
LEMMA PassAgrees ==
  ASSUME NEW d, NEW k \in BuildDecks, decks[d] = k,
         NEW R, rewrites \in Seq(R), \A r \in R : GoodReplace(r) /\ r.ids = {},
         NEW H, handOps[d] \in Seq(H), \A h \in H : GoodEdit(h) /\ (h.op # "clone" => h.ids \in SUBSET Nat),
         NEW X, \A op \in X : GoodReplace(op) /\ op.op # "clone" /\ op.ids = {}, NEW shared \in Seq(X), NEW sharedAt
  PROVE  /\ Pass2(d, shared, sharedAt) \in BuildStates(MadeOps(R, H))
         /\ Names(H, k) => Agrees(k, IF d \in LANG THEN shared ELSE <<>>, Pass2(d, shared, sharedAt))
<1> DEFINE Y == MadeOps(R, H)
           S == BuildStates(Y)
           s0 == Scanned(d)
           s1 == IF d \in LANG THEN SharedFold(shared, s0) ELSE s0
           s2 == RestFold(d, sharedAt, s1)
           s3 == HandFold(handOps[d], s2)
           pre == IF d \in LANG THEN shared ELSE <<>>
           M == Len(Indexes)
           N == Len(handOps[d])
<1>1. Pass2(d, shared, sharedAt) = s3
  BY Phases
<1>2. \A op \in Y : GoodEdit(op)
  <2>1. \A r \in R : GoodReplace(r)
    OBVIOUS
  <2>2. \A h \in H : GoodEdit(h)
    OBVIOUS
  <2>3. QED
    BY <2>1, <2>2, MadeGood
<1>3. (\A op \in X : GoodEdit(op)) /\ pre \in Seq(X)
  BY DEF GoodEdit
<1>4. s0 = [deck |-> k, ops |-> <<>>, problems |-> {}] /\ s0 \in S
  BY DEF Scanned, BuildStates
<1>5. s1 \in S /\ Agrees(k, pre, s1)
  <2>1. CASE d \in LANG
    <3> HIDE DEF s0, Y
    <3>1. SharedFold(shared, s0) \in BuildStates(Y) /\ Agrees(k, shared, SharedFold(shared, s0))
      BY <1>4, SharedAgrees
    <3>2. QED
      BY <2>1, <3>1
  <2>2. CASE d \notin LANG
    <3>1. EditDeck(k, <<>>) = [ok |-> TRUE, deck |-> k, new |-> 0]
      <4>1. <<>> \in Seq(X) /\ Len(<<>>) = 0
        OBVIOUS
      <4>2. PICK f \in [0..Len(<<>>) -> EditStates] :
              f[0] = [ok |-> TRUE, deck |-> k, new |-> 0] /\ EditDeck(k, <<>>) = f[Len(<<>>)]
        BY <1>3, <4>1, EditsTraced
      <4>3. QED
        BY <4>1, <4>2
    <3>2. <<>> \o <<>> = <<>>
      OBVIOUS
    <3>3. pre = <<>> /\ s1 = s0
      BY <2>2
    <3>4. Agrees(k, <<>>, s0)
      BY <1>4, <3>1, <3>2 DEF Agrees
    <3>5. QED
      BY <1>4, <3>3, <3>4
  <2>3. QED
    BY <2>1, <2>2
<1> HIDE DEF s0, s1, pre
<1>6. s2 \in S /\ (Names(H, k) => Agrees(k, pre, s2))
  <2>1. \A r \in R : GoodReplace(r)
    OBVIOUS
  <2>2. PICK f \in [0..M -> S] :
          /\ f[0] = s1 /\ \A n \in 1..M : f[n] = RestStep(d, sharedAt, f[n - 1], Indexes[n])
          /\ RestFold(d, sharedAt, s1) = f[M]
    <3>1. s1 \in BuildStates(MadeOps(R, H))
      BY <1>5
    <3>2. RestRun(d, sharedAt, s1, BuildStates(MadeOps(R, H)))
      BY <2>1, <3>1, RestTraced
    <3>3. QED
      BY <3>2 DEF RestRun
  <2>3. M \in Nat /\ \A n \in 1..M : Indexes[n] \in 1..Len(rewrites)
    <3>1. Indexes \in Seq(1..Len(rewrites))
      BY AllIndexes
    <3>2. QED
      BY <3>1, LenProperties, ElementOfSeq
  <2> DEFINE F == {s \in S : Agrees(k, pre, s)}
  <2>4. ASSUME NEW n \in 1..M, f[n - 1] \in F PROVE f[n] \in F
    <3>1. f[n] \in S /\ f[n] = RestStep(d, sharedAt, f[n - 1], Indexes[n])
      BY <2>2, <2>3
    <3>2. rewrites[Indexes[n]] \in R
      BY <2>3, ElementOfSeq
    <3>3. GoodReplace(rewrites[Indexes[n]]) /\ rewrites[Indexes[n]].ids = {}
      BY <3>2
    <3>4. f[n - 1] \in BuildStates(Y) /\ Agrees(k, pre, f[n - 1])
      BY <2>4
    <3>5. Agrees(k, pre, ApplyRewrite(f[n - 1], rewrites[Indexes[n]]))
      BY <1>2, <1>3, <3>2, <3>3, <3>4, RewriteAgrees
    <3>6. QED
      BY <3>1, <3>4, <3>5 DEF RestStep
  <2>5. Along(f, M, F)
    <3>1. f[0] \in F
      BY <1>5, <2>2
    <3> HIDE DEF F
    <3>2. QED
      BY <2>4, <3>1 DEF Along
  <2>6. f[M] \in F
    <3> HIDE DEF F, M
    <3>1. \A n \in 0..M : f[n] \in F
      BY <2>3, <2>5, AllAlong
    <3>2. QED
      BY <2>3, <3>1
  <2>7. QED
    BY <2>2, <2>6
<1> HIDE DEF s2
<1>7. s3 \in S /\ (Names(H, k) => Agrees(k, pre, s3))
  <2>1. PICK f \in [0..N -> S] :
          /\ f[0] = s2 /\ \A n \in 1..N : f[n] = ApplyHand(f[n - 1], handOps[d][n])
          /\ HandFold(handOps[d], s2) = f[N]
    <3>1. s2 \in BuildStates(MadeOps(R, H))
      BY <1>6
    <3> DEFINE seq == handOps[d]
    <3>2. seq \in Seq(H)
      OBVIOUS
    <3> HIDE DEF seq
    <3>3. HandRun(seq, s2, BuildStates(MadeOps(R, H)))
      BY <3>1, <3>2, HandTraced
    <3>4. QED
      BY <3>3 DEF seq, HandRun
  <2>2. N \in Nat
    BY LenProperties
  <2> DEFINE F == {s \in S : Names(H, k) => Agrees(k, pre, s)}
  <2>3. ASSUME NEW n \in 1..N, f[n - 1] \in F PROVE f[n] \in F
    <3>1. f[n] \in S /\ f[n] = ApplyHand(f[n - 1], handOps[d][n])
      <4>1. n \in 0..N
        BY <2>2
      <4> HIDE DEF S, N
      <4>2. f[n] \in S
        BY <4>1
      <4>3. f[n] = ApplyHand(f[n - 1], handOps[d][n])
        BY <2>1
      <4>4. QED
        BY <4>2, <4>3
    <3>2. handOps[d][n] \in H
      BY ElementOfSeq
    <3>3. GoodEdit(handOps[d][n]) /\ (handOps[d][n].op # "clone" => handOps[d][n].ids \in SUBSET Nat)
      BY <3>2
    <3>4. f[n - 1] \in BuildStates(Y)
      BY <2>3
    <3>5. ASSUME Names(H, k) PROVE Agrees(k, pre, ApplyHand(f[n - 1], handOps[d][n]))
      <4>1. Agrees(k, pre, f[n - 1])
        BY <2>3, <3>5
      <4>2. QED
        BY <1>2, <1>3, <3>2, <3>3, <3>4, <3>5, <4>1, HandAgrees
    <3>6. QED
      BY <3>1, <3>5
  <2>4. Along(f, N, F)
    <3>1. f[0] \in F
      BY <1>6, <2>1
    <3> HIDE DEF F
    <3>2. QED
      BY <2>3, <3>1 DEF Along
  <2>5. f[N] \in F
    <3> HIDE DEF F, N
    <3>1. \A n \in 0..N : f[n] \in F
      BY <2>2, <2>4, AllAlong
    <3>2. QED
      BY <2>2, <3>1
  <2>6. QED
    BY <2>1, <2>5
<1>8. QED
  BY <1>1, <1>7 DEF pre

(* Every edit of a manifest was written: as the clone of a slide, or with    *)
(* what it inserts.                                                          *)
FromTexts(op, d) ==
  \/ op.op = "clone" /\ \E i \in DOMAIN handOps[d] : op = handOps[d][i]
  \/ /\ op.op # "clone" /\ GoodReplace(op)
     /\ \/ \E i \in DOMAIN rewrites : op.repl = rewrites[i].repl
        \/ \E i \in DOMAIN handOps[d] : handOps[d][i].op # "clone" /\ op.repl = handOps[d][i].repl
ManifestOf(b, d) == (IF d \in LANG THEN b.shared ELSE <<>>) \o b.ops[d]
BuiltAs(b) ==
  \A d \in LANG \cup POLICY :
    /\ \E Z : ManifestOf(b, d) \in Seq(Z) /\ \A op \in Z : FromTexts(op, d)
    /\ b.problems = {} /\ NamesSlides(d)
         => EditDeck(decks[d], ManifestOf(b, d)).ok /\ EditDeck(decks[d], ManifestOf(b, d)).deck = b.after[d]
ManifestShape ==
  /\ decks \in Decks0 /\ rewrites \in Seq(Rewrites)
  /\ handOps \in [LANG \cup POLICY -> Seq(HandWritten)]

LEMMA TextsWritten ==
  /\ \A r \in Rewrites : GoodReplace(r) /\ r.ids = {}
  /\ \A h \in HandWritten : GoodEdit(h) /\ (h.op # "clone" => h.ids \in SUBSET Nat)
<1>1. ASSUME NEW r \in Rewrites PROVE GoodReplace(r) /\ r.ids = {}
  <2>1. r \in [find : Vocabulary, repl : Vocabulary, scope : {"slide", "notes", "both"}, decks : SUBSET (LANG \cup POLICY),
               allow_code : BOOLEAN, ids : {{}}]
    BY ManifestAssumption
  <2>2. QED
    BY <2>1 DEF GoodReplace
<1>2. ASSUME NEW h \in HandWritten PROVE GoodEdit(h) /\ (h.op # "clone" => h.ids \in SUBSET Nat)
  <2>1. \/ h \in [op : {"clone"}, of : Nat]
        \/ h \in [op : {"replace"}, find : Vocabulary, repl : Vocabulary, scope : {"slide", "notes", "both"}, ids : SUBSET Nat, expect : Nat]
    BY ManifestAssumption
  <2>2. QED
    BY <2>1 DEF GoodEdit, GoodReplace
<1>3. QED
  BY <1>1, <1>2

LEMMA DecksWritten ==
  ASSUME NEW ds \in Decks0, NEW d \in LANG \cup POLICY
  PROVE  ds[d] \in BuildDecks
<1>1. /\ DOMAIN ds[d] \subseteq Nat \ {0} /\ IsFiniteSet(DOMAIN ds[d])
      /\ ds[d] \in [DOMAIN ds[d] -> [{"slide", "code", "notes"} -> [Vocabulary -> Nat]]]
  BY ManifestAssumption
<1>2. QED
  BY <1>1, BuildDeck DEF SlideParts

(* The shared manifest: each edit a rewrite, in all decks, with its count.   *)
SharedOps(seq) == {Op(seq[i], {}, n) : i \in DOMAIN seq, n \in {Pass1[CHOOSE d \in LANG : TRUE].counts[j] : j \in DOMAIN seq}}

LEMMA SharedWritten ==
  ASSUME ManifestShape
  PROVE  /\ BuildAll.shared \in Seq(SharedOps(rewrites))
         /\ \A op \in SharedOps(rewrites) : GoodReplace(op) /\ op.op # "clone" /\ op.ids = {}
         /\ \A op \in SharedOps(rewrites) : \E i \in DOMAIN rewrites : op.repl = rewrites[i].repl
<1> DEFINE pass1 == Pass1
           X == SharedOps(rewrites)
           n(i) == pass1[CHOOSE d \in LANG : TRUE].counts[i]
           parts == [i \in DOMAIN rewrites |-> IF i \in SharedIndexes(pass1)
                                               THEN <<Op(rewrites[i], Everywhere, n(i))>> ELSE <<>>]
<1>1. Len(rewrites) \in Nat /\ DOMAIN rewrites = 1..Len(rewrites) /\ \A i \in DOMAIN rewrites : rewrites[i] \in Rewrites
  BY LenProperties, ElementOfSeq DEF ManifestShape
<1>2. BuildAll.shared = FlattenSeq(parts)
  BY DEF BuildAll
<1>3. ASSUME NEW i \in DOMAIN rewrites PROVE Op(rewrites[i], Everywhere, n(i)) \in X
  <2> DEFINE C == {Pass1[CHOOSE d \in LANG : TRUE].counts[j] : j \in DOMAIN rewrites}
  <2>1. n(i) \in C
    OBVIOUS
  <2>2. X = {Op(rewrites[j], {}, m) : j \in DOMAIN rewrites, m \in C}
    BY DEF SharedOps
  <2> HIDE DEF X, C, n
  <2>3. QED
    BY <2>1, <2>2 DEF Everywhere
<1> HIDE DEF X, n
<1>4. parts \in Seq(Seq(X))
  <2>1. ASSUME NEW i \in 1..Len(rewrites) PROVE parts[i] \in Seq(X)
    <3>1. Op(rewrites[i], Everywhere, n(i)) \in X
      BY <1>1, <1>3
    <3>2. <<Op(rewrites[i], Everywhere, n(i))>> \in Seq(X) /\ <<>> \in Seq(X)
      BY <3>1
    <3>3. parts[i] = IF i \in SharedIndexes(pass1) THEN <<Op(rewrites[i], Everywhere, n(i))>> ELSE <<>>
      BY <1>1
    <3>4. QED
      BY <3>2, <3>3
  <2>2. parts = [i \in 1..Len(rewrites) |-> parts[i]]
    BY <1>1
  <2> HIDE DEF parts
  <2>3. parts \in [1..Len(rewrites) -> Seq(X)]
    BY <2>1, <2>2
  <2>4. QED
    BY <1>1, <2>3
<1> HIDE DEF parts
<1>5. FlattenSeq(parts) \in Seq(X)
  BY <1>4, FlatTyped
<1>6. ASSUME NEW op \in X
      PROVE  GoodReplace(op) /\ op.op # "clone" /\ op.ids = {} /\ \E i \in DOMAIN rewrites : op.repl = rewrites[i].repl
  <2>1. PICK i \in DOMAIN rewrites : \E m : op = Op(rewrites[i], {}, m)
    BY DEF SharedOps, X
  <2>2. op.find = rewrites[i].find /\ op.repl = rewrites[i].repl /\ op.op = "replace" /\ op.ids = {}
    BY <2>1 DEF Op
  <2>3. GoodReplace(rewrites[i])
    BY <1>1, TextsWritten
  <2>4. QED
    BY <2>2, <2>3 DEF GoodReplace
<1>7. QED
  BY <1>2, <1>5, <1>6 DEF X

(* What build.py writes applies, when it found no problem.                   *)
LEMMA BuildFacts ==
  ASSUME ManifestShape
  PROVE  BuiltAs(BuildAll) /\ BuildAll.problems \subseteq {"code", "nowhere", "shared", "matches nothing", "fails"}
<1> DEFINE b == BuildAll
           at == SharedIndexes(Pass1)
           R == {rewrites[i] : i \in DOMAIN rewrites}
           X == SharedOps(rewrites)
           pass2(d) == Pass2(d, b.shared, at)
<1>1. \A d \in LANG \cup POLICY :
        b.ops[d] = pass2(d).ops /\ b.after[d] = pass2(d).deck /\ (b.problems = {} => pass2(d).problems = {})
  BY DEF BuildAll, AllDecks
<1>0. \A x \in b.problems : x \in {"code", "nowhere"} \/ \E d \in LANG \cup POLICY : x \in pass2(d).problems
  <2> DEFINE Shared(i) == Op(rewrites[i], Everywhere, Pass1[CHOOSE d \in LANG : TRUE].counts[i])
             shared == FlattenSeq([i \in DOMAIN rewrites |-> IF i \in at THEN <<Shared(i)>> ELSE <<>>])
             of == [d \in AllDecks |-> Pass2(d, shared, at)]
             P == UNION {of[d].problems : d \in AllDecks}
             code == \E d \in LANG : Pass1[d].code
             nowhere == \E i \in DOMAIN rewrites : ~Matched(Pass1, i)
  <2>1. b.shared = shared
    BY DEF BuildAll
  <2>2. b.problems = P \cup (IF code THEN {"code"} ELSE {}) \cup (IF nowhere THEN {"nowhere"} ELSE {})
    BY DEF BuildAll
  <2>3. \A d \in LANG \cup POLICY : of[d] = pass2(d)
    <3> HIDE DEF shared, b
    <3>1. QED
      BY <2>1 DEF AllDecks
  <2> HIDE DEF of
  <2>4. \A x \in P : \E d \in LANG \cup POLICY : x \in of[d].problems
    BY DEF AllDecks
  <2> HIDE DEF P, code, nowhere, b, pass2
  <2>5. QED
    BY <2>2, <2>3, <2>4
<1>2. /\ b.shared \in Seq(X)
      /\ \A op \in X : GoodReplace(op) /\ op.op # "clone" /\ op.ids = {}
      /\ \A op \in X : \E i \in DOMAIN rewrites : op.repl = rewrites[i].repl
  BY SharedWritten
<1> HIDE DEF b, at, X
<1>3. rewrites \in Seq(R) /\ \A r \in R : GoodReplace(r) /\ r.ids = {}
  <2>1. Len(rewrites) \in Nat /\ DOMAIN rewrites = 1..Len(rewrites) /\ rewrites \in [1..Len(rewrites) -> Rewrites]
    BY LenProperties DEF ManifestShape
  <2>2. rewrites \in [1..Len(rewrites) -> R]
    BY <2>1
  <2>3. rewrites \in Seq(R)
    BY <2>1, <2>2
  <2>4. R \subseteq Rewrites
    BY <2>1
  <2>5. QED
    BY <2>3, <2>4, TextsWritten
<1>4. ASSUME NEW d \in LANG \cup POLICY
      PROVE  /\ \E Z : ManifestOf(b, d) \in Seq(Z) /\ \A op \in Z : FromTexts(op, d)
             /\ b.problems = {} /\ NamesSlides(d)
                  => EditDeck(decks[d], ManifestOf(b, d)).ok /\ EditDeck(decks[d], ManifestOf(b, d)).deck = b.after[d]
             /\ pass2(d).problems \subseteq {"shared", "matches nothing", "fails"}
  <2> DEFINE k == decks[d]
             seq == handOps[d]
             H == {seq[i] : i \in DOMAIN seq}
             Y == MadeOps(R, H)
             pre == IF d \in LANG THEN b.shared ELSE <<>>
             t == pass2(d)
  <2>1. k \in BuildDecks /\ seq \in Seq(HandWritten)
    BY DecksWritten DEF ManifestShape
  <2>2. seq \in Seq(H) /\ \A h \in H : GoodEdit(h) /\ (h.op # "clone" => h.ids \in SUBSET Nat)
    <3> HIDE DEF seq
    <3>1. Len(seq) \in Nat /\ DOMAIN seq = 1..Len(seq) /\ seq \in [1..Len(seq) -> HandWritten]
      BY <2>1, LenProperties
    <3>2. seq \in [1..Len(seq) -> H]
      BY <3>1
    <3>3. seq \in Seq(H)
      BY <3>1, <3>2
    <3>4. H \subseteq HandWritten
      BY <3>1
    <3>5. QED
      BY <3>3, <3>4, TextsWritten
  <2>3. t \in BuildStates(Y) /\ (Names(H, k) => Agrees(k, pre, t))
    <3>1. handOps[d] \in Seq(H)
      BY <2>2
    <3> HIDE DEF R, H
    <3>2. QED
      BY <1>2, <1>3, <2>1, <2>2, <3>1, PassAgrees
  <2>4. ManifestOf(b, d) = pre \o t.ops
    BY <1>1 DEF ManifestOf
  <2>5. pre \in Seq(X) /\ t.ops \in Seq(Y)
    <3>1. t.ops \in Seq(Y)
      BY <2>3 DEF BuildStates
    <3>2. <<>> \in Seq(X)
      OBVIOUS
    <3>3. QED
      BY <1>2, <3>1, <3>2
  <2>6. ASSUME NEW op \in X PROVE FromTexts(op, d)
    BY <1>2 DEF FromTexts
  <2>7. ASSUME NEW op \in Y PROVE FromTexts(op, d)
    <3>1. CASE op \in {h \in H : h.op = "clone"}
      BY <3>1 DEF FromTexts
    <3>2. CASE op \in {Op(r, ids, n) : r \in R \cup {h \in H : h.op # "clone"}, ids \in SUBSET Nat, n \in Nat}
      <4>1. PICK r \in R \cup {h \in H : h.op # "clone"}, ids \in SUBSET Nat, n \in Nat : op = Op(r, ids, n)
        BY <3>2
      <4>2. op.op = "replace" /\ op.find = r.find /\ op.repl = r.repl
        BY <4>1 DEF Op
      <4>3. GoodReplace(r)
        BY <1>3, <2>2 DEF GoodEdit
      <4>4. (\E i \in DOMAIN rewrites : r = rewrites[i]) \/ (\E i \in DOMAIN seq : seq[i].op # "clone" /\ r = seq[i])
        OBVIOUS
      <4>5. QED
        BY <4>2, <4>3, <4>4 DEF FromTexts, GoodReplace
    <3>3. QED
      BY <3>1, <3>2 DEF MadeOps
  <2> HIDE DEF t, pre, Y
  <2>8. pre \o t.ops \in Seq(X \cup Y) /\ \A op \in X \cup Y : FromTexts(op, d)
    <3>1. pre \in Seq(X \cup Y) /\ t.ops \in Seq(X \cup Y)
      BY <2>5, SeqMonotonic
    <3>2. pre \o t.ops \in Seq(X \cup Y)
      BY <3>1, ConcatProperties
    <3>3. QED
      BY <3>2, <2>6, <2>7
  <2>9. ASSUME b.problems = {}, NamesSlides(d)
        PROVE  EditDeck(k, pre \o t.ops).ok /\ EditDeck(k, pre \o t.ops).deck = b.after[d]
    <3>1. Names(H, k)
      BY <2>9 DEF Names, NamesSlides, Everywhere
    <3>2. t.problems = {} /\ b.after[d] = t.deck
      BY <1>1, <2>9 DEF t
    <3>3. QED
      BY <2>3, <3>1, <3>2 DEF Agrees
  <2>10. pass2(d).problems \subseteq {"shared", "matches nothing", "fails"}
    BY <2>3 DEF BuildStates, t
  <2>11. QED
    BY <2>4, <2>8, <2>9, <2>10
<1>5. b.problems \subseteq {"code", "nowhere", "shared", "matches nothing", "fails"}
  BY <1>0, <1>4
<1>6. BuiltAs(b)
  BY <1>4 DEF BuiltAs
<1>7. QED
  BY <1>5, <1>6 DEF b

(* Fewer banned words, or as many, at every place.                           *)
NoMore(l, k) ==
  /\ l \in BuildDecks /\ DOMAIN l = DOMAIN k
  /\ \A s \in DOMAIN k, p \in SlideParts, w \in Banned : l[s][p][w] <= k[s][p][w]

LEMMA NoMoreBanned ==
  ASSUME NEW k \in BuildDecks, NEW Z, NEW seq \in Seq(Z),
         \A op \in Z : op.op # "clone" /\ GoodReplace(op) /\ op.repl \notin Banned
  PROVE  NoMore(EditDeck(k, seq).deck, k)
<1> DEFINE N == Len(seq)
<1>1. N \in Nat
  BY LenProperties
<1>2. Banned \subseteq Vocabulary
  BY ManifestAssumption
<1>3. \A op \in Z : GoodEdit(op)
  BY DEF GoodEdit
<1>4. PICK f \in [0..N -> EditStates] :
        /\ f[0] = [ok |-> TRUE, deck |-> k, new |-> 0] /\ \A n \in 1..N : f[n] = Edit(f[n - 1], seq[n])
        /\ EditDeck(k, seq) = f[N]
  BY <1>3, EditsTraced
<1> DEFINE F == {e \in EditStates : NoMore(e.deck, k)}
<1>5. f[0] \in F
  <2>1. f[0] \in EditStates /\ f[0].deck = k
    <3>1. 0 \in 0..N
      BY <1>1
    <3>2. f[0] = [ok |-> TRUE, deck |-> k, new |-> 0]
      BY <1>4
    <3> HIDE DEF N
    <3>3. f[0] \in EditStates
      BY <1>4, <3>1
    <3>4. QED
      BY <3>2, <3>3
  <2>2. \A s \in DOMAIN k, p \in SlideParts, w \in Banned : k[s][p][w] \in Nat
    BY <1>2, BuildDeck
  <2>3. QED
    BY <2>1, <2>2 DEF NoMore
<1>6. ASSUME NEW n \in 1..N, f[n - 1] \in F PROVE f[n] \in F
  <2> DEFINE e == f[n - 1]
             op == seq[n]
             at == Op(op, Ids(e, op), op.expect)
  <2>1. f[n] \in EditStates /\ f[n] = Edit(e, op) /\ op \in Z
    <3>1. op \in Z
      BY ElementOfSeq
    <3>2. QED
      BY <1>1, <1>4, <3>1
  <2>2. e \in EditStates /\ NoMore(e.deck, k) /\ op.op # "clone" /\ GoodReplace(op) /\ op.repl \notin Banned
    BY <1>6, <2>1
  <2> HIDE DEF e, op
  <2>3. CASE ~e.ok
    BY <2>1, <2>2, <2>3 DEF Edit
  <2>4. CASE e.ok
    <3>1. e.deck \in BuildDecks /\ e = [ok |-> e.ok, deck |-> e.deck, new |-> e.new]
      BY <2>2 DEF EditStates
    <3>2. f[n].deck = Replaced(e.deck, at)
      BY <2>1, <2>2, <2>4, <3>1 DEF Edit
    <3>3. GoodReplace(at) /\ at.repl = op.repl
      BY <2>2 DEF GoodReplace, Op
    <3> HIDE DEF at
    <3>4. /\ Replaced(e.deck, at) \in BuildDecks /\ DOMAIN Replaced(e.deck, at) = DOMAIN e.deck
          /\ \A s \in DOMAIN e.deck, p \in SlideParts, w \in Vocabulary \ {at.repl} : Replaced(e.deck, at)[s][p][w] <= e.deck[s][p][w]
      BY <3>1, <3>3, ReplacedDeck
    <3> DEFINE l == Replaced(e.deck, at)
               m == e.deck
    <3>5. ASSUME NEW s \in DOMAIN k, NEW p \in SlideParts, NEW w \in Banned PROVE l[s][p][w] <= k[s][p][w]
      <4>1. s \in DOMAIN m /\ m[s][p][w] <= k[s][p][w]
        BY <2>2 DEF NoMore
      <4>2. w \in Vocabulary \ {at.repl}
        BY <1>2, <2>2, <3>3
      <4>3. l[s][p][w] <= m[s][p][w]
        BY <3>4, <4>1, <4>2
      <4>4. l \in BuildDecks /\ m \in BuildDecks /\ s \in DOMAIN l
        BY <3>1, <3>4, <4>1
      <4> HIDE DEF l, m
      <4>5. l[s][p][w] \in Nat /\ m[s][p][w] \in Nat /\ k[s][p][w] \in Nat
        BY <4>1, <4>2, <4>4, BuildDeck
      <4>6. QED
        BY <4>1, <4>3, <4>5
    <3>6. NoMore(l, k)
      BY <2>2, <3>4, <3>5 DEF NoMore
    <3>7. QED
      BY <2>1, <3>2, <3>6
  <2>5. QED
    BY <2>3, <2>4
<1>7. Along(f, N, F)
  <2> HIDE DEF F
  <2>1. QED
    BY <1>5, <1>6 DEF Along
<1>8. f[N] \in F
  <2> HIDE DEF F, N
  <2>1. \A n \in 0..N : f[n] \in F
    BY <1>1, <1>7, AllAlong
  <2>2. QED
    BY <1>1, <2>1
<1>9. QED
  BY <1>4, <1>8

LEMMA BannedSums ==
  ASSUME NEW k \in BuildDecks, NEW l, NoMore(l, k)
  PROVE  BannedIn(l) <= BannedIn(k)
<1> DEFINE PW == Parts \X Banned
           at(x, s) == [pw \in PW |-> x[s][pw[1]][pw[2]]]
           on(x) == [s \in DOMAIN x |-> BannedOn(x, s)]
<1>1. IsFiniteSet(PW) /\ Parts = SlideParts /\ Banned \subseteq Vocabulary
  <2>1. IsFiniteSet(SlideParts)
    <3>1. IsFiniteSet({"slide"}) /\ IsFiniteSet({"code"}) /\ IsFiniteSet({"notes"})
      BY FS_Singleton
    <3>2. SlideParts = {"slide"} \cup ({"code"} \cup {"notes"})
      BY DEF SlideParts
    <3>3. QED
      BY <3>1, <3>2, FS_Union
  <2>2. Parts = SlideParts
    BY DEF Parts, SlideParts
  <2>3. QED
    BY <2>1, <2>2, ManifestAssumption, FS_Product
<1>2. l \in BuildDecks /\ DOMAIN l = DOMAIN k /\ IsFiniteSet(DOMAIN k)
  BY BuildDeck DEF NoMore
<1>3. ASSUME NEW s \in DOMAIN k
      PROVE  BannedOn(l, s) \in Int /\ BannedOn(k, s) \in Int /\ BannedOn(l, s) <= BannedOn(k, s)
  <2>1. ASSUME NEW pw \in PW
        PROVE  at(l, s)[pw] \in Int /\ at(k, s)[pw] \in Int /\ at(l, s)[pw] <= at(k, s)[pw]
    <3>1. pw[1] \in SlideParts /\ pw[2] \in Banned /\ pw[2] \in Vocabulary
      BY <1>1
    <3>2. l[s][pw[1]][pw[2]] \in Nat /\ k[s][pw[1]][pw[2]] \in Nat
      BY <1>2, <3>1, BuildDeck
    <3>3. l[s][pw[1]][pw[2]] <= k[s][pw[1]][pw[2]]
      BY <3>1 DEF NoMore
    <3>4. QED
      BY <3>2, <3>3
  <2>2. BannedOn(l, s) = SumFunctionOnSet(at(l, s), PW) /\ BannedOn(k, s) = SumFunctionOnSet(at(k, s), PW)
    BY DEF BannedOn, SumFunction
  <2> DEFINE f == at(l, s)
             g == at(k, s)
  <2> HIDE DEF f, g, PW
  <2>3. \A pw \in PW : f[pw] \in Int /\ g[pw] \in Int /\ f[pw] <= g[pw]
    BY <2>1 DEF f, g
  <2>4. SumFunctionOnSet(f, PW) \in Int /\ SumFunctionOnSet(g, PW) \in Int
    BY <1>1, <2>3, SumInt
  <2>5. SumFunctionOnSet(f, PW) <= SumFunctionOnSet(g, PW)
    BY <1>1, <2>3, SumMonotone
  <2>6. QED
    BY <2>2, <2>4, <2>5 DEF f, g
<1>4. BannedIn(l) = SumFunctionOnSet(on(l), DOMAIN l) /\ BannedIn(k) = SumFunctionOnSet(on(k), DOMAIN k)
  BY DEF BannedIn, SumFunction
<1>5. \A s \in DOMAIN k : on(l)[s] \in Int /\ on(k)[s] \in Int /\ on(l)[s] <= on(k)[s]
  BY <1>2, <1>3
<1> DEFINE f == on(l)
           g == on(k)
<1> HIDE DEF f, g
<1>6. \A s \in DOMAIN k : f[s] \in Int /\ g[s] \in Int /\ f[s] <= g[s]
  BY <1>5 DEF f, g
<1>7. SumFunctionOnSet(f, DOMAIN k) <= SumFunctionOnSet(g, DOMAIN k)
  BY <1>2, <1>6, SumMonotone
<1>8. QED
  BY <1>2, <1>4, <1>7 DEF f, g

(* Where no text for a deck has a banned word, the edits bring none.         *)
LEMMA CleanTexts ==
  ASSUME ManifestShape, NEW b, BuiltAs(b), TextsOk, NEW d \in LANG \cup POLICY,
         \A i \in DOMAIN handOps[d] : handOps[d][i].op # "clone", \A i \in DOMAIN rewrites : ~rewrites[i].allow_code
  PROVE  BannedIn(EditDeck(decks[d], ManifestOf(b, d)).deck) <= BannedIn(decks[d])
<1>1. PICK Z : ManifestOf(b, d) \in Seq(Z) /\ \A op \in Z : FromTexts(op, d)
  BY DEF BuiltAs
<1>2. \A i \in DOMAIN rewrites : rewrites[i].repl \notin Banned
  BY DEF TextsOk, CheckedTexts, Range
<1>3. \A i \in DOMAIN handOps[d] : handOps[d][i].op = "replace"
  <2>1. handOps[d] \in Seq(HandWritten)
    BY DEF ManifestShape
  <2>2. ASSUME NEW i \in DOMAIN handOps[d] PROVE handOps[d][i].op = "replace"
    <3>1. handOps[d][i] \in HandWritten
      BY <2>1, LenProperties, ElementOfSeq
    <3>2. \/ handOps[d][i] \in [op : {"clone"}, of : Nat]
          \/ handOps[d][i] \in [op : {"replace"}, find : Vocabulary, repl : Vocabulary, scope : {"slide", "notes", "both"},
                                ids : SUBSET Nat, expect : Nat]
      BY <3>1, ManifestAssumption
    <3>3. QED
      BY <3>2
  <2>3. QED
    BY <2>2
<1>4. \A i \in DOMAIN handOps[d] : handOps[d][i].repl \notin Banned
  BY <1>3 DEF TextsOk, CheckedTexts, Range, AllDecks
<1>5. \A op \in Z : op.op # "clone" /\ GoodReplace(op) /\ op.repl \notin Banned
  BY <1>1, <1>2, <1>4 DEF FromTexts
<1>6. decks[d] \in BuildDecks
  BY DecksWritten DEF ManifestShape
<1>7. NoMore(EditDeck(decks[d], ManifestOf(b, d)).deck, decks[d])
  BY <1>1, <1>5, <1>6, NoMoreBanned
<1>8. QED
  BY <1>6, <1>7, BannedSums

LEMMA TriedOrNot ==
  ASSUME ManifestShape, NEW b, BuiltAs(b), NEW d \in LANG \cup POLICY
  PROVE  EditDeck(decks[d], ManifestOf(b, d)).ok \in BOOLEAN
<1> DEFINE k == decks[d]
           m == ManifestOf(b, d)
<1>1. PICK Z : m \in Seq(Z) /\ \A op \in Z : FromTexts(op, d)
  BY DEF BuiltAs
<1>2. k \in BuildDecks /\ \A op \in Z : GoodEdit(op)
  BY <1>1, DecksWritten DEF ManifestShape, FromTexts, GoodEdit
<1> HIDE DEF k, m
<1>3. PICK f \in [0..Len(m) -> EditStates] : EditDeck(k, m) = f[Len(m)]
  BY <1>1, <1>2, EditsTraced
<1>4. Len(m) \in 0..Len(m)
  BY <1>1, LenProperties
<1>5. EditDeck(k, m) \in EditStates
  BY <1>3, <1>4
<1>6. QED
  BY <1>5 DEF EditStates, k, m

(* The decks, the texts and what was built of them belong together, and no   *)
(* deck that was tried has gained a banned word.                             *)
ManifestInv ==
  /\ ManifestTypeOK
  /\ ManifestShape
  /\ built # NotBuilt => BuiltAs(built)
  /\ NoBannedWordGained

LEMMA DecksNamed == \A ds \in Decks0 : DOMAIN ds = AllDecks
BY ManifestAssumption DEF AllDecks

LEMMA ManifestInitially == ManifestInit => ManifestInv
<1> SUFFICES ASSUME ManifestInit PROVE ManifestInv
  OBVIOUS
<1>1. decks \in Decks0 /\ rewrites = <<>> /\ handOps = [d \in LANG \cup POLICY |-> <<>>]
      /\ built = NotBuilt /\ verified = NotBuilt
  BY DEF ManifestInit, AllDecks
<1>2. ManifestShape
  BY <1>1 DEF ManifestShape
<1>3. QED
  BY <1>1, <1>2, DecksNamed DEF ManifestInv, NoBannedWordGained, ManifestTypeOK, ManifestShape

LEMMA ManifestKept == ManifestInv /\ [ManifestNext]_manifestVars => ManifestInv'
<1> SUFFICES ASSUME ManifestInv, [ManifestNext]_manifestVars PROVE ManifestInv'
  OBVIOUS
<1>1. ASSUME NEW r \in Rewrites, WriteRewrite(r) PROVE ManifestInv'
  <2>1. rewrites' = Append(rewrites, r) /\ built' = NotBuilt /\ verified' = NotBuilt
        /\ decks' = decks /\ handOps' = handOps
    BY <1>1 DEF WriteRewrite, Write
  <2>2. rewrites' \in Seq(Rewrites)
    BY <2>1, AppendProperties DEF ManifestInv, ManifestShape
  <2>3. ManifestShape'
    BY <2>1, <2>2 DEF ManifestInv, ManifestShape
  <2>4. QED
    BY <2>1, <2>3, DecksNamed DEF ManifestInv, NoBannedWordGained, NotBuilt, ManifestTypeOK, ManifestShape
<1>2. ASSUME NEW d \in LANG \cup POLICY, NEW op \in HandWritten, WriteOp(d, op) PROVE ManifestInv'
  <2>1. handOps' = [handOps EXCEPT ![d] = Append(handOps[d], op)] /\ built' = NotBuilt /\ verified' = NotBuilt
        /\ decks' = decks /\ rewrites' = rewrites
    BY <1>2 DEF WriteOp, Write
  <2>2. handOps \in [LANG \cup POLICY -> Seq(HandWritten)]
    BY DEF ManifestInv, ManifestShape
  <2>3. Append(handOps[d], op) \in Seq(HandWritten)
    BY <2>2, AppendProperties
  <2>4. ManifestShape'
    BY <2>1, <2>2, <2>3 DEF ManifestInv, ManifestShape
  <2>5. QED
    BY <2>1, <2>4 DEF ManifestInv, NoBannedWordGained, NotBuilt, ManifestTypeOK
<1>3. ASSUME Build PROVE ManifestInv'
  <2>1. built' = BuildAll /\ decks' = decks /\ rewrites' = rewrites /\ handOps' = handOps /\ verified' = verified
    BY <1>3 DEF Build
  <2>2. ManifestShape' /\ ManifestShape
    BY <2>1 DEF ManifestInv, ManifestShape
  <2>3. BuiltAs(BuildAll) /\ BuildAll.problems \subseteq {"code", "nowhere", "shared", "matches nothing", "fails"}
    BY <2>2, BuildFacts
  <2>4. BuiltAs(built)'
    <3> DEFINE b == BuildAll
    <3>1. BuiltAs(b) /\ built' = b
      BY <2>1, <2>3
    <3> HIDE DEF b
    <3>2. QED
      BY <2>1, <3>1 DEF BuiltAs, ManifestOf, FromTexts, NamesSlides
  <2>5. NoBannedWordGained'
    BY <2>1 DEF ManifestInv, NoBannedWordGained, TextsOk, CheckedTexts, Range
  <2>6. ManifestTypeOK'
    <3> DEFINE p == BuildAll.problems
    <3>1. built'.problems = p /\ p \subseteq {"code", "nowhere", "shared", "matches nothing", "fails"}
      BY <2>1, <2>3
    <3> HIDE DEF p
    <3>2. QED
      BY <2>1, <3>1 DEF ManifestInv, ManifestTypeOK
  <2>7. QED
    BY <2>2, <2>4, <2>5, <2>6 DEF ManifestInv
<1>4. ASSUME VerifyAll PROVE ManifestInv'
  <2>1. built # NotBuilt /\ decks' = decks /\ rewrites' = rewrites /\ handOps' = handOps /\ built' = built
    BY <1>4 DEF VerifyAll
  <2>2. ManifestShape' /\ ManifestShape /\ BuiltAs(built)
    BY <2>1 DEF ManifestInv, ManifestShape
  <2>3. (built # NotBuilt => BuiltAs(built))'
    BY <2>1, <2>2 DEF BuiltAs, ManifestOf, FromTexts, NamesSlides, NotBuilt
  <2>4. \A d \in LANG \cup POLICY :
          verified'[d] = [ok |-> EditDeck(decks[d], ManifestOf(built, d)).ok,
                          ban |-> IF EditDeck(decks[d], ManifestOf(built, d)).ok
                                  THEN BannedIn(EditDeck(decks[d], ManifestOf(built, d)).deck) ELSE 0]
    BY <1>4 DEF VerifyAll, Verdict, Manifest, ManifestOf, AllDecks
  <2>5. ASSUME TextsOk', NEW d \in LANG \cup POLICY, verified'[d].ok,
               \A i \in DOMAIN handOps[d] : handOps[d][i].op # "clone", \A i \in DOMAIN rewrites : ~rewrites[i].allow_code
        PROVE  verified'[d].ban <= BannedIn(decks[d])
    <3>1. TextsOk
      BY <2>1, <2>5 DEF TextsOk, CheckedTexts, Range
    <3>2. BannedIn(EditDeck(decks[d], ManifestOf(built, d)).deck) <= BannedIn(decks[d])
      BY <2>2, <2>5, <3>1, CleanTexts
    <3>3. verified'[d].ban = BannedIn(EditDeck(decks[d], ManifestOf(built, d)).deck)
      <4> DEFINE ed == EditDeck(decks[d], ManifestOf(built, d))
                 bad == BannedIn(ed.deck)
      <4>1. verified'[d] = [ok |-> ed.ok, ban |-> IF ed.ok THEN bad ELSE 0]
        BY <2>4
      <4> HIDE DEF ed, bad
      <4>2. verified'[d].ok = ed.ok /\ verified'[d].ban = IF ed.ok THEN bad ELSE 0
        BY <4>1
      <4>3. ed.ok
        BY <2>5, <4>2
      <4>4. QED
        BY <4>2, <4>3 DEF ed, bad
    <3>4. QED
      BY <3>2, <3>3
  <2>6. NoBannedWordGained'
    BY <2>1, <2>5 DEF NoBannedWordGained, AllDecks
  <2>7. ManifestTypeOK'
    <3>1. \A d \in LANG \cup POLICY : verified'[d].ok \in BOOLEAN
      <4> TAKE d \in LANG \cup POLICY
      <4> DEFINE ed == EditDeck(decks[d], ManifestOf(built, d))
                 bad == BannedIn(ed.deck)
      <4>1. ed.ok \in BOOLEAN
        BY <2>2, TriedOrNot
      <4>2. verified'[d] = [ok |-> ed.ok, ban |-> IF ed.ok THEN bad ELSE 0]
        BY <2>4
      <4> HIDE DEF ed, bad
      <4>3. QED
        BY <4>1, <4>2
    <3>2. DOMAIN verified' = LANG \cup POLICY
      BY <1>4 DEF VerifyAll, AllDecks
    <3>3. QED
      BY <2>1, <3>1, <3>2 DEF ManifestInv, ManifestTypeOK, AllDecks
  <2>8. QED
    BY <2>2, <2>3, <2>6, <2>7 DEF ManifestInv
<1>5. ASSUME UNCHANGED manifestVars PROVE ManifestInv'
  <2>1. decks' = decks /\ rewrites' = rewrites /\ handOps' = handOps /\ built' = built /\ verified' = verified
    BY <1>5 DEF manifestVars
  <2>2. ManifestShape'
    BY <2>1 DEF ManifestInv, ManifestShape
  <2>3. (built # NotBuilt => BuiltAs(built))'
    BY <2>1 DEF ManifestInv, BuiltAs, ManifestOf, FromTexts, NamesSlides, NotBuilt
  <2>4. NoBannedWordGained'
    BY <2>1 DEF ManifestInv, NoBannedWordGained, TextsOk, CheckedTexts, Range
  <2>5. ManifestTypeOK'
    BY <2>1 DEF ManifestInv, ManifestTypeOK
  <2>6. QED
    BY <2>2, <2>3, <2>4, <2>5 DEF ManifestInv
<1>6. QED
  BY <1>1, <1>2, <1>3, <1>4, <1>5 DEF ManifestNext, AllDecks

(* build.py, verify_all.py: the variables keep their shape: problems are of  *)
(* the kinds build.py knows, and every deck that was tried passed or not.    *)
THEOREM TypeCorrect == ManifestSpec => []ManifestTypeOK
<1>1. ManifestInv => ManifestTypeOK
  BY DEF ManifestInv
<1>2. QED
  BY <1>1, ManifestInitially, ManifestKept, PTL DEF ManifestSpec

(* build.py, deck_edit.py: at every step, for any decks, rewrites and edits,  *)
(* a manifest that was built without a problem applies to its deck, every     *)
(* count as expected, and makes the deck that was scanned.                    *)
THEOREM BuiltApplies == ManifestSpec => []ManifestApplies
<1>1. ManifestInv => ManifestApplies
  BY DEF ManifestInv, BuiltAs, ManifestOf, ManifestApplies, Manifest, AllDecks
<1>2. QED
  BY <1>1, ManifestInitially, ManifestKept, PTL DEF ManifestSpec

(* check_rewrites.py, verify_all.py: no deck that was tried with checked      *)
(* texts has gained a banned word, unless by a rewrite of code or a clone.    *)
THEOREM NoneGained == ManifestSpec => []NoBannedWordGained
<1>1. ManifestInv => NoBannedWordGained
  BY DEF ManifestInv
<1>2. QED
  BY <1>1, ManifestInitially, ManifestKept, PTL DEF ManifestSpec

(* The run's invariant, both results together.                                *)
THEOREM ManifestsCorrect == ManifestSpec => []ManifestsApply
<1>1. ManifestApplies /\ NoBannedWordGained => ManifestsApply
  BY DEF ManifestsApply
<1>2. QED
  BY <1>1, BuiltApplies, NoneGained, PTL
=============================================================================
