----------------------------- MODULE ToolsProofs ------------------------------
(* What the tools promise about the decks that they write, for any decks and *)
(* any edits; and the lemmas on numbers, finite sets and flattened sequences *)
(* that the theorems about the tools rest on.                                *)
EXTENDS MCTools, SequenceTheorems, FiniteSetTheorems, TLAPS

-------------------------------------------------------------------------------
(* Every step is a step of a tool or leaves its variables as they are.       *)
LEMMA Behaviours ==
  /\ Init => DE!Init /\ FO!Init /\ CB!Init /\ FS!Init /\ DA!Init /\ CI!Init
  /\ [Next]_vars => /\ [DE!Next]_deckedit /\ [FO!Next]_deckfont
                    /\ [CB!Next]_codebox /\ [FS!Next]_fitsuggest
                    /\ [DA!Next]_deckaudit /\ [CI!Next]_ciselect
BY DEF Init, Next, vars

-------------------------------------------------------------------------------

(* Numbers and finite sets.                                                  *)
(* Every set of naturals has a least element, and with it whatever holds of  *)
(* 0 and, with each number, of the next one holds of every number.           *)
LEMMA Least ==
  ASSUME NEW T \in SUBSET Nat, T # {}
  PROVE  \E m \in T : \A k \in T : m <= k
<1> DEFINE R == OpToRel(<, Nat)
<1>1. IsWellFoundedOn(R, Nat)
  BY NatLessThanWellFounded
<1>2. \A x, y \in Nat : <<y, x>> \in R <=> y < x
  BY DEF OpToRel
<1> HIDE DEF R
<1>3. PICK x \in T : \A y \in T : ~ (<<y, x>> \in R)
  BY <1>1, WFMin
<1>4. ASSUME NEW k \in T PROVE x <= k
  <2>1. k \in Nat /\ x \in Nat /\ ~ (k < x)
    BY <1>2, <1>3
  <2>2. QED
    BY <2>1
<1>5. QED
  BY <1>4

LEMMA NumberInduction ==
  ASSUME NEW F, 0 \in F, \A n \in Nat : n \in F => n + 1 \in F
  PROVE  \A n \in Nat : n \in F
<1> DEFINE T == {n \in Nat : n \notin F}
<1> SUFFICES ASSUME T # {} PROVE FALSE
  OBVIOUS
<1>1. PICK m \in T : \A k \in T : m <= k
  BY Least
<1>2. m - 1 \in Nat /\ m - 1 \notin T
  BY <1>1
<1>3. QED
  BY <1>1, <1>2

(* A number for each element of a finite set: one is the smallest, one the   *)
(* largest.  Proved of the sets of at most n elements, for every n.          *)
LEMMA Extremes ==
  ASSUME NEW S, IsFiniteSet(S), S # {}, NEW f \in [S -> Int]
  PROVE  /\ \E m \in S : \A x \in S : f[m] <= f[x]
         /\ \E m \in S : \A x \in S : f[m] >= f[x]
<1> DEFINE Has(T) == /\ \E m \in T : \A x \in T : f[m] <= f[x]
                     /\ \E m \in T : \A x \in T : f[m] >= f[x]
           F == {n \in Nat : \A T \in SUBSET S : T # {} /\ Cardinality(T) <= n => Has(T)}
<1>1. \A T \in SUBSET S : IsFiniteSet(T) /\ Cardinality(T) \in Nat /\ (Cardinality(T) = 0 <=> T = {})
                          /\ \A x \in T : Cardinality(T \ {x}) = Cardinality(T) - 1
  BY FS_Subset, FS_CardinalityType, FS_RemoveElement, FS_EmptySet
<1>2. 0 \in F
  <2>1. ASSUME NEW T \in SUBSET S, T # {}, Cardinality(T) <= 0 PROVE FALSE
    <3>1. Cardinality(T) \in Nat /\ Cardinality(T) # 0
      BY <1>1, <2>1
    <3>2. QED
      BY <2>1, <3>1
  <2>2. QED
    BY <2>1
<1>3. ASSUME NEW n \in Nat, n \in F PROVE n + 1 \in F
  <2>1. ASSUME NEW T \in SUBSET S, T # {}, Cardinality(T) <= n + 1 PROVE Has(T)
    <3>1. PICK t \in T : TRUE
      BY <2>1
    <3> DEFINE U == T \ {t}
    <3>2. T = U \cup {t} /\ U \in SUBSET S /\ t \in S /\ f[t] \in Int /\ \A x \in U : f[x] \in Int
      BY <3>1
    <3>3. Cardinality(U) <= n
      <4>1. Cardinality(U) = Cardinality(T) - 1 /\ Cardinality(T) \in Nat
        BY <1>1, <3>1
      <4> HIDE DEF U
      <4>2. QED
        BY <2>1, <4>1
    <3>4. CASE U = {}
      BY <3>2, <3>4
    <3>5. CASE U # {}
      <4>1. Has(U)
        BY <1>3, <3>2, <3>3, <3>5
      <4>2. PICK a \in U, b \in U : (\A x \in U : f[a] <= f[x]) /\ (\A x \in U : f[b] >= f[x])
        BY <4>1
      <4> HIDE DEF U
      <4>3. \E m \in T : \A x \in T : f[m] <= f[x]
        <5>1. CASE f[t] <= f[a]
          <6>1. \A x \in U \cup {t} : f[t] <= f[x]
            BY <3>2, <4>2, <5>1
          <6>2. QED
            BY <3>2, <6>1
        <5>2. CASE ~ (f[t] <= f[a])
          <6>1. \A x \in U \cup {t} : f[a] <= f[x]
            BY <3>2, <4>2, <5>2
          <6>2. QED
            BY <3>2, <6>1
        <5>3. QED
          BY <5>1, <5>2
      <4>4. \E m \in T : \A x \in T : f[m] >= f[x]
        <5>1. CASE f[t] >= f[b]
          <6>1. \A x \in U \cup {t} : f[t] >= f[x]
            BY <3>2, <4>2, <5>1
          <6>2. QED
            BY <3>2, <6>1
        <5>2. CASE ~ (f[t] >= f[b])
          <6>1. \A x \in U \cup {t} : f[b] >= f[x]
            BY <3>2, <4>2, <5>2
          <6>2. QED
            BY <3>2, <6>1
        <5>3. QED
          BY <5>1, <5>2
      <4>5. QED
        BY <4>3, <4>4
    <3>6. QED
      BY <3>4, <3>5
  <2> HIDE DEF Has
  <2>2. QED
    BY <2>1
<1>4. Cardinality(S) \in F
  <2>1. \A n \in Nat : n \in F
    <3> HIDE DEF F
    <3>1. QED
      BY <1>2, <1>3, NumberInduction
  <2>2. QED
    BY <1>1, <2>1
<1>5. QED
  <2>1. Cardinality(S) <= Cardinality(S)
    BY <1>1
  <2> HIDE DEF Has
  <2>2. Has(S)
    BY <1>4, <2>1
  <2>3. QED
    BY <2>2 DEF Has

(* What a function makes of a finite set is finite; the largest and the      *)
(* smallest of a finite set of numbers, and of two.                          *)
LEMMA FiniteImage ==
  ASSUME NEW S, IsFiniteSet(S), NEW f, DOMAIN f = S PROVE IsFiniteSet({f[x] : x \in S})
<1> DEFINE T == {f[x] : x \in S}
           g == [x \in S |-> f[x]]
<1>1. g \in Surjection(S, T)
  BY DEF Surjection
<1>2. QED
  BY <1>1, FS_Surjection

LEMMA MaxOf ==
  ASSUME NEW S \in SUBSET Int, IsFiniteSet(S), S # {}
  PROVE  FS!Max(S) \in S /\ \A x \in S : FS!Max(S) >= x
<1> DEFINE f == [x \in S |-> x]
<1>1. f \in [S -> Int]
  OBVIOUS
<1>2. PICK m \in S : \A x \in S : f[m] >= f[x]
  <2> HIDE DEF f
  <2>1. QED
    BY <1>1, Extremes
<1>3. m \in S /\ \A x \in S : m >= x
  BY <1>2
<1>4. QED
  BY <1>3 DEF FS!Max

LEMMA MinOf ==
  ASSUME NEW S \in SUBSET Int, IsFiniteSet(S), S # {}
  PROVE  FS!Min(S) \in S /\ \A x \in S : FS!Min(S) <= x
<1> DEFINE f == [x \in S |-> x]
<1>1. f \in [S -> Int]
  OBVIOUS
<1>2. PICK m \in S : \A x \in S : f[m] <= f[x]
  <2> HIDE DEF f
  <2>1. QED
    BY <1>1, Extremes
<1>3. m \in S /\ \A x \in S : m <= x
  BY <1>2
<1>4. QED
  BY <1>3 DEF FS!Min

LEMMA OfTwo ==
  ASSUME NEW a \in Int, NEW b \in Int
  PROVE  /\ FS!Max({a, b}) = IF a >= b THEN a ELSE b
         /\ FS!Min({a, b}) = IF a <= b THEN a ELSE b
<1>1. FS!Max({a, b}) \in {a, b} /\ FS!Max({a, b}) >= a /\ FS!Max({a, b}) >= b
  <2>1. {a, b} = {a} \cup {b} /\ {a, b} \in SUBSET Int /\ {a, b} # {}
    OBVIOUS
  <2>2. IsFiniteSet({a, b})
    <3>1. IsFiniteSet({a}) /\ IsFiniteSet({b})
      BY FS_Singleton
    <3>2. IsFiniteSet({a} \cup {b})
      BY <3>1, FS_Union
    <3>3. QED
      BY <2>1, <3>2
  <2>3. QED
    BY <2>1, <2>2, MaxOf
<1>2. FS!Min({a, b}) \in {a, b} /\ FS!Min({a, b}) <= a /\ FS!Min({a, b}) <= b
  <2>1. {a, b} = {a} \cup {b} /\ {a, b} \in SUBSET Int /\ {a, b} # {}
    OBVIOUS
  <2>2. IsFiniteSet({a, b})
    <3>1. IsFiniteSet({a}) /\ IsFiniteSet({b})
      BY FS_Singleton
    <3>2. IsFiniteSet({a} \cup {b})
      BY <3>1, FS_Union
    <3>3. QED
      BY <2>1, <3>2
  <2>3. QED
    BY <2>1, <2>2, MinOf
<1>3. QED
  BY <1>1, <1>2

-------------------------------------------------------------------------------
(* FlattenSeq: what it computes up to each of its arguments.                 *)
LEMMA Accumulated ==
  ASSUME NEW a, NEW n \in Nat
  PROVE  \E f : f = [i \in 1..n |-> IF i = 1 THEN a[i] ELSE f[i - 1] \o a[i]]
<1> DEFINE Acc(f, m) == DOMAIN f = 1..m /\ \A i \in 1..m : f[i] = IF i = 1 THEN a[i] ELSE f[i - 1] \o a[i]
           F == {m \in Nat : \E f : Acc(f, m)}
<1>1. 0 \in F
  <2>1. Acc(<<>>, 0)
    OBVIOUS
  <2>2. QED
    BY <2>1
<1>2. ASSUME NEW m \in Nat, m \in F PROVE m + 1 \in F
  <2>1. PICK f : Acc(f, m)
    BY <1>2
  <2> DEFINE g == [i \in 1..m + 1 |-> IF i <= m THEN f[i] ELSE IF i = 1 THEN a[i] ELSE f[i - 1] \o a[i]]
  <2>2. DOMAIN g = 1..m + 1
    OBVIOUS
  <2>3. ASSUME NEW i \in 1..m + 1 PROVE g[i] = IF i = 1 THEN a[i] ELSE g[i - 1] \o a[i]
    <3>1. CASE i <= m
      <4>1. g[i] = f[i] /\ (i # 1 => g[i - 1] = f[i - 1])
        BY <3>1
      <4>2. f[i] = IF i = 1 THEN a[i] ELSE f[i - 1] \o a[i]
        <5>1. i \in 1..m
          BY <3>1
        <5> HIDE DEF g
        <5>2. QED
          BY <2>1, <5>1
      <4> HIDE DEF g
      <4>3. QED
        BY <4>1, <4>2
    <3>2. CASE i = m + 1
      <4>1. g[i] = (IF i = 1 THEN a[i] ELSE f[i - 1] \o a[i]) /\ (i # 1 => g[i - 1] = f[i - 1])
        BY <3>2
      <4> HIDE DEF g
      <4>2. QED
        BY <4>1
    <3>3. QED
      BY <3>1, <3>2
  <2>4. Acc(g, m + 1)
    BY <2>2, <2>3
  <2> HIDE DEF Acc, g
  <2>5. QED
    BY <2>4
<1>3. n \in F
  <2> HIDE DEF F
  <2>1. QED
    BY <1>1, <1>2, NumberInduction
<1>4. PICK f : Acc(f, n)
  BY <1>3
<1> DEFINE h == [i \in 1..n |-> f[i]]
<1>5. \A i \in 1..n : h[i] = f[i] /\ (i # 1 => h[i - 1] = f[i - 1])
  OBVIOUS
<1>6. h = [i \in 1..n |-> IF i = 1 THEN a[i] ELSE h[i - 1] \o a[i]]
  <2>1. DOMAIN h = 1..n /\ h = [i \in 1..n |-> h[i]]
    OBVIOUS
  <2> HIDE DEF h
  <2>2. QED
    BY <1>4, <1>5, <2>1
<1> HIDE DEF h
<1>7. QED
  BY <1>6

LEMMA Flattened ==
  ASSUME NEW a, NEW n \in Nat, n # 0, Len(a) = n
  PROVE  \E f : /\ CB!FlattenSeq(a) = f[n]
                /\ \A i \in 1..n : f[i] = IF i = 1 THEN a[i] ELSE f[i - 1] \o a[i]
<1> DEFINE G(f) == f = [i \in 1..n |-> IF i = 1 THEN a[i] ELSE f[i - 1] \o a[i]]
           g == CHOOSE f : G(f)
<1>1. \E f : G(f)
  BY Accumulated
<1>2. G(g)
  <2> HIDE DEF G
  <2>1. QED
    BY <1>1
<1>3. CB!FlattenSeq(a) = g[n]
  BY DEF CB!FlattenSeq
<1> HIDE DEF g
<1>4. \A i \in 1..n : g[i] = IF i = 1 THEN a[i] ELSE g[i - 1] \o a[i]
  BY <1>2
<1>5. QED
  BY <1>3, <1>4

LEMMA FlatTyped ==
  ASSUME NEW X, NEW a \in Seq(Seq(X)) PROVE CB!FlattenSeq(a) \in Seq(X)
<1> DEFINE n == Len(a)
<1>1. n \in Nat /\ \A i \in 1..n : a[i] \in Seq(X)
  BY LenProperties
<1>2. CASE n = 0
  <2>1. Len(a) = 0 /\ CB!FlattenSeq(a) = a
    BY <1>2 DEF CB!FlattenSeq
  <2>2. a = <<>>
    BY <2>1, EmptySeq
  <2>3. QED
    BY <2>1, <2>2, EmptySeq
<1>3. CASE n # 0
  <2>1. PICK f : CB!FlattenSeq(a) = f[n] /\ \A i \in 1..n : f[i] = IF i = 1 THEN a[i] ELSE f[i - 1] \o a[i]
    <3> HIDE DEF n
    <3>1. Len(a) = n
      BY DEF n
    <3>2. QED
      BY <1>1, <1>3, <3>1, Flattened
  <2> DEFINE F == {m \in Nat : m + 1 \in 1..n => f[m + 1] \in Seq(X)}
  <2> HIDE DEF n
  <2>2. 0 \in F
    BY <1>1, <2>1
  <2>3. ASSUME NEW m \in Nat, m \in F PROVE m + 1 \in F
    <3>1. SUFFICES ASSUME m + 1 + 1 \in 1..n PROVE f[m + 1 + 1] \in Seq(X)
      OBVIOUS
    <3>2. f[m + 1 + 1] = f[m + 1] \o a[m + 1 + 1]
      <4> DEFINE q == m + 1 + 1
      <4>1. q # 1 /\ q - 1 = m + 1 /\ q \in 1..n
        BY <3>1
      <4> HIDE DEF q
      <4>2. f[q] = f[q - 1] \o a[q]
        BY <2>1, <4>1
      <4>3. QED
        BY <4>1, <4>2 DEF q
    <3>3. f[m + 1] \in Seq(X) /\ a[m + 1 + 1] \in Seq(X)
      BY <1>1, <2>3, <3>1
    <3>4. QED
      BY <3>2, <3>3, ConcatProperties
  <2>4. n - 1 \in F
    <3>1. n - 1 \in Nat
      BY <1>1, <1>3
    <3> HIDE DEF F
    <3>2. QED
      BY <2>2, <2>3, <3>1, NumberInduction
  <2>5. QED
    BY <1>1, <1>3, <2>1, <2>4
<1>4. QED
  BY <1>2, <1>3

(* Sequences of sequences of the same shape flatten alike.                   *)
LEMMA FlatAlike ==
  ASSUME NEW X, NEW a \in Seq(Seq(X)), NEW Y, NEW b \in Seq(Seq(Y)), Len(a) = Len(b), NEW R,
         \A p \in 1..Len(a) : Len(a[p]) = Len(b[p]) /\ \A k \in 1..Len(a[p]) : <<a[p][k], b[p][k]>> \in R
  PROVE  /\ Len(CB!FlattenSeq(a)) = Len(CB!FlattenSeq(b))
         /\ \A i \in 1..Len(CB!FlattenSeq(a)) : <<CB!FlattenSeq(a)[i], CB!FlattenSeq(b)[i]>> \in R
<1> DEFINE n == Len(a)
           Like(s, t) == /\ s \in Seq(X) /\ t \in Seq(Y) /\ Len(s) = Len(t)
                         /\ \A i \in 1..Len(s) : <<s[i], t[i]>> \in R
<1>1. n \in Nat /\ n = Len(b) /\ \A i \in 1..n : Like(a[i], b[i])
  BY LenProperties
<1>2. CASE n = 0
  <2>1. Len(a) = 0 /\ Len(b) = 0
    BY <1>1, <1>2
  <2>2. CB!FlattenSeq(a) = a /\ CB!FlattenSeq(b) = b
    BY <2>1 DEF CB!FlattenSeq
  <2>3. 1..Len(a) = {}
    BY <2>1
  <2>4. QED
    BY <2>1, <2>2, <2>3
<1>3. CASE n # 0
  <2>1. PICK f : CB!FlattenSeq(a) = f[n] /\ \A i \in 1..n : f[i] = IF i = 1 THEN a[i] ELSE f[i - 1] \o a[i]
    <3> HIDE DEF n
    <3>1. Len(a) = n
      BY DEF n
    <3>2. QED
      BY <1>1, <1>3, <3>1, Flattened
  <2>2. PICK g : CB!FlattenSeq(b) = g[n] /\ \A i \in 1..n : g[i] = IF i = 1 THEN b[i] ELSE g[i - 1] \o b[i]
    <3> HIDE DEF n
    <3>1. QED
      BY <1>1, <1>3, Flattened
  <2> DEFINE F == {m \in Nat : m + 1 \in 1..n => Like(f[m + 1], g[m + 1])}
  <2> HIDE DEF n, Like
  <2>3. 0 \in F
    <3>1. 1 \in 1..n
      BY <1>1, <1>3
    <3>2. f[1] = a[1] /\ g[1] = b[1]
      BY <2>1, <2>2, <3>1
    <3>3. Like(f[1], g[1])
      BY <1>1, <3>1, <3>2
    <3>4. 0 + 1 = 1
      OBVIOUS
    <3>5. QED
      BY <3>3, <3>4
  <2>4. ASSUME NEW m \in Nat, m \in F PROVE m + 1 \in F
    <3>1. SUFFICES ASSUME m + 1 + 1 \in 1..n PROVE Like(f[m + 1 + 1], g[m + 1 + 1])
      OBVIOUS
    <3>2. f[m + 1 + 1] = f[m + 1] \o a[m + 1 + 1] /\ g[m + 1 + 1] = g[m + 1] \o b[m + 1 + 1]
      <4> DEFINE q == m + 1 + 1
      <4>1. q # 1 /\ q - 1 = m + 1 /\ q \in 1..n
        BY <3>1
      <4> HIDE DEF q
      <4>2. f[q] = f[q - 1] \o a[q]
        BY <2>1, <4>1
      <4>3. g[q] = g[q - 1] \o b[q]
        BY <2>2, <4>1
      <4>4. QED
        BY <4>1, <4>2, <4>3 DEF q
    <3>3. Like(f[m + 1], g[m + 1]) /\ Like(a[m + 1 + 1], b[m + 1 + 1])
      BY <1>1, <2>4, <3>1
    <3>4. ASSUME NEW s, NEW t, NEW u, NEW v, Like(s, t), Like(u, v) PROVE Like(s \o u, t \o v)
      <4>1. /\ s \o u \in Seq(X) /\ Len(s \o u) = Len(s) + Len(u)
            /\ \A i \in 1..Len(s) + Len(u) : (s \o u)[i] = IF i <= Len(s) THEN s[i] ELSE u[i - Len(s)]
        BY <3>4, ConcatProperties DEF Like
      <4>2. /\ t \o v \in Seq(Y) /\ Len(t \o v) = Len(t) + Len(v)
            /\ \A i \in 1..Len(t) + Len(v) : (t \o v)[i] = IF i <= Len(t) THEN t[i] ELSE v[i - Len(t)]
        BY <3>4, ConcatProperties DEF Like
      <4>3. /\ Len(s) = Len(t) /\ Len(u) = Len(v) /\ Len(s) \in Nat /\ Len(u) \in Nat
            /\ \A i \in 1..Len(s) : <<s[i], t[i]>> \in R
            /\ \A i \in 1..Len(u) : <<u[i], v[i]>> \in R
        BY <3>4 DEF Like
      <4>4. ASSUME NEW i \in 1..Len(s) + Len(u) PROVE <<(s \o u)[i], (t \o v)[i]>> \in R
        <5>1. CASE i <= Len(s)
          <6>1. i \in 1..Len(s) /\ (s \o u)[i] = s[i] /\ (t \o v)[i] = t[i]
            BY <4>1, <4>2, <4>3, <5>1
          <6>2. QED
            BY <4>3, <6>1
        <5>2. CASE ~ (i <= Len(s))
          <6>1. i - Len(s) \in 1..Len(u) /\ (s \o u)[i] = u[i - Len(s)] /\ (t \o v)[i] = v[i - Len(s)]
            BY <4>1, <4>2, <4>3, <5>2
          <6>2. QED
            BY <4>3, <6>1
        <5>3. QED
          BY <5>1, <5>2
      <4>5. QED
        BY <4>1, <4>2, <4>3, <4>4 DEF Like
    <3>5. QED
      BY <3>2, <3>3, <3>4
  <2>5. n - 1 \in F
    <3>1. n - 1 \in Nat
      BY <1>1, <1>3
    <3> HIDE DEF F
    <3>2. QED
      BY <2>3, <2>4, <3>1, NumberInduction
  <2>6. Like(f[n], g[n])
    BY <1>1, <1>3, <2>5
  <2>7. QED
    BY <2>1, <2>2, <2>6 DEF Like
<1>4. QED
  BY <1>2, <1>3

(* One sequence flattens to itself, sequences of one to as many.             *)
LEMMA FlatSingle ==
  ASSUME NEW X, NEW s \in Seq(X) PROVE CB!FlattenSeq(<<s>>) = s
<1> DEFINE a == <<s>>
<1>1. Len(a) = 1 /\ a[1] = s
  OBVIOUS
<1> HIDE DEF a
<1>2. PICK f : CB!FlattenSeq(a) = f[1] /\ \A i \in 1..1 : f[i] = IF i = 1 THEN a[i] ELSE f[i - 1] \o a[i]
  <2> DEFINE n == 1
  <2>1. n \in Nat /\ n # 0 /\ Len(a) = n
    BY <1>1
  <2> HIDE DEF n
  <2>2. \E f : CB!FlattenSeq(a) = f[n] /\ \A i \in 1..n : f[i] = IF i = 1 THEN a[i] ELSE f[i - 1] \o a[i]
    BY <2>1, Flattened
  <2>3. QED
    BY <2>2 DEF n
<1>3. CB!FlattenSeq(a) = s
  BY <1>1, <1>2
<1>4. QED
  BY <1>3 DEF a

LEMMA FlatOnes ==
  ASSUME NEW X, NEW a \in Seq(Seq(X)), \A p \in 1..Len(a) : Len(a[p]) = 1
  PROVE  Len(CB!FlattenSeq(a)) = Len(a)
<1> DEFINE n == Len(a)
<1>1. n \in Nat /\ \A i \in 1..n : a[i] \in Seq(X) /\ Len(a[i]) = 1
  BY LenProperties
<1>2. CASE n = 0
  BY <1>2 DEF CB!FlattenSeq
<1>3. CASE n # 0
  <2>1. PICK f : CB!FlattenSeq(a) = f[n] /\ \A i \in 1..n : f[i] = IF i = 1 THEN a[i] ELSE f[i - 1] \o a[i]
    <3> HIDE DEF n
    <3>1. Len(a) = n
      BY DEF n
    <3>2. QED
      BY <1>1, <1>3, <3>1, Flattened
  <2> DEFINE F == {m \in Nat : m + 1 \in 1..n => f[m + 1] \in Seq(X) /\ Len(f[m + 1]) = m + 1}
  <2> HIDE DEF n
  <2>2. 0 \in F
    BY <1>1, <2>1
  <2>3. ASSUME NEW m \in Nat, m \in F PROVE m + 1 \in F
    <3>1. SUFFICES ASSUME m + 1 + 1 \in 1..n PROVE f[m + 1 + 1] \in Seq(X) /\ Len(f[m + 1 + 1]) = m + 1 + 1
      OBVIOUS
    <3>2. f[m + 1 + 1] = f[m + 1] \o a[m + 1 + 1]
      <4> DEFINE q == m + 1 + 1
      <4>1. q # 1 /\ q - 1 = m + 1 /\ q \in 1..n
        BY <3>1
      <4> HIDE DEF q
      <4>2. f[q] = f[q - 1] \o a[q]
        BY <2>1, <4>1
      <4>3. QED
        BY <4>1, <4>2 DEF q
    <3>3. f[m + 1] \in Seq(X) /\ Len(f[m + 1]) = m + 1 /\ a[m + 1 + 1] \in Seq(X) /\ Len(a[m + 1 + 1]) = 1
      BY <1>1, <2>3, <3>1
    <3> DEFINE s == f[m + 1]
               t == a[m + 1 + 1]
    <3>4. s \in Seq(X) /\ t \in Seq(X) /\ Len(s) = m + 1 /\ Len(t) = 1 /\ f[m + 1 + 1] = s \o t
      BY <3>2, <3>3
    <3> HIDE DEF s, t
    <3>5. s \o t \in Seq(X) /\ Len(s \o t) = Len(s) + Len(t)
      BY <3>4, ConcatProperties
    <3>6. QED
      BY <3>4, <3>5
  <2>4. n - 1 \in F
    <3>1. n - 1 \in Nat
      BY <1>1, <1>3
    <3> HIDE DEF F
    <3>2. QED
      BY <2>2, <2>3, <3>1, NumberInduction
  <2>5. QED
    BY <1>1, <1>3, <2>1, <2>4 DEF n
<1>4. QED
  BY <1>2, <1>3

(* Where the parts of a flattened sequence begin, and that they are all.     *)
Begins(a, o) ==
  /\ o \in [1..Len(a) + 1 -> Nat] /\ o[1] = 0 /\ o[Len(a) + 1] = Len(CB!FlattenSeq(a))
  /\ \A i \in 1..Len(a) : o[i + 1] = o[i] + Len(a[i])
  /\ \A i \in 1..Len(a) : \A k \in 1..Len(a[i]) :
       o[i] + k \in 1..Len(CB!FlattenSeq(a)) /\ CB!FlattenSeq(a)[o[i] + k] = a[i][k]

LEMMA FlatBegins == ASSUME NEW X, NEW a \in Seq(Seq(X)) PROVE \E o : Begins(a, o)
<1> DEFINE n == Len(a)
<1>1. n \in Nat /\ \A i \in 1..n : a[i] \in Seq(X) /\ Len(a[i]) \in Nat
  BY LenProperties
<1>2. CASE n = 0
  <2>1. Len(a) = 0 /\ CB!FlattenSeq(a) = a
    BY <1>2 DEF CB!FlattenSeq
  <2>2. Begins(a, [i \in 1..1 |-> 0])
    BY <2>1 DEF Begins
  <2>3. QED
    BY <2>2
<1>3. CASE n # 0
  <2>1. PICK f : CB!FlattenSeq(a) = f[n] /\ \A i \in 1..n : f[i] = IF i = 1 THEN a[i] ELSE f[i - 1] \o a[i]
    <3> HIDE DEF n
    <3>1. Len(a) = n
      BY DEF n
    <3>2. QED
      BY <1>1, <1>3, <3>1, Flattened
  <2> DEFINE o == [i \in 1..n + 1 |-> IF i = 1 THEN 0 ELSE Len(f[i - 1])]
             Fixed(m) == /\ f[m] \in Seq(X) /\ Len(f[m]) \in Nat
                           /\ o[m + 1] = o[m] + Len(a[m]) /\ o[m] \in Nat
                           /\ \A i \in 1..m : \A k \in 1..Len(a[i]) : o[i] + k \in 1..Len(f[m]) /\ f[m][o[i] + k] = a[i][k]
             F == {m \in Nat : m + 1 \in 1..n => Fixed(m + 1)}
  <2>2. o[1] = 0 /\ \A i \in 1..n : o[i + 1] = Len(f[i])
    <3>1. ASSUME NEW i \in 1..n PROVE o[i + 1] = Len(f[i])
      <4>1. i + 1 \in 1..n + 1 /\ i + 1 # 1 /\ (i + 1) - 1 = i
        BY <1>1
      <4>2. QED
        BY <4>1
    <3>2. 1 \in 1..n + 1
      BY <1>1
    <3>3. QED
      BY <3>1, <3>2
  <2>3. DOMAIN o = 1..n + 1 /\ o = [i \in 1..n + 1 |-> o[i]]
    OBVIOUS
  <2> HIDE DEF n, o
  <2>4. 0 \in F
    <3>1. 1 \in 1..n /\ 0 + 1 = 1
      BY <1>1, <1>3
    <3>2. f[1] = a[1] /\ o[1 + 1] = Len(a[1])
      BY <2>1, <2>2, <3>1
    <3>3. Fixed(1)
      BY <1>1, <2>2, <3>1, <3>2
    <3> HIDE DEF Fixed
    <3>4. QED
      BY <3>1, <3>3
  <2>5. ASSUME NEW m \in Nat, m \in F PROVE m + 1 \in F
    <3> DEFINE q == m + 1 + 1
    <3>1. SUFFICES ASSUME q \in 1..n PROVE Fixed(q)
      OBVIOUS
    <3>2. q # 1 /\ q - 1 = m + 1 /\ m + 1 \in 1..n /\ q = (m + 1) + 1 /\ q \in Nat
      BY <1>1, <3>1
    <3>3. Fixed(m + 1)
      BY <2>5, <3>2
    <3> DEFINE s == f[m + 1]
               t == a[q]
    <3>4. f[q] = s \o t
      <4> HIDE DEF q
      <4>1. f[q] = f[q - 1] \o a[q]
        BY <2>1, <3>1, <3>2
      <4>2. QED
        BY <3>2, <4>1
    <3>5. s \in Seq(X) /\ t \in Seq(X) /\ Len(s) \in Nat /\ Len(t) \in Nat
      BY <1>1, <3>1, <3>3
    <3>6. o[q] = Len(s) /\ o[q + 1] = Len(f[q])
      <4> HIDE DEF q
      <4>1. o[q + 1] = Len(f[q])
        BY <2>2, <3>1
      <4>2. o[(m + 1) + 1] = Len(f[m + 1])
        BY <2>2, <3>2
      <4>3. QED
        BY <3>2, <4>1, <4>2
    <3>7. \A i \in 1..m + 1 : \A k \in 1..Len(a[i]) : o[i] + k \in 1..Len(s) /\ s[o[i] + k] = a[i][k]
      BY <3>3
    <3> HIDE DEF q, s
    <3>8. /\ s \o t \in Seq(X) /\ Len(s \o t) = Len(s) + Len(t)
          /\ \A i \in 1..Len(s) + Len(t) : (s \o t)[i] = IF i <= Len(s) THEN s[i] ELSE t[i - Len(s)]
      BY <3>5, ConcatProperties
    <3>9. f[q] \in Seq(X) /\ Len(f[q]) = Len(s) + Len(t)
      BY <3>4, <3>8
    <3>10. ASSUME NEW i \in 1..q, NEW k \in 1..Len(a[i])
           PROVE  o[i] + k \in 1..Len(f[q]) /\ f[q][o[i] + k] = a[i][k]
      <4>1. CASE i \in 1..m + 1
        <5>1. o[i] + k \in 1..Len(s) /\ s[o[i] + k] = a[i][k]
          BY <3>7, <4>1
        <5> DEFINE x == o[i] + k
        <5>2. x \in 1..Len(s) /\ s[x] = a[i][k]
          BY <5>1
        <5> HIDE DEF x
        <5>3. x \in 1..Len(s) + Len(t) /\ x <= Len(s)
          BY <3>5, <5>2
        <5>4. (s \o t)[x] = s[x]
          BY <3>8, <5>3
        <5>5. QED
          BY <3>4, <3>9, <5>2, <5>3, <5>4 DEF x
      <4>2. CASE i = q
        <5> DEFINE x == o[i] + k
        <5>1. x = Len(s) + k /\ k \in 1..Len(t)
          BY <3>6, <4>2
        <5> HIDE DEF x
        <5>2. x \in 1..Len(s) + Len(t) /\ ~(x <= Len(s)) /\ x - Len(s) = k
          BY <3>5, <5>1
        <5>3. (s \o t)[x] = t[k]
          BY <3>8, <5>2
        <5>4. QED
          BY <3>4, <3>9, <4>2, <5>2, <5>3 DEF x
      <4>3. i \in 1..m + 1 \/ i = q
        BY <3>2
      <4>4. QED
        BY <4>1, <4>2, <4>3
    <3>11. QED
      BY <3>5, <3>6, <3>9, <3>10
  <2>6. \A m \in Nat : m \in F
    <3> HIDE DEF F
    <3>1. QED
      BY <2>4, <2>5, NumberInduction
  <2>7. \A m \in 1..n : Fixed(m)
    <3>1. SUFFICES ASSUME NEW m \in 1..n PROVE Fixed(m)
      OBVIOUS
    <3>2. m - 1 \in Nat /\ (m - 1) + 1 = m
      BY <1>1
    <3>3. m - 1 \in F
      BY <2>6, <3>2
    <3> HIDE DEF Fixed
    <3>4. QED
      BY <3>2, <3>3
  <2>8. o \in [1..n + 1 -> Nat]
    <3>1. ASSUME NEW i \in 1..n + 1 PROVE o[i] \in Nat
      <4>1. CASE i = 1
        BY <2>2, <4>1
      <4>2. CASE i # 1
        <5>1. i - 1 \in 1..n /\ (i - 1) + 1 = i
          BY <1>1, <4>2
        <5>2. o[(i - 1) + 1] = Len(f[i - 1]) /\ Len(f[i - 1]) \in Nat
          BY <2>2, <2>7, <5>1
        <5>3. QED
          BY <5>1, <5>2
      <4>3. QED
        BY <4>1, <4>2
    <3>2. QED
      BY <2>3, <3>1
  <2>9. n \in 1..n
    BY <1>1, <1>3
  <2>10. o[n + 1] = Len(CB!FlattenSeq(a))
    BY <2>1, <2>2, <2>9
  <2>11. \A i \in 1..n : o[i + 1] = o[i] + Len(a[i])
    BY <2>7
  <2>12. \A i \in 1..n : \A k \in 1..Len(a[i]) : o[i] + k \in 1..Len(f[n]) /\ f[n][o[i] + k] = a[i][k]
    <3>1. Fixed(n)
      BY <2>7, <2>9
    <3>2. QED
      BY <3>1
  <2>13. Begins(a, o)
    BY <2>1, <2>2, <2>8, <2>10, <2>11, <2>12 DEF Begins, n
  <2>14. QED
    BY <2>13
<1>4. QED
  BY <1>2, <1>3

LEMMA FlatPlaces ==
  ASSUME NEW X, NEW a \in Seq(Seq(X)), NEW o, Begins(a, o), NEW x \in 1..Len(CB!FlattenSeq(a))
  PROVE  \E i \in 1..Len(a) : x - o[i] \in 1..Len(a[i]) /\ CB!FlattenSeq(a)[x] = a[i][x - o[i]]
<1> DEFINE n == Len(a)
           T == {i \in 1..n + 1 : x <= o[i]}
<1>1. n \in Nat /\ \A i \in 1..n : Len(a[i]) \in Nat
  BY LenProperties
<1>2. /\ o \in [1..n + 1 -> Nat] /\ o[1] = 0 /\ o[n + 1] = Len(CB!FlattenSeq(a))
      /\ \A i \in 1..n : o[i + 1] = o[i] + Len(a[i])
      /\ \A i \in 1..n : \A k \in 1..Len(a[i]) : CB!FlattenSeq(a)[o[i] + k] = a[i][k]
  BY DEF Begins
<1> HIDE DEF n
<1>3. n + 1 \in T
  BY <1>1, <1>2
<1>4. PICK j \in T : \A i \in T : j <= i
  <2>1. T \in SUBSET Nat /\ T # {}
    BY <1>1, <1>3
  <2> HIDE DEF T
  <2>2. QED
    BY <2>1, Least
<1> DEFINE i == j - 1
<1>5. j # 1 /\ j \in 1..n + 1 /\ x <= o[j] /\ x \in Nat /\ x >= 1
  BY <1>1, <1>2
<1>6. i \in 1..n /\ i + 1 = j /\ i \notin T
  BY <1>1, <1>4, <1>5
<1>7. o[i] \in Nat /\ ~(x <= o[i]) /\ o[j] = o[i] + Len(a[i]) /\ Len(a[i]) \in Nat
  BY <1>1, <1>2, <1>6
<1> DEFINE k == x - o[i]
<1>8. k \in 1..Len(a[i]) /\ o[i] + k = x
  BY <1>5, <1>7
<1>9. CB!FlattenSeq(a)[o[i] + k] = a[i][k]
  <2> HIDE DEF i, k
  <2>1. QED
    BY <1>2, <1>6, <1>8
<1>10. QED
  BY <1>6, <1>8, <1>9 DEF n

-------------------------------------------------------------------------------
(* deck_edit.py: one deck file and its backup.                               *)
(* What the copy in memory holds and what is still to be applied are, in     *)
(* this order, what the deck file holds and the edits of the run; and the    *)
(* deck that the run loaded is the deck file until the file is replaced, and *)
(* the backup from when it was copied.                                       *)
DeckEditShape ==
  /\ editStep \in {"idle", "ops", "saved", "copying", "backed", "moving"}
  /\ ops \in Seq(DeckOps) /\ editTodo \in Seq(DeckOps) /\ applied \in Seq(DeckOps) /\ stored \in Seq(DeckOps)

DeckEditFiles ==
  /\ editStep \in {"ops", "saved", "copying", "backed"} => before = editDeck
  /\ editStep \in {"backed", "moving"} => before = editBackup

DeckEditProgress ==
  /\ editStep # "idle" => stored \o ops = applied \o editTodo
  /\ editStep \notin {"idle", "ops"} => editTodo = <<>>

DeckEditInv == DeckEditShape /\ DeckEditFiles /\ DeckEditProgress

LEMMA DeckEditInitially == DE!Init => DeckEditInv
BY DEF DE!Init, DeckEditInv, DeckEditShape, DeckEditFiles, DeckEditProgress

LEMMA BoundedIsSeq == DE!BoundedSeq(DeckOps, MaxOps) \subseteq Seq(DeckOps)
<1>1. DE!BoundedSeq(DeckOps, MaxOps) = UNION {[1..n -> DeckOps] : n \in 0..MaxOps}
  BY DEF DE!BoundedSeq, DE!SeqOf
<1>2. 0..MaxOps \subseteq Nat
  BY DeckEditAssumption
<1>3. QED
  BY <1>1, <1>2, SeqDef

(* The process ends, and forgets the run.                                    *)
LEMMA DeckEditEnds ==
  ASSUME DE!Ends, stored' \in Seq(DeckOps) PROVE DeckEditInv'
<1>1. editStep' = "idle" /\ ops' = <<>> /\ editTodo' = <<>> /\ applied' = stored'
  BY DEF DE!Ends
<1>2. DeckEditShape'
  BY <1>1, EmptySeq DEF DeckEditShape
<1>3. QED
  BY <1>1, <1>2 DEF DeckEditInv, DeckEditFiles, DeckEditProgress

LEMMA DeckEditRunStep ==
  ASSUME DeckEditInv, DE!Run PROVE DeckEditInv'
<1> USE DEF DeckEditInv, DeckEditShape, DeckEditFiles, DeckEditProgress, DE!deckfile, DE!copy
<1>1. CASE DE!Load
  <2>1. ops' \in Seq(DeckOps) /\ editTodo' = ops'
    BY <1>1, BoundedIsSeq DEF DE!Load
  <2>2. QED
    BY <1>1, <2>1 DEF DE!Load
<1>2. CASE DE!Apply
  <2>1. Head(editTodo) \in DeckOps /\ Tail(editTodo) \in Seq(DeckOps)
    BY <1>2 DEF DE!Apply
  <2>2. applied' \in Seq(DeckOps) /\ editTodo' \in Seq(DeckOps)
    BY <1>2, <2>1 DEF DE!Apply
  <2>3. applied' \o editTodo' = applied \o editTodo
    BY <1>2, <2>1 DEF DE!Apply
  <2>4. /\ stored' = stored /\ ops' = ops /\ editStep = "ops" /\ editStep' = editStep
        /\ before' = before /\ editDeck' = editDeck
    BY <1>2 DEF DE!Apply
  <2>5. QED
    BY <2>2, <2>3, <2>4
<1>3. CASE DE!OpFails \/ DE!DryRun
  BY <1>3, DeckEditEnds DEF DE!OpFails, DE!DryRun
<1>4. CASE DE!Save
  BY <1>4 DEF DE!Save
<1>5. QED
  BY <1>1, <1>2, <1>3, <1>4 DEF DE!Run

LEMMA DeckEditWriteStep ==
  ASSUME DeckEditInv, DE!WriteDeck PROVE DeckEditInv'
<1> USE DEF DeckEditInv, DeckEditShape, DeckEditFiles, DeckEditProgress, DE!deckfile, DE!copy
<1>1. CASE DE!Backup
  BY <1>1 DEF DE!Backup
<1>2. CASE DE!Copied
  BY <1>2 DEF DE!Copied
<1>3. CASE DE!Move
  BY <1>3 DEF DE!Move
<1>4. CASE DE!ReplaceFile \/ DE!Moved
  BY <1>4, DeckEditEnds DEF DE!ReplaceFile, DE!Moved, DE!Done
<1>5. QED
  BY <1>1, <1>2, <1>3, <1>4 DEF DE!WriteDeck

LEMMA DeckEditSteps == DeckEditInv /\ [DE!Next]_deckedit => DeckEditInv'
<1>1. CASE UNCHANGED deckedit
  BY <1>1 DEF deckedit, DeckEditInv, DeckEditShape, DeckEditFiles, DeckEditProgress
<1>2. ASSUME DeckEditInv, DE!Crash PROVE DeckEditInv'
  BY <1>2, DeckEditEnds DEF DE!Crash, DeckEditInv, DeckEditShape
<1>3. QED
  BY <1>1, <1>2, DeckEditRunStep, DeckEditWriteStep DEF DE!Next

THEOREM DeckEditInvariance == Spec => []DeckEditInv
BY Behaviours, DeckEditInitially, DeckEditSteps, PTL DEF Spec

(* The deck file is replaced by one step alone, when every operation of the  *)
(* edits has been applied.                                                   *)
LEMMA DeckEditReplaces ==
  ASSUME DeckEditInv, DE!Next, stored' # stored
  PROVE  stored' = stored \o ops /\ editTodo = <<>>
<1>1. DE!ReplaceFile \/ DE!Moved
  BY DEF DE!Next, DE!Run, DE!WriteDeck, DE!Load, DE!Apply, DE!OpFails, DE!Save, DE!DryRun, DE!Backup,
         DE!Copied, DE!Move, DE!Crash, DE!deckfile, DE!copy
<1>2. editStep \in {"backed", "moving"} /\ stored' = applied
  BY <1>1 DEF DE!ReplaceFile, DE!Moved, DE!Done
<1>3. editTodo = <<>> /\ stored \o ops = applied \o editTodo /\ applied \in Seq(DeckOps)
  BY <1>2 DEF DeckEditInv, DeckEditProgress, DeckEditShape
<1>4. QED
  BY <1>2, <1>3, ConcatEmptySeq

-------------------------------------------------------------------------------
(* deck_edit.py: the operations, from sound deck to sound deck.              *)
(* IsFiniteSet and Cardinality are the same under any name.                  *)
LEMMA DeckFinite ==
  ASSUME NEW S PROVE (DE!IsFiniteSet(S) <=> IsFiniteSet(S)) /\ DE!Cardinality(S) = Cardinality(S)
<1>1. DE!IsFiniteSet(S) <=> IsFiniteSet(S)
  BY DEF DE!IsFiniteSet, IsFiniteSet
<1>2. DE!Cardinality(S) = Cardinality(S)
  BY Zenon DEF DE!Cardinality, Cardinality
<1>3. QED
  BY <1>1, <1>2

LEMMA DeckMax ==
  ASSUME NEW S \in SUBSET Int, IsFiniteSet(S), S # {}
  PROVE  DE!Max(S) \in S /\ \A x \in S : DE!Max(S) >= x
<1> DEFINE f == [x \in S |-> x]
<1>1. f \in [S -> Int]
  OBVIOUS
<1>2. PICK m \in S : \A x \in S : f[m] >= f[x]
  <2> HIDE DEF f
  <2>1. QED
    BY <1>1, Extremes
<1>3. m \in S /\ \A x \in S : m >= x
  BY <1>2
<1>4. QED
  BY <1>3 DEF DE!Max

(* One more than the largest of some numbers is none of them.                *)
LEMMA NextNumber ==
  ASSUME NEW S \in SUBSET Nat, IsFiniteSet(S)
  PROVE  1 + DE!Max({0} \cup S) \in Nat \ {0} /\ 1 + DE!Max({0} \cup S) \notin S
<1>1. IsFiniteSet({0} \cup S)
  BY FS_Singleton, FS_Union
<1>2. {0} \cup S \in SUBSET Int /\ {0} \cup S # {} /\ {0} \cup S \in SUBSET Nat
  OBVIOUS
<1> DEFINE m == DE!Max({0} \cup S)
<1>3. m \in {0} \cup S /\ \A x \in {0} \cup S : m >= x
  BY <1>1, <1>2, DeckMax
<1> HIDE DEF m
<1>4. m \in Nat
  BY <1>2, <1>3
<1>5. 1 + m \notin S
  <2>1. 1 + m \in S => m >= 1 + m
    BY <1>3
  <2>2. QED
    BY <1>4, <2>1
<1>6. QED
  BY <1>4, <1>5 DEF m

(* The slides of a deck are numbered from 1.                                 *)
LEMMA DeckSlides ==
  ASSUME NEW d, DE!SoundDeck(d)
  PROVE  /\ d.slides \in Seq(DE!Range(d.slides))
         /\ Len(d.slides) \in Nat /\ DOMAIN d.slides = 1..Len(d.slides)
         /\ d.slides = [k \in DOMAIN d.slides |-> d.slides[k]]
         /\ DOMAIN d = {"slides", "notes"} /\ DOMAIN d.notes \subseteq Nat \ {0} /\ IsFiniteSet(DOMAIN d.notes)
         /\ \A k \in DOMAIN d.slides :
              /\ DE!SoundSlide(d.slides[k]) /\ d.slides[k].id \in Nat
              /\ DOMAIN d.slides[k] = {"id", "text", "notes", "pics", "rels"}
              /\ d.slides[k].notes \in DOMAIN d.notes \cup {0}
         /\ \A j, k \in DOMAIN d.slides : d.slides[j].id = d.slides[k].id => j = k
         /\ \A j, k \in DOMAIN d.slides : d.slides[j].notes = d.slides[k].notes => j = k \/ d.slides[j].notes = 0
<1>1. d.slides \in Seq(DE!Range(d.slides))
  BY DEF DE!SoundDeck
<1>2. Len(d.slides) \in Nat /\ DOMAIN d.slides = 1..Len(d.slides) /\ d.slides = [k \in 1..Len(d.slides) |-> d.slides[k]]
  BY <1>1, LenProperties
<1>3. /\ DOMAIN d = {"slides", "notes"} /\ DOMAIN d.notes \subseteq Nat \ {0} /\ IsFiniteSet(DOMAIN d.notes)
      /\ \A k \in DOMAIN d.slides : DE!SoundSlide(d.slides[k]) /\ d.slides[k].notes \in DOMAIN d.notes \cup {0}
      /\ \A j, k \in DOMAIN d.slides : j # k =>
           /\ d.slides[j].id # d.slides[k].id
           /\ d.slides[j].notes = d.slides[k].notes => d.slides[j].notes = 0
  <2>1. DOMAIN d = {"slides", "notes"} /\ DOMAIN d.notes \subseteq Nat \ {0} /\ IsFiniteSet(DOMAIN d.notes)
    BY Zenon, DeckFinite DEF DE!SoundDeck
  <2>2. \A k \in DOMAIN d.slides : DE!SoundSlide(d.slides[k]) /\ d.slides[k].notes \in DOMAIN d.notes \cup {0}
    BY SMT DEF DE!SoundDeck
  <2>3. \A j, k \in DOMAIN d.slides : j # k =>
          /\ d.slides[j].id # d.slides[k].id
          /\ d.slides[j].notes = d.slides[k].notes => d.slides[j].notes = 0
    BY SMT DEF DE!SoundDeck
  <2>4. QED
    BY <2>1, <2>2, <2>3
<1>4. \A k \in DOMAIN d.slides : d.slides[k].id \in Nat /\ DOMAIN d.slides[k] = {"id", "text", "notes", "pics", "rels"}
  BY Zenon, <1>3 DEF DE!SoundSlide
<1>5. QED
  BY <1>1, <1>2, <1>3, <1>4

(* An operation that changes one slide at most, and the notes of one at most.*)
LEMMA DeckChanged ==
  ASSUME NEW d, DE!SoundDeck(d), NEW e,
         DOMAIN e = {"slides", "notes"}, e.slides = [k \in DOMAIN d.slides |-> e.slides[k]],
         DOMAIN e.notes \subseteq Nat \ {0}, IsFiniteSet(DOMAIN e.notes), DOMAIN d.notes \subseteq DOMAIN e.notes,
         \A k \in DOMAIN d.slides : DE!SoundSlide(e.slides[k]) /\ e.slides[k].id = d.slides[k].id,
         NEW k0,
         \A k \in DOMAIN d.slides \ {k0} : e.slides[k].notes = d.slides[k].notes,
         k0 \in DOMAIN d.slides => e.slides[k0].notes = d.slides[k0].notes \/ e.slides[k0].notes \in DOMAIN e.notes \ DOMAIN d.notes
  PROVE  DE!SoundDeck(e)
<1> DEFINE D == DOMAIN d.slides
<1>1. /\ DOMAIN d.slides = 1..Len(d.slides) /\ Len(d.slides) \in Nat /\ DOMAIN d.notes \subseteq Nat \ {0}
      /\ \A k \in D : d.slides[k].notes \in DOMAIN d.notes \cup {0}
      /\ \A j, k \in D : d.slides[j].id = d.slides[k].id => j = k
      /\ \A j, k \in D : d.slides[j].notes = d.slides[k].notes => j = k \/ d.slides[j].notes = 0
  BY DeckSlides
<1>2. DOMAIN e.slides = D
  OBVIOUS
<1>3. e.slides \in Seq(DE!Range(e.slides))
  <2>1. e.slides \in [1..Len(d.slides) -> DE!Range(e.slides)]
    BY <1>1, <1>2 DEF DE!Range
  <2>2. QED
    BY <1>1, <2>1, SeqDef
<1>4. \A k \in D : DE!SoundSlide(e.slides[k]) /\ e.slides[k].notes \in DOMAIN e.notes \cup {0}
  BY <1>1
<1>5. ASSUME NEW j \in D, NEW k \in D, j # k
      PROVE  e.slides[j].id # e.slides[k].id /\ (e.slides[j].notes = e.slides[k].notes => e.slides[j].notes = 0)
  <2>1. e.slides[j].id # e.slides[k].id
    BY <1>1, <1>5
  <2>2. ASSUME e.slides[j].notes = e.slides[k].notes PROVE e.slides[j].notes = 0
    <3>1. 0 \notin DOMAIN e.notes
      OBVIOUS
    <3>2. QED
      BY <1>1, <1>5, <2>2, <3>1
  <2>3. QED
    BY <2>1, <2>2
<1>6. /\ \A k \in DOMAIN e.slides : DE!SoundSlide(e.slides[k]) /\ e.slides[k].notes \in DOMAIN e.notes \cup {0}
      /\ \A j, k \in DOMAIN e.slides : j # k =>
           /\ e.slides[j].id # e.slides[k].id
           /\ e.slides[j].notes = e.slides[k].notes => e.slides[j].notes = 0
  BY <1>2, <1>4, <1>5
<1>7. DE!IsFiniteSet(DOMAIN e.notes)
  BY DeckFinite
<1>8. QED
  BY <1>3, <1>6, <1>7 DEF DE!SoundDeck

(* A slide that the operation is not about looks the same after it.          *)
DeckKept(d, e, op) ==
  \A k \in DOMAIN d.slides, j \in DOMAIN e.slides :
    e.slides[j].id = d.slides[k].id /\ d.slides[k].id \notin DE!Addressed(d, op) => DE!Seen(e, j) = DE!Seen(d, k)

(* op_replace, and the operations that set the text of a shape.              *)
LEMMA DeckReplaced ==
  ASSUME NEW d, DE!SoundDeck(d), NEW op, op.op = "replace"
  PROVE  DE!SoundDeck(DE!Replace(d, op)) /\ DeckKept(d, DE!Replace(d, op), op)
<1> DEFINE e == DE!Replace(d, op)
           D == DOMAIN d.slides
           chosen == DE!Selected(d, op)
<1>1. /\ DOMAIN e = {"slides", "notes"}
      /\ e.slides = [k \in D |-> IF k \in chosen /\ op.scope # "notes"
                                   THEN [d.slides[k] EXCEPT !.text = DE!Replaced(@, op)] ELSE d.slides[k]]
      /\ e.notes = [n \in DOMAIN d.notes |->
                      IF op.scope # "slide" /\ \E k \in chosen : d.slides[k].notes = n
                        THEN DE!Replaced(d.notes[n], op) ELSE d.notes[n]]
  BY DEF DE!Replace
<1>2. /\ DOMAIN d.notes \subseteq Nat \ {0} /\ IsFiniteSet(DOMAIN d.notes)
      /\ \A k \in D : DE!SoundSlide(d.slides[k]) /\ DOMAIN d.slides[k] = {"id", "text", "notes", "pics", "rels"}
                      /\ d.slides[k].notes \in DOMAIN d.notes \cup {0}
      /\ \A j, k \in D : d.slides[j].id = d.slides[k].id => j = k
      /\ \A j, k \in D : d.slides[j].notes = d.slides[k].notes => j = k \/ d.slides[j].notes = 0
  BY DeckSlides
<1>3. chosen \subseteq D
  BY DEF DE!Selected
<1> HIDE DEF e, chosen
<1>4. ASSUME NEW k \in D
      PROVE  /\ DOMAIN e.slides[k] = DOMAIN d.slides[k] /\ e.slides[k].id = d.slides[k].id
             /\ e.slides[k].notes = d.slides[k].notes /\ e.slides[k].pics = d.slides[k].pics
             /\ e.slides[k].rels = d.slides[k].rels
             /\ k \notin chosen => e.slides[k] = d.slides[k]
  BY <1>1, <1>2
<1>5. \A k \in D : DE!SoundSlide(e.slides[k])
  BY <1>2, <1>4, Zenon DEF DE!SoundSlide
<1>6. DE!SoundDeck(e)
  <2>1. e.slides = [k \in D |-> e.slides[k]] /\ DOMAIN e.notes = DOMAIN d.notes
    BY <1>1
  <2> HIDE DEF D
  <2>2. QED
    BY <1>1, <1>2, <1>4, <1>5, <2>1, DeckChanged DEF D
<1>7. ASSUME NEW k \in D, NEW j \in DOMAIN e.slides, e.slides[j].id = d.slides[k].id, d.slides[k].id \notin DE!Addressed(d, op)
      PROVE  DE!Seen(e, j) = DE!Seen(d, k)
  <2>1. j \in D
    BY <1>1
  <2>2. j = k
    BY <1>2, <1>4, <1>7, <2>1
  <2>3. k \notin chosen
    BY <1>7 DEF DE!Addressed, chosen
  <2>4. DE!Notes(e, k) = DE!Notes(d, k)
    <3>1. e.slides[k].notes = d.slides[k].notes /\ DOMAIN e.notes = DOMAIN d.notes
      BY <1>1, <1>4
    <3>2. ASSUME d.slides[k].notes \in DOMAIN d.notes PROVE e.notes[d.slides[k].notes] = d.notes[d.slides[k].notes]
      <4>1. ~ \E i \in chosen : d.slides[i].notes = d.slides[k].notes
        BY <1>2, <1>3, <2>3, <3>2
      <4>2. QED
        BY <1>1, <3>2, <4>1
    <3>3. QED
      BY <3>1, <3>2 DEF DE!Notes
  <2>5. QED
    BY <1>4, <2>2, <2>3, <2>4 DEF DE!Seen
<1>8. QED
  BY <1>6, <1>7 DEF DeckKept, e

LEMMA DeckTextSet ==
  ASSUME NEW d, DE!SoundDeck(d), NEW op, op.op \notin {"replace", "clone_slide"}, DE!Found(d, op.ref) # {}
  PROVE  DE!SoundDeck(DE!SetText(d, op)) /\ DeckKept(d, DE!SetText(d, op), op)
<1> DEFINE e == DE!SetText(d, op)
           D == DOMAIN d.slides
           c == DE!The(d, op.ref)
<1>1. c \in DE!Found(d, op.ref) /\ c \in D
  BY DEF DE!The, DE!Found
<1>2. /\ DOMAIN d = {"slides", "notes"} /\ DOMAIN d.notes \subseteq Nat \ {0} /\ IsFiniteSet(DOMAIN d.notes)
      /\ \A k \in D : DE!SoundSlide(d.slides[k]) /\ DOMAIN d.slides[k] = {"id", "text", "notes", "pics", "rels"}
      /\ \A j, k \in D : d.slides[j].id = d.slides[k].id => j = k
  BY DeckSlides
<1>3. e = [d EXCEPT !.slides[c].text = op.text]
  BY DEF DE!SetText
<1> HIDE DEF e, c
<1>4. /\ DOMAIN e = {"slides", "notes"} /\ e.notes = d.notes /\ DOMAIN e.slides = D /\ e.slides = [k \in D |-> e.slides[k]]
      /\ \A k \in D \ {c} : e.slides[k] = d.slides[k]
      /\ e.slides[c] = [d.slides[c] EXCEPT !.text = op.text]
  BY <1>1, <1>2, <1>3
<1>5. /\ DOMAIN e.slides[c] = DOMAIN d.slides[c] /\ e.slides[c].id = d.slides[c].id
      /\ e.slides[c].notes = d.slides[c].notes /\ e.slides[c].pics = d.slides[c].pics /\ e.slides[c].rels = d.slides[c].rels
  BY <1>1, <1>2, <1>4
<1>6. DE!SoundSlide(e.slides[c])
  BY <1>1, <1>2, <1>5, Zenon DEF DE!SoundSlide
<1>7. \A k \in D : DE!SoundSlide(e.slides[k]) /\ e.slides[k].id = d.slides[k].id /\ e.slides[k].notes = d.slides[k].notes
  BY <1>2, <1>4, <1>5, <1>6
<1>8. DE!SoundDeck(e)
  BY <1>2, <1>4, <1>7, DeckChanged
<1>9. ASSUME NEW k \in D, NEW j \in DOMAIN e.slides, e.slides[j].id = d.slides[k].id, d.slides[k].id \notin DE!Addressed(d, op)
      PROVE  DE!Seen(e, j) = DE!Seen(d, k)
  <2>1. j = k
    BY <1>2, <1>4, <1>7, <1>9
  <2>2. c \in DE!Found(d, op.ref) => d.slides[c].id \in DE!Addressed(d, op)
    BY DEF DE!Addressed
  <2>3. k # c
    BY <1>1, <1>9, <2>2
  <2>4. QED
    BY <1>4, <2>1, <2>3 DEF DE!Seen, DE!Notes
<1>10. QED
  BY <1>8, <1>9 DEF DeckKept, e

(* op_set_notes, of a slide with notes or without.                           *)
LEMMA DeckNotesSet ==
  ASSUME NEW d, DE!SoundDeck(d), NEW op, op.op \notin {"replace", "clone_slide"}, DE!Found(d, op.ref) # {}
  PROVE  DE!SoundDeck(DE!SetNotes(d, op)) /\ DeckKept(d, DE!SetNotes(d, op), op)
<1> DEFINE e == DE!SetNotes(d, op)
           D == DOMAIN d.slides
           c == DE!The(d, op.ref)
           n == IF d.slides[c].notes \in DOMAIN d.notes THEN d.slides[c].notes ELSE DE!NewPart(d)
<1>1. c \in DE!Found(d, op.ref) /\ c \in D
  BY DEF DE!The, DE!Found
<1>2. /\ DOMAIN d.notes \subseteq Nat \ {0} /\ IsFiniteSet(DOMAIN d.notes)
      /\ \A k \in D : DE!SoundSlide(d.slides[k]) /\ DOMAIN d.slides[k] = {"id", "text", "notes", "pics", "rels"}
                      /\ d.slides[k].notes \in DOMAIN d.notes \cup {0}
      /\ \A j, k \in D : d.slides[j].id = d.slides[k].id => j = k
      /\ \A j, k \in D : d.slides[j].notes = d.slides[k].notes => j = k \/ d.slides[j].notes = 0
  BY DeckSlides
<1>3. n \in Nat \ {0} /\ (n = d.slides[c].notes \/ n \notin DOMAIN d.notes)
  <2>1. DE!NewPart(d) \in Nat \ {0} /\ DE!NewPart(d) \notin DOMAIN d.notes
    BY <1>2, NextNumber DEF DE!NewPart
  <2>2. QED
    BY <1>2, <2>1
<1>4. /\ DOMAIN e = {"slides", "notes"} /\ e.slides = [d.slides EXCEPT ![c].notes = n]
      /\ e.notes = [m \in DOMAIN d.notes \cup {n} |-> IF m = n THEN op.text ELSE d.notes[m]]
  BY DEF DE!SetNotes
<1> HIDE DEF e, c, n
<1>5. /\ DOMAIN e.slides = D /\ e.slides = [k \in D |-> e.slides[k]]
      /\ \A k \in D \ {c} : e.slides[k] = d.slides[k]
      /\ e.slides[c] = [d.slides[c] EXCEPT !.notes = n]
  BY <1>1, <1>4
<1>6. /\ DOMAIN e.slides[c] = DOMAIN d.slides[c] /\ e.slides[c].id = d.slides[c].id
      /\ e.slides[c].notes = n /\ e.slides[c].pics = d.slides[c].pics /\ e.slides[c].rels = d.slides[c].rels
  BY <1>1, <1>2, <1>5
<1>7. DE!SoundSlide(e.slides[c])
  BY <1>1, <1>2, <1>6, Zenon DEF DE!SoundSlide
<1>8. \A k \in D : DE!SoundSlide(e.slides[k]) /\ e.slides[k].id = d.slides[k].id
  BY <1>2, <1>5, <1>6, <1>7
<1>9. DOMAIN e.notes = DOMAIN d.notes \cup {n} /\ DOMAIN e.notes \subseteq Nat \ {0} /\ IsFiniteSet(DOMAIN e.notes)
  <2>1. DOMAIN e.notes = DOMAIN d.notes \cup {n}
    BY <1>4
  <2>2. IsFiniteSet(DOMAIN d.notes \cup {n})
    BY <1>2, FS_AddElement
  <2>3. QED
    BY <1>2, <1>3, <2>1, <2>2
<1>10. DE!SoundDeck(e)
  <2>1. /\ \A k \in D \ {c} : e.slides[k].notes = d.slides[k].notes
        /\ e.slides[c].notes = d.slides[c].notes \/ e.slides[c].notes \in DOMAIN e.notes \ DOMAIN d.notes
    BY <1>3, <1>5, <1>6, <1>9
  <2> HIDE DEF D
  <2>2. QED
    BY <1>4, <1>5, <1>8, <1>9, <2>1, DeckChanged DEF D
<1>11. ASSUME NEW k \in D, NEW j \in DOMAIN e.slides, e.slides[j].id = d.slides[k].id, d.slides[k].id \notin DE!Addressed(d, op)
       PROVE  DE!Seen(e, j) = DE!Seen(d, k)
  <2>1. j = k
    BY <1>2, <1>5, <1>8, <1>11
  <2>2. c \in DE!Found(d, op.ref) => d.slides[c].id \in DE!Addressed(d, op)
    BY DEF DE!Addressed
  <2>3. k # c
    BY <1>1, <1>11, <2>2
  <2>4. DE!Notes(e, k) = DE!Notes(d, k)
    <3>1. e.slides[k].notes = d.slides[k].notes /\ d.slides[k].notes # n
      BY <1>1, <1>2, <1>3, <1>5, <2>3
    <3>2. QED
      BY <1>4, <3>1 DEF DE!Notes
  <2>5. QED
    BY <1>5, <2>1, <2>3, <2>4 DEF DE!Seen
<1>12. QED
  BY <1>10, <1>11 DEF DeckKept, e

(* The relationship of a picture: one the slide has, or a new number.        *)
LEMMA DeckRelOf ==
  ASSUME NEW rels, DOMAIN rels \subseteq Nat \ {0}, IsFiniteSet(DOMAIN rels), NEW image
  PROVE  /\ DE!RelOf(rels, image) \in Nat \ {0}
         /\ image \in DE!Range(rels) => DE!RelOf(rels, image) \in DOMAIN rels
<1>1. CASE image \in DE!Range(rels)
  <2>1. \E r \in DOMAIN rels : rels[r] = image
    BY <1>1 DEF DE!Range
  <2>2. DE!RelOf(rels, image) = CHOOSE r \in DOMAIN rels : rels[r] = image
    BY <1>1 DEF DE!RelOf
  <2>3. QED
    BY <2>1, <2>2
<1>2. CASE image \notin DE!Range(rels)
  <2>1. DE!RelOf(rels, image) = 1 + DE!Max({0} \cup DOMAIN rels)
    BY <1>2 DEF DE!RelOf
  <2>2. QED
    BY <1>2, <2>1, NextNumber
<1>3. QED
  BY <1>1, <1>2

LEMMA DeckPictureReplaced ==
  ASSUME NEW d, DE!SoundDeck(d), NEW op, op.op \notin {"replace", "clone_slide"}, DE!PictureOk(d, op)
  PROVE  DE!SoundDeck(DE!ReplacePicture(d, op)) /\ DeckKept(d, DE!ReplacePicture(d, op), op)
<1> DEFINE e == DE!ReplacePicture(d, op)
           D == DOMAIN d.slides
           c == DE!The(d, op.ref)
           s == d.slides[c]
           old == s.pics[op.pic]
           rid == DE!RelOf(s.rels, op.png)
           pics == [s.pics EXCEPT ![op.pic] = rid]
           rels == [r \in DOMAIN s.rels \cup {rid} |-> IF r = rid THEN op.png ELSE s.rels[r]]
           kept == IF s.pics[op.pic] = rid THEN DOMAIN rels ELSE DE!Kept(pics, rels, s.pics[op.pic])
<1>1. c \in DE!Found(d, op.ref) /\ c \in D /\ op.pic \in DOMAIN s.pics
  BY DEF DE!The, DE!Found, DE!PictureOk
<1>2. /\ DOMAIN d = {"slides", "notes"} /\ DOMAIN d.notes \subseteq Nat \ {0} /\ IsFiniteSet(DOMAIN d.notes)
      /\ \A k \in D : DE!SoundSlide(d.slides[k]) /\ DOMAIN d.slides[k] = {"id", "text", "notes", "pics", "rels"}
      /\ \A j, k \in D : d.slides[j].id = d.slides[k].id => j = k
  BY DeckSlides
<1>3. DOMAIN s.rels \subseteq Nat \ {0} /\ IsFiniteSet(DOMAIN s.rels) /\ DE!Range(s.pics) \subseteq DOMAIN s.rels /\ s.id \in Nat
  <2>1. DE!SoundSlide(s)
    BY <1>1, <1>2
  <2> HIDE DEF s
  <2>2. QED
    BY <2>1, DeckFinite, Zenon DEF DE!SoundSlide
<1>4. e = [d EXCEPT !.slides[c].pics = pics, !.slides[c].rels = DE!Restrict(rels, kept)]
  BY DEF DE!ReplacePicture
<1>5. rid \in Nat \ {0}
  <2> HIDE DEF s
  <2>1. QED
    BY <1>3, DeckRelOf
<1>6. DOMAIN rels = DOMAIN s.rels \cup {rid} /\ DOMAIN rels \subseteq Nat \ {0} /\ IsFiniteSet(DOMAIN rels)
  <2>1. IsFiniteSet(DOMAIN s.rels \cup {rid})
    <3> HIDE DEF s, rid
    <3>1. QED
      BY <1>3, FS_AddElement
  <2>2. DOMAIN rels = DOMAIN s.rels \cup {rid}
    OBVIOUS
  <2> HIDE DEF s, rid, rels
  <2>3. QED
    BY <1>3, <1>5, <2>1, <2>2
<1>7. DOMAIN pics = DOMAIN s.pics /\ \A i \in DOMAIN s.pics : pics[i] \in DOMAIN rels
  <2>1. \A i \in DOMAIN s.pics : s.pics[i] \in DOMAIN s.rels
    BY <1>3 DEF DE!Range
  <2> HIDE DEF s, rid, rels
  <2>2. QED
    BY <1>6, <2>1
<1>8. kept \subseteq DOMAIN rels /\ \A i \in DOMAIN pics : pics[i] \in kept
  <2> HIDE DEF s, rid, rels, pics
  <2>1. CASE s.pics[op.pic] = rid \/ s.pics[op.pic] \in DE!Range(pics)
    BY <1>7, <2>1 DEF DE!Kept
  <2>2. CASE s.pics[op.pic] # rid /\ s.pics[op.pic] \notin DE!Range(pics)
    BY <1>7, <2>2 DEF DE!Kept, DE!Range
  <2>3. QED
    BY <2>1, <2>2
<1> DEFINE left == DE!Restrict(rels, kept)
<1>9. DOMAIN left = kept /\ kept \subseteq Nat \ {0} /\ IsFiniteSet(kept) /\ DE!Range(pics) \subseteq kept
  <2>1. DOMAIN left = kept
    BY DEF DE!Restrict
  <2> HIDE DEF s, rid, rels, pics, kept, left
  <2>2. IsFiniteSet(kept)
    BY <1>6, <1>8, FS_Subset
  <2>3. QED
    BY <1>6, <1>8, <2>1, <2>2 DEF DE!Range
<1> HIDE DEF e, c, rid, pics, rels, kept, left
<1>10. /\ DOMAIN e = {"slides", "notes"} /\ e.notes = d.notes /\ DOMAIN e.slides = D /\ e.slides = [k \in D |-> e.slides[k]]
       /\ \A k \in D \ {c} : e.slides[k] = d.slides[k]
       /\ e.slides[c] = [d.slides[c] EXCEPT !.pics = pics, !.rels = left]
  <2>1. e = [d EXCEPT !.slides[c].pics = pics, !.slides[c].rels = left]
    BY <1>4 DEF left
  <2>2. QED
    BY <1>1, <1>2, <2>1
<1>11. /\ DOMAIN e.slides[c] = {"id", "text", "notes", "pics", "rels"} /\ e.slides[c].id = d.slides[c].id
       /\ e.slides[c].notes = d.slides[c].notes /\ e.slides[c].pics = pics /\ e.slides[c].rels = left
  BY <1>1, <1>2, <1>10
<1>12. DE!SoundSlide(e.slides[c])
  <2>1. e.slides[c].id \in Nat
    BY <1>3, <1>11
  <2>2. QED
    BY <1>9, <1>11, <2>1, DeckFinite DEF DE!SoundSlide
<1>13. \A k \in D : DE!SoundSlide(e.slides[k]) /\ e.slides[k].id = d.slides[k].id /\ e.slides[k].notes = d.slides[k].notes
  BY <1>2, <1>10, <1>11, <1>12
<1>14. DE!SoundDeck(e)
  BY <1>2, <1>10, <1>13, DeckChanged
<1>15. ASSUME NEW k \in D, NEW j \in DOMAIN e.slides, e.slides[j].id = d.slides[k].id, d.slides[k].id \notin DE!Addressed(d, op)
       PROVE  DE!Seen(e, j) = DE!Seen(d, k)
  <2>1. j = k
    BY <1>2, <1>10, <1>13, <1>15
  <2>2. c \in DE!Found(d, op.ref) => d.slides[c].id \in DE!Addressed(d, op)
    BY DEF DE!Addressed
  <2>3. k # c
    BY <1>1, <1>15, <2>2
  <2>4. QED
    BY <1>10, <2>1, <2>3 DEF DE!Seen, DE!Notes
<1>16. QED
  BY <1>14, <1>15 DEF DeckKept, e

(* A finite set as a sequence of its elements.                               *)
LEMMA DeckSetToSeq ==
  ASSUME NEW T, IsFiniteSet(T)
  PROVE  /\ DOMAIN DE!SetToSeq(T) = 1..Cardinality(T) /\ Cardinality(T) \in Nat
         /\ DE!Range(DE!SetToSeq(T)) = T
<1> DEFINE n == Cardinality(T)
           g == DE!SetToSeq(T)
<1>1. n \in Nat /\ \E f : f \in Bijection(1..n, T)
  BY FS_CardinalityType DEF ExistsBijection
<1>2. \E f \in [1..n -> T] : DE!IsInjective(f)
  <2>1. PICK f : f \in Bijection(1..n, T)
    BY <1>1
  <2>2. f \in [1..n -> T] /\ \A a, b \in 1..n : f[a] = f[b] => a = b
    BY <2>1 DEF Bijection, Injection, IsInjective
  <2>3. QED
    BY <2>2 DEF DE!IsInjective
<1>3. g = CHOOSE f \in [1..n -> T] : DE!IsInjective(f)
  BY DeckFinite DEF DE!SetToSeq
<1> HIDE DEF g, n
<1>4. g \in [1..n -> T] /\ DE!IsInjective(g)
  BY <1>2, <1>3
<1>5. g \in Injection(1..n, T)
  BY <1>4 DEF Injection, IsInjective, DE!IsInjective
<1>6. Cardinality(1..n) = Cardinality(T)
  BY <1>1, FS_Interval DEF n
<1>7. g \in Surjection(1..n, T)
  BY <1>5, <1>6, FS_Injection
<1>8. DE!Range(g) = T
  <2>1. \A t \in T : \E i \in 1..n : g[i] = t
    BY <1>7 DEF Surjection
  <2>2. DOMAIN g = 1..n /\ \A i \in 1..n : g[i] \in T
    BY <1>4
  <2>3. QED
    BY <2>1, <2>2 DEF DE!Range
<1>9. QED
  BY <1>1, <1>4, <1>8 DEF g, n

(* A sequence with one more element, at a place of its own.                  *)
Inserted(sl, at, x, r) ==
  /\ DOMAIN r = 1..Len(sl) + 1 /\ r[at] = x
  /\ \A i \in 1..Len(sl) + 1 : i < at => i \in DOMAIN sl /\ r[i] = sl[i]
  /\ \A i \in 1..Len(sl) + 1 : at < i => i - 1 \in DOMAIN sl /\ r[i] = sl[i - 1]

LEMMA DeckInserted ==
  ASSUME NEW S, NEW sl \in Seq(S), NEW at \in 1..Len(sl) + 1, NEW x \in S, NEW r, r = DE!InsertAt(sl, at, x)
  PROVE  r \in Seq(S) /\ Inserted(sl, at, x, r)
<1> DEFINE left == SubSeq(sl, 1, at - 1)
           right == SubSeq(sl, at, Len(sl))
<1>1. Len(sl) \in Nat /\ DOMAIN sl = 1..Len(sl) /\ \A i \in 1..Len(sl) : sl[i] \in S
  BY LenProperties
<1>2. at \in Int /\ 1 <= at /\ at <= Len(sl) + 1 /\ at - 1 \in Int /\ Len(sl) \in Int /\ 1 \in Int
  BY <1>1
<1>3. left \in Seq(S) /\ Len(left) = at - 1 /\ \A i \in 1..at - 1 : left[i] = sl[i]
  <2>1. \A i \in 1..at - 1 : sl[i] \in S
    BY <1>1, <1>2
  <2>2. /\ left \in Seq(S) /\ Len(left) = IF 1 <= at - 1 THEN at - 1 - 1 + 1 ELSE 0
        /\ \A i \in 1..at - 1 - 1 + 1 : left[i] = sl[1 + i - 1]
    BY <1>2, <2>1, SubSeqProperties
  <2> HIDE DEF left
  <2>3. QED
    BY <1>2, <2>2
<1>4. right \in Seq(S) /\ Len(right) = Len(sl) - at + 1 /\ \A i \in 1..Len(sl) - at + 1 : right[i] = sl[at + i - 1]
  <2>1. \A i \in at..Len(sl) : sl[i] \in S
    BY <1>1, <1>2
  <2>2. /\ right \in Seq(S) /\ Len(right) = IF at <= Len(sl) THEN Len(sl) - at + 1 ELSE 0
        /\ \A i \in 1..Len(sl) - at + 1 : right[i] = sl[at + i - 1]
    BY <1>2, <2>1, SubSeqProperties
  <2> HIDE DEF right
  <2>3. QED
    BY <1>1, <1>2, <2>2
<1>5. <<x>> \in Seq(S) /\ Len(<<x>>) = 1 /\ <<x>>[1] = x
  OBVIOUS
<1> DEFINE head == left \o <<x>>
<1> HIDE DEF left, right
<1>6. head \in Seq(S) /\ Len(head) = at /\ \A i \in 1..at : head[i] = IF i < at THEN sl[i] ELSE x
  <2>1. /\ head \in Seq(S) /\ Len(head) = Len(left) + Len(<<x>>)
        /\ \A i \in 1..Len(left) + Len(<<x>>) : head[i] = IF i <= Len(left) THEN left[i] ELSE <<x>>[i - Len(left)]
    BY <1>3, <1>5, ConcatProperties
  <2> HIDE DEF head
  <2>2. QED
    BY <1>2, <1>3, <1>5, <2>1
<1> HIDE DEF head
<1>7. r = head \o right
  BY DEF DE!InsertAt, head, left, right
<1>8. /\ r \in Seq(S) /\ Len(r) = Len(sl) + 1
      /\ \A i \in 1..Len(sl) + 1 : r[i] = IF i <= at THEN head[i] ELSE right[i - at]
  <2>1. /\ r \in Seq(S) /\ Len(r) = Len(head) + Len(right)
        /\ \A i \in 1..Len(head) + Len(right) : r[i] = IF i <= Len(head) THEN head[i] ELSE right[i - Len(head)]
    BY <1>4, <1>6, <1>7, ConcatProperties
  <2>2. QED
    BY <1>1, <1>2, <1>4, <1>6, <2>1
<1>9. DOMAIN r = 1..Len(sl) + 1
  BY <1>8, LenProperties
<1>10. r[at] = x
  BY <1>2, <1>6, <1>8
<1>11. ASSUME NEW i \in 1..Len(sl) + 1, i < at PROVE i \in DOMAIN sl /\ r[i] = sl[i]
  BY <1>1, <1>2, <1>6, <1>8, <1>11
<1>12. ASSUME NEW i \in 1..Len(sl) + 1, at < i PROVE i - 1 \in DOMAIN sl /\ r[i] = sl[i - 1]
  <2>1. i - at \in 1..Len(sl) - at + 1 /\ i - 1 \in 1..Len(sl) /\ at + (i - at) - 1 = i - 1
    BY <1>1, <1>2, <1>12
  <2>2. r[i] = right[i - at]
    BY <1>2, <1>8, <1>12
  <2>3. right[i - at] = sl[at + (i - at) - 1]
    BY <1>4, <2>1
  <2>4. QED
    BY <1>1, <2>1, <2>2, <2>3
<1>13. QED
  BY <1>8, <1>9, <1>10, <1>11, <1>12 DEF Inserted

(* The id of a clone is a new one.                                           *)
LEMMA DeckNewId ==
  ASSUME NEW d, DE!SoundDeck(d), DOMAIN d.slides # {}
  PROVE  LET id == 1 + DE!Max({t.id : t \in DE!Range(d.slides)})
         IN  id \in Nat /\ \A k \in DOMAIN d.slides : d.slides[k].id # id
<1> DEFINE D == DOMAIN d.slides
           f == [k \in D |-> d.slides[k].id]
           T == {f[k] : k \in D}
           m == DE!Max({t.id : t \in DE!Range(d.slides)})
<1>1. Len(d.slides) \in Nat /\ D = 1..Len(d.slides) /\ \A k \in D : d.slides[k].id \in Nat
  BY DeckSlides
<1>2. IsFiniteSet(D)
  BY <1>1, FS_Interval
<1>3. IsFiniteSet(T)
  <2>1. DOMAIN f = D
    OBVIOUS
  <2> HIDE DEF f, D
  <2>2. QED
    BY <1>2, <2>1, FiniteImage
<1>4. T = {t.id : t \in DE!Range(d.slides)}
  BY DEF DE!Range
<1>5. T \subseteq Nat /\ T # {} /\ \A k \in D : d.slides[k].id \in T
  BY <1>1
<1> HIDE DEF T, m
<1>6. m \in T /\ \A x \in T : m >= x
  <2>1. m = DE!Max(T)
    BY <1>4 DEF m
  <2>2. T \in SUBSET Int
    BY <1>5
  <2>3. QED
    BY <1>3, <1>5, <2>1, <2>2, DeckMax
<1>7. 1 + m \in Nat /\ \A k \in D : d.slides[k].id # 1 + m
  <2>1. m \in Nat
    BY <1>5, <1>6
  <2>2. ASSUME NEW k \in D, d.slides[k].id = 1 + m PROVE FALSE
    BY <1>5, <1>6, <2>1, <2>2
  <2>3. QED
    BY <2>1, <2>2
<1>8. QED
  BY <1>7 DEF m

(* A clone has relationships to all that its template shows.                 *)
LEMMA DeckClonePictures ==
  ASSUME NEW s, DE!SoundSlide(s), NEW rels, rels = DE!Renumbered(s.rels)
  PROVE  /\ DOMAIN rels \subseteq Nat \ {0} /\ IsFiniteSet(DOMAIN rels)
         /\ \A j \in DOMAIN s.pics : DE!RelOf(rels, s.rels[s.pics[j]]) \in DOMAIN rels
<1> DEFINE T == DE!Range(s.rels)
<1>1. IsFiniteSet(DOMAIN s.rels) /\ DE!Range(s.pics) \subseteq DOMAIN s.rels
  BY DeckFinite, Zenon DEF DE!SoundSlide
<1>2. IsFiniteSet(T)
  <2>1. T = {s.rels[x] : x \in DOMAIN s.rels}
    BY DEF DE!Range
  <2>2. IsFiniteSet({s.rels[x] : x \in DOMAIN s.rels})
    BY <1>1, FiniteImage
  <2>3. QED
    BY <2>1, <2>2
<1>3. DOMAIN rels = 1..Cardinality(T) /\ Cardinality(T) \in Nat /\ DE!Range(rels) = T
  BY <1>2, DeckSetToSeq DEF DE!Renumbered
<1>4. DOMAIN rels \subseteq Nat \ {0} /\ IsFiniteSet(DOMAIN rels)
  <2> HIDE DEF T
  <2>1. QED
    BY <1>3, FS_Interval
<1>5. ASSUME NEW j \in DOMAIN s.pics PROVE DE!RelOf(rels, s.rels[s.pics[j]]) \in DOMAIN rels
  <2>1. s.rels[s.pics[j]] \in DE!Range(rels)
    BY <1>1, <1>3 DEF DE!Range
  <2>2. QED
    BY <1>4, <2>1, DeckRelOf
<1>6. QED
  BY <1>4, <1>5

(* op_clone_slide: the slide that is new is told from all the others.        *)
LEMMA DeckCloned ==
  ASSUME NEW d, DE!SoundDeck(d), NEW op, op.op = "clone_slide", DE!CloneOk(d, op)
  PROVE  DE!SoundDeck(DE!CloneSlide(d, op)) /\ DeckKept(d, DE!CloneSlide(d, op), op)
<1> DEFINE e == DE!CloneSlide(d, op)
           D == DOMAIN d.slides
           N == Len(d.slides)
           c == DE!The(d, op.ref)
           s == d.slides[c]
           rels == DE!Renumbered(s.rels)
           n == DE!NotesOfClone(d, c)
           id == 1 + DE!Max({t.id : t \in DE!Range(d.slides)})
           pics == [j \in DOMAIN s.pics |-> DE!RelOf(rels, s.rels[s.pics[j]])]
           new == [s EXCEPT !.id = id, !.notes = n, !.rels = rels, !.pics = pics]
           at == IF op.after = 0 THEN Len(d.slides) + 1 ELSE DE!The(d, op.after) + 1
<1>1. c \in D
  BY DEF DE!The, DE!Found, DE!CloneOk
<1>2. /\ DOMAIN d = {"slides", "notes"} /\ DOMAIN d.notes \subseteq Nat \ {0} /\ IsFiniteSet(DOMAIN d.notes)
      /\ d.slides \in Seq(DE!Range(d.slides)) /\ N \in Nat /\ D = 1..N
      /\ \A k \in D : DE!SoundSlide(d.slides[k]) /\ DOMAIN d.slides[k] = {"id", "text", "notes", "pics", "rels"}
                      /\ d.slides[k].notes \in DOMAIN d.notes \cup {0}
      /\ \A j, k \in D : d.slides[j].id = d.slides[k].id => j = k
      /\ \A j, k \in D : d.slides[j].notes = d.slides[k].notes => j = k \/ d.slides[j].notes = 0
  BY DeckSlides
<1>3. n \in Nat /\ n \notin DOMAIN d.notes
  <2>1. DE!NewPart(d) \in Nat \ {0} /\ DE!NewPart(d) \notin DOMAIN d.notes
    BY <1>2, NextNumber DEF DE!NewPart
  <2>2. QED
    BY <1>2, <2>1 DEF DE!NotesOfClone
<1>4. id \in Nat /\ \A k \in D : d.slides[k].id # id
  BY <1>1, DeckNewId
<1>5. at \in 1..N + 1
  <2>1. op.after # 0 => DE!The(d, op.after) \in D
    BY DEF DE!The, DE!Found, DE!CloneOk
  <2>2. CASE op.after = 0
    BY <1>2, <2>2
  <2>3. CASE op.after # 0
    <3> DEFINE q == DE!The(d, op.after)
    <3>1. q \in 1..N /\ at = q + 1
      BY <1>2, <2>1, <2>3
    <3> HIDE DEF q, at, N
    <3>2. QED
      BY <1>2, <3>1
  <2>4. QED
    BY <2>2, <2>3
<1>6. /\ DOMAIN rels \subseteq Nat \ {0} /\ IsFiniteSet(DOMAIN rels)
      /\ \A j \in DOMAIN pics : pics[j] \in DOMAIN rels
  <2>1. DE!SoundSlide(s)
    BY <1>1, <1>2
  <2>2. DOMAIN pics = DOMAIN s.pics /\ \A j \in DOMAIN s.pics : pics[j] = DE!RelOf(rels, s.rels[s.pics[j]])
    OBVIOUS
  <2> HIDE DEF s, rels, pics
  <2>3. QED
    BY <2>1, <2>2, DeckClonePictures DEF rels
<1>7. /\ e = [slides |-> DE!InsertAt(d.slides, at, new),
              notes |-> [m \in DOMAIN d.notes \cup ({n} \ {0}) |-> IF m = n THEN DE!Notes(d, c) ELSE d.notes[m]]]
  BY DEF DE!CloneSlide
<1> HIDE DEF id, n, rels, pics, at, e
<1>8. /\ DOMAIN new = {"id", "text", "notes", "pics", "rels"} /\ new.id = id /\ new.notes = n
      /\ new.pics = pics /\ new.rels = rels
  BY <1>1, <1>2
<1> HIDE DEF c, s, new, N
<1>9. DE!SoundSlide(new)
  <2>1. DE!Range(pics) \subseteq DOMAIN rels
    BY <1>6 DEF DE!Range
  <2>2. QED
    BY <1>4, <1>6, <1>8, <2>1, DeckFinite DEF DE!SoundSlide
<1>10. /\ e.slides \in Seq(DE!Range(d.slides) \cup {new}) /\ DOMAIN e.slides = 1..N + 1 /\ e.slides[at] = new
       /\ \A i \in 1..N + 1 : i # at => \E k \in D : e.slides[i] = d.slides[k] /\ k = IF i < at THEN i ELSE i - 1
  <2> DEFINE S == DE!Range(d.slides) \cup {new}
  <2>1. d.slides \in Seq(S) /\ new \in S
    BY <1>2, SeqMonotonic
  <2>2. e.slides = DE!InsertAt(d.slides, at, new)
    BY <1>7
  <2> HIDE DEF S, D
  <2>3. at \in 1..Len(d.slides) + 1
    BY <1>5 DEF N
  <2>4. e.slides \in Seq(S) /\ Inserted(d.slides, at, new, e.slides)
    BY <2>1, <2>2, <2>3, DeckInserted
  <2>5. /\ DOMAIN e.slides = 1..Len(d.slides) + 1 /\ e.slides[at] = new
        /\ \A i \in 1..Len(d.slides) + 1 : i < at => i \in DOMAIN d.slides /\ e.slides[i] = d.slides[i]
        /\ \A i \in 1..Len(d.slides) + 1 : at < i => i - 1 \in DOMAIN d.slides /\ e.slides[i] = d.slides[i - 1]
    BY <2>4 DEF Inserted
  <2>7. \A i \in 1..N + 1 : i # at => \E k \in D : e.slides[i] = d.slides[k] /\ k = IF i < at THEN i ELSE i - 1
    <3>1. SUFFICES ASSUME NEW i \in 1..N + 1, i # at
                   PROVE  \E k \in D : e.slides[i] = d.slides[k] /\ k = IF i < at THEN i ELSE i - 1
      OBVIOUS
    <3>2. i \in 1..Len(d.slides) + 1 /\ i \in Int /\ at \in Int
      BY <1>2, <1>5, <3>1 DEF N
    <3>3. CASE i < at
      BY <2>5, <3>2, <3>3 DEF D
    <3>4. CASE at < i
      BY <2>5, <3>2, <3>4 DEF D
    <3>5. QED
      BY <3>1, <3>2, <3>3, <3>4
  <2>8. QED
    BY <2>4, <2>5, <2>7 DEF S, N
<1>11. /\ DOMAIN e = {"slides", "notes"}
       /\ DOMAIN e.notes = DOMAIN d.notes \cup ({n} \ {0})
       /\ \A m \in DOMAIN d.notes : e.notes[m] = d.notes[m]
  BY <1>3, <1>7
<1>12. DOMAIN e.notes \subseteq Nat \ {0} /\ IsFiniteSet(DOMAIN e.notes)
  <2>1. IsFiniteSet({n} \ {0})
    <3>1. IsFiniteSet({n}) /\ {n} \ {0} \subseteq {n}
      BY FS_Singleton
    <3>2. QED
      BY <3>1, FS_Subset
  <2>2. IsFiniteSet(DOMAIN d.notes \cup ({n} \ {0}))
    BY <1>2, <2>1, FS_Union
  <2>3. QED
    BY <1>2, <1>3, <1>11, <2>2
<1>13. \A i \in 1..N + 1 : i # at => \E k \in D : e.slides[i] = d.slides[k] /\ \A j \in 1..N + 1 : j # at /\ e.slides[j] = d.slides[k] => j = i
  <2>1. SUFFICES ASSUME NEW i \in 1..N + 1, i # at
                 PROVE  \E k \in D : e.slides[i] = d.slides[k] /\ \A j \in 1..N + 1 : j # at /\ e.slides[j] = d.slides[k] => j = i
    OBVIOUS
  <2>2. PICK k \in D : e.slides[i] = d.slides[k] /\ k = IF i < at THEN i ELSE i - 1
    BY <1>10, <2>1
  <2>3. ASSUME NEW j \in 1..N + 1, j # at, e.slides[j] = d.slides[k] PROVE j = i
    <3>1. PICK l \in D : e.slides[j] = d.slides[l] /\ l = IF j < at THEN j ELSE j - 1
      BY <1>10, <2>3
    <3>2. l = k
      BY <1>2, <2>3, <3>1
    <3>3. at \in Int /\ i \in Int /\ j \in Int
      BY <1>2, <1>5
    <3> HIDE DEF D
    <3>4. QED
      BY <2>1, <2>2, <2>3, <3>1, <3>2, <3>3
  <2>4. QED
    BY <2>2, <2>3
<1>14. \A i \in DOMAIN e.slides : DE!SoundSlide(e.slides[i]) /\ e.slides[i].notes \in DOMAIN e.notes \cup {0}
  <2>1. ASSUME NEW i \in 1..N + 1 PROVE DE!SoundSlide(e.slides[i]) /\ e.slides[i].notes \in DOMAIN e.notes \cup {0}
    <3>1. CASE i = at
      BY <1>3, <1>8, <1>9, <1>10, <1>11, <3>1
    <3>2. CASE i # at
      <4>1. PICK k \in D : e.slides[i] = d.slides[k]
        BY <1>10, <3>2
      <4>2. QED
        BY <1>2, <1>11, <4>1
    <3>3. QED
      BY <3>1, <3>2
  <2>2. QED
    BY <1>10, <2>1
<1>15. ASSUME NEW i \in 1..N + 1, NEW j \in 1..N + 1, i # j
       PROVE  e.slides[i].id # e.slides[j].id /\ (e.slides[i].notes = e.slides[j].notes => e.slides[i].notes = 0)
  <2>1. CASE i = at
    <3>1. PICK k \in D : e.slides[j] = d.slides[k]
      BY <1>10, <1>15, <2>1
    <3>2. QED
      BY <1>2, <1>3, <1>4, <1>8, <1>10, <2>1, <3>1
  <2>2. CASE j = at
    <3>1. PICK k \in D : e.slides[i] = d.slides[k]
      BY <1>10, <1>15, <2>2
    <3>2. QED
      BY <1>2, <1>3, <1>4, <1>8, <1>10, <2>2, <3>1
  <2>3. CASE i # at /\ j # at
    <3>1. PICK k \in D : e.slides[i] = d.slides[k] /\ \A m \in 1..N + 1 : m # at /\ e.slides[m] = d.slides[k] => m = i
      BY <1>13, <2>3
    <3>2. PICK l \in D : e.slides[j] = d.slides[l]
      BY <1>13, <2>3
    <3>3. k # l
      BY <1>15, <2>3, <3>1, <3>2
    <3>4. QED
      BY <1>2, <3>1, <3>2, <3>3
  <2>4. QED
    BY <2>1, <2>2, <2>3
<1>16. DE!SoundDeck(e)
  <2>1. e.slides \in Seq(DE!Range(e.slides))
    <3>1. Len(e.slides) \in Nat /\ e.slides = [i \in 1..Len(e.slides) |-> e.slides[i]] /\ DOMAIN e.slides = 1..Len(e.slides)
      BY <1>10, LenProperties
    <3>2. e.slides \in [1..Len(e.slides) -> DE!Range(e.slides)]
      BY <3>1 DEF DE!Range
    <3>3. QED
      BY <3>1, <3>2, SeqDef
  <2>2. DE!IsFiniteSet(DOMAIN e.notes)
    BY <1>12, DeckFinite
  <2>3. \A j, k \in DOMAIN e.slides : j # k =>
           /\ e.slides[j].id # e.slides[k].id
           /\ e.slides[j].notes = e.slides[k].notes => e.slides[j].notes = 0
    BY <1>10, <1>15
  <2>4. QED
    BY <1>11, <1>12, <1>14, <2>1, <2>2, <2>3 DEF DE!SoundDeck
<1>17. ASSUME NEW k \in D, NEW j \in DOMAIN e.slides, e.slides[j].id = d.slides[k].id, d.slides[k].id \notin DE!Addressed(d, op)
       PROVE  DE!Seen(e, j) = DE!Seen(d, k)
  <2>1. j # at
    BY <1>4, <1>8, <1>10, <1>17
  <2>2. e.slides[j] = d.slides[k]
    BY <1>2, <1>10, <1>17, <2>1
  <2>3. DE!Notes(e, j) = DE!Notes(d, k)
    <3>1. d.slides[k].notes \in DOMAIN e.notes <=> d.slides[k].notes \in DOMAIN d.notes
      BY <1>2, <1>3, <1>11
    <3>2. QED
      BY <1>11, <2>2, <3>1 DEF DE!Notes
  <2>4. QED
    BY <2>2, <2>3 DEF DE!Seen
<1>18. QED
  BY <1>16, <1>17 DEF DeckKept, e

(* The operations of deck_edit.py, each from a deck to a deck.               *)
LEMMA DeckApplied ==
  ASSUME NEW d, DE!SoundDeck(d), NEW op \in DeckOps, DE!Applicable(d, op)
  PROVE  DE!SoundDeck(DE!Applied(d, op)) /\ DeckKept(d, DE!Applied(d, op), op)
<1>1. op.op \in {"replace", "set_text", "set_notes", "replace_picture", "clone_slide"}
  BY DeckEditAssumption
<1>2. CASE op.op = "replace"
  BY <1>2, DeckReplaced DEF DE!Applied
<1>3. CASE op.op = "set_text"
  BY <1>3, DeckTextSet DEF DE!Applied, DE!Applicable
<1>4. CASE op.op = "set_notes"
  BY <1>4, DeckNotesSet DEF DE!Applied, DE!Applicable
<1>5. CASE op.op = "replace_picture"
  BY <1>5, DeckPictureReplaced DEF DE!Applied, DE!Applicable
<1>6. CASE op.op = "clone_slide"
  BY <1>6, DeckCloned DEF DE!Applied, DE!Applicable
<1>7. QED
  BY <1>1, <1>2, <1>3, <1>4, <1>5, <1>6

(* The decks are sound: the copy in memory after each operation, the deck    *)
(* that the run loaded, and the file but while it is being overwritten.      *)
DeckEditSound ==
  /\ DE!SoundDeck(editWork) /\ DE!SoundDeck(before)
  /\ editStep # "moving" => DE!SoundDeck(editDeck)

LEMMA DeckEditStaysSound ==
  ASSUME DeckEditInv, DeckEditSound, [DE!Next]_deckedit
  PROVE  /\ DeckEditSound'
         /\ editTodo' # editTodo /\ editStep = "ops" /\ editStep' = "ops" => DeckKept(editWork, editWork', Head(editTodo))
<1> USE DEF DeckEditSound
<1>1. CASE UNCHANGED deckedit
  BY <1>1 DEF deckedit
<1>2. CASE DE!Apply
  <2> DEFINE op == Head(editTodo)
  <2>1. op \in DeckOps
    BY <1>2 DEF DE!Apply, DeckEditInv, DeckEditShape
  <2>2. DE!Applicable(editWork, op) /\ editWork' = DE!Applied(editWork, op)
    BY <1>2 DEF DE!Apply
  <2>3. before' = before /\ editDeck' = editDeck /\ editStep' = editStep
    BY <1>2 DEF DE!Apply, DE!deckfile
  <2> HIDE DEF op
  <2>4. DE!SoundDeck(editWork') /\ DeckKept(editWork, editWork', op)
    BY <2>1, <2>2, DeckApplied
  <2>5. QED
    BY <2>3, <2>4 DEF op
<1>3. CASE DE!Load
  BY <1>3 DEF DE!Load, DE!deckfile
<1>4. CASE DE!OpFails \/ DE!DryRun
  BY <1>4 DEF DE!OpFails, DE!DryRun, DE!Ends, DE!deckfile
<1>5. CASE DE!Save \/ DE!Backup \/ DE!Copied \/ DE!Move
  BY <1>5 DEF DE!Save, DE!Backup, DE!Copied, DE!Move, DE!copy, DE!deckfile
<1>6. CASE DE!ReplaceFile \/ DE!Moved
  BY <1>6 DEF DE!ReplaceFile, DE!Moved, DE!Done, DE!Ends
<1>7. CASE DE!Crash
  <2>1. editStep' = "idle" /\ editWork' = editDeck' /\ before' = editDeck'
    BY <1>7 DEF DE!Crash, DE!Ends
  <2>2. editDeck' = IF editStep = "moving" THEN editBackup ELSE editDeck
    BY <1>7 DEF DE!Crash
  <2>3. editStep = "moving" => editBackup = before
    BY DEF DeckEditInv, DeckEditFiles
  <2>4. QED
    BY <2>1, <2>2, <2>3
<1>8. QED
  BY <1>1, <1>2, <1>3, <1>4, <1>5, <1>6, <1>7 DEF DE!Next, DE!Run, DE!WriteDeck

LEMMA DeckSoundPictures == DE!SoundDeck(editWork) => DE!PicturesResolve
<1> SUFFICES ASSUME DE!SoundDeck(editWork), NEW s \in DE!Range(editWork.slides)
             PROVE  DE!Range(s.pics) \subseteq DOMAIN s.rels
  BY DEF DE!PicturesResolve
<1>1. PICK k \in DOMAIN editWork.slides : s = editWork.slides[k]
  BY DEF DE!Range
<1>2. DE!SoundSlide(s)
  BY <1>1, DeckSlides
<1>3. QED
  BY <1>2, Zenon DEF DE!SoundSlide

LEMMA DeckEditStartsSound == DE!Init => DeckEditSound
BY Zenon, DeckEditAssumption DEF DE!Init, DeckEditSound

(* Whatever the edits are, the deck stays one that loads: each id is of one  *)
(* slide, notes are of one slide, pictures have what they show.              *)
THEOREM DeckEditSoundness == Spec => []DeckEditSound
<1>1. DeckEditInv /\ DeckEditSound /\ [DE!Next]_deckedit => DeckEditSound'
  BY DeckEditStaysSound
<1>2. QED
  BY <1>1, Behaviours, DeckEditStartsSound, DeckEditInvariance, PTL DEF Spec

-------------------------------------------------------------------------------
(* deck_font.py: others append to the deck file while the tool runs.         *)
(* The versions of the deck file up to now; what the run has loaded is one,  *)
(* and what it saves is one with its families retargeted and counted.  The   *)
(* backup is the version before the other writes since it was made.  None of *)
(* these is empty, so that only a file being written in place is.            *)
FontVersions == {SubSeq(fontDeck, 1, k) : k \in 1..Len(fontDeck)}
FontDecks == Seq(FO!Elements) \ {FO!NoDeck}

DeckFontShape ==
  /\ fontDeck \in Seq(FO!Elements) /\ fontEdits \in 0..MaxFontEdits
  /\ fontStep \in {"idle", "loaded", "retargeted", "saved", "backed", "moving"}
  /\ total # FO!Unknown => total = FO!Matched(fontDeck)

DeckFontWork ==
  /\ fontStep = "loaded" => fontWork \in FontVersions
  /\ fontStep \in {"retargeted", "saved", "backed"} =>
       \E d \in FontVersions : fontWork = FO!Retargeted(d) /\ changed = FO!Matched(d)

DeckFontBackup ==
  fontStep = "backed" /\ ~toOut =>
    \E n \in 0..fontEdits : n < Len(fontDeck) /\ fontBackup = SubSeq(fontDeck, 1, Len(fontDeck) - n)

DeckFontMoving ==
  /\ fontStep = "moving" => fontWork \in FontDecks
  /\ fontDeck = FO!NoDeck => fontStep = "moving" /\ ~toOut /\ fontBackup \in FontDecks /\ total = FO!Unknown

DeckFontInv == DeckFontShape /\ DeckFontWork /\ DeckFontBackup /\ DeckFontMoving

LEMMA DeckFontBounds == MaxElements \in Nat /\ MaxFontEdits \in Nat
BY Zenon, DeckFontAssumption

LEMMA DeckFontInitially == FO!Init => DeckFontInv
<1> SUFFICES ASSUME FO!Init PROVE DeckFontInv
  OBVIOUS
<1>1. PICK n \in 1..MaxElements : fontDeck \in [1..n -> FO!Elements]
  BY DEF FO!Init
<1>2. n \in Nat /\ n >= 1
  BY DeckFontBounds
<1>3. fontDeck \in Seq(FO!Elements) /\ fontDeck # <<>>
  BY <1>1, <1>2
<1>4. QED
  BY <1>3, DeckFontBounds
  DEF FO!Init, DeckFontInv, DeckFontShape, DeckFontWork, DeckFontBackup, DeckFontMoving, FO!NoDeck

LEMMA DeckFontTypes ==
  ASSUME DeckFontShape
  PROVE  /\ fontDeck \in Seq(FO!Elements) /\ Len(fontDeck) \in Nat /\ DOMAIN fontDeck = 1..Len(fontDeck)
         /\ fontDeck # FO!NoDeck => Len(fontDeck) > 0
         /\ fontEdits \in Nat /\ fontEdits \in 0..MaxFontEdits
<1>1. fontDeck \in Seq(FO!Elements)
  BY DEF DeckFontShape
<1>2. fontEdits \in 0..MaxFontEdits
  BY DEF DeckFontShape
<1>3. fontEdits \in Nat
  BY <1>2, DeckFontBounds
<1>4. Len(fontDeck) \in Nat /\ DOMAIN fontDeck = 1..Len(fontDeck) /\ (fontDeck # <<>> => Len(fontDeck) > 0)
  BY <1>1, LenProperties, EmptySeq
<1>5. QED
  BY <1>1, <1>2, <1>3, <1>4 DEF FO!NoDeck

(* The newest version is the file itself.                                    *)
LEMMA DeckIsAVersion ==
  ASSUME DeckFontShape, fontDeck # FO!NoDeck
  PROVE  fontDeck \in FontVersions /\ SubSeq(fontDeck, 1, Len(fontDeck)) = fontDeck
<1>1. fontDeck \in Seq(FO!Elements) /\ Len(fontDeck) \in Nat /\ Len(fontDeck) > 0
  BY DeckFontTypes
<1>2. SubSeq(fontDeck, 1, Len(fontDeck)) = fontDeck
  BY <1>1, SubSeqFull
<1>3. Len(fontDeck) \in 1..Len(fontDeck)
  BY <1>1
<1>4. QED
  BY <1>2, <1>3 DEF FontVersions

LEMMA VersionsAreDecks ==
  ASSUME DeckFontShape, NEW k \in 1..Len(fontDeck)
  PROVE  SubSeq(fontDeck, 1, k) \in FontDecks /\ Len(SubSeq(fontDeck, 1, k)) = k
<1>1. fontDeck \in Seq(FO!Elements) /\ Len(fontDeck) \in Nat /\ DOMAIN fontDeck = 1..Len(fontDeck)
  BY DeckFontTypes
<1>2. \A i \in 1..k : fontDeck[i] \in FO!Elements
  BY <1>1, ElementOfSeq
<1>3. SubSeq(fontDeck, 1, k) \in Seq(FO!Elements) /\ Len(SubSeq(fontDeck, 1, k)) = k
  BY <1>1, <1>2
<1>4. SubSeq(fontDeck, 1, k) # <<>>
  BY <1>3
<1>5. QED
  BY <1>3, <1>4 DEF FontDecks, FO!NoDeck

(* No version is lost when the file is appended to.                          *)
LEMMA VersionsStay ==
  ASSUME DeckFontShape, NEW e \in FO!Elements, fontDeck' = Append(fontDeck, e)
  PROVE  /\ \A k \in 1..Len(fontDeck) : SubSeq(fontDeck', 1, k) = SubSeq(fontDeck, 1, k)
         /\ Len(fontDeck') = Len(fontDeck) + 1
         /\ FontVersions \subseteq FontVersions'
         /\ fontDeck' \in FontDecks
<1>1. fontDeck \in Seq(FO!Elements) /\ Len(fontDeck) \in Nat
  BY DeckFontTypes
<1>2. fontDeck' \in Seq(FO!Elements) /\ Len(fontDeck') = Len(fontDeck) + 1
  BY <1>1, AppendProperties
<1>3. ASSUME NEW k \in 1..Len(fontDeck) PROVE SubSeq(fontDeck', 1, k) = SubSeq(fontDeck, 1, k)
  <2>1. \A i \in 1..k : fontDeck'[i] = fontDeck[i]
    BY <1>1, AppendProperties
  <2>2. QED
    BY <1>1, <1>2, <2>1
<1>4. FontVersions \subseteq FontVersions'
  BY <1>1, <1>2, <1>3 DEF FontVersions
<1>5. fontDeck' # <<>>
  BY <1>1, <1>2
<1>6. QED
  BY <1>2, <1>3, <1>4, <1>5 DEF FontDecks, FO!NoDeck

LEMMA DeckFontEditStep ==
  ASSUME DeckFontInv, NEW e \in FO!Elements, FO!EditDeck(e) PROVE DeckFontInv'
<1>1. /\ fontDeck' = Append(fontDeck, e) /\ fontEdits < MaxFontEdits /\ fontEdits' = fontEdits + 1
      /\ total' = FO!Unknown /\ fontBackup' = fontBackup /\ fontWork' = fontWork /\ toOut' = toOut
      /\ fontStep' = fontStep /\ changed' = changed
  BY DEF FO!EditDeck
<1>2. /\ \A k \in 1..Len(fontDeck) : SubSeq(fontDeck', 1, k) = SubSeq(fontDeck, 1, k)
      /\ Len(fontDeck') = Len(fontDeck) + 1
      /\ FontVersions \subseteq FontVersions'
      /\ fontDeck' \in FontDecks
  BY <1>1, VersionsStay DEF DeckFontInv
<1>3. DeckFontShape'
  <2>1. fontEdits' \in 0..MaxFontEdits
    BY <1>1, DeckFontBounds, DeckFontTypes DEF DeckFontInv
  <2>2. QED
    BY <1>1, <1>2, <2>1 DEF DeckFontInv, DeckFontShape, FontDecks
<1>4. DeckFontWork'
  BY <1>1, <1>2 DEF DeckFontInv, DeckFontWork
<1>5. DeckFontBackup'
  <2>1. SUFFICES ASSUME fontStep = "backed", ~toOut
        PROVE  \E n \in 0..fontEdits' :
                 n < Len(fontDeck') /\ fontBackup = SubSeq(fontDeck', 1, Len(fontDeck') - n)
    BY <1>1 DEF DeckFontBackup
  <2>2. PICK n \in 0..fontEdits : n < Len(fontDeck) /\ fontBackup = SubSeq(fontDeck, 1, Len(fontDeck) - n)
    BY <2>1 DEF DeckFontInv, DeckFontBackup
  <2>3. Len(fontDeck) \in Nat /\ fontEdits \in Nat
    BY DeckFontTypes DEF DeckFontInv
  <2>4. Len(fontDeck) - n \in 1..Len(fontDeck)
    BY <2>2, <2>3
  <2>5. fontBackup = SubSeq(fontDeck', 1, Len(fontDeck) - n)
    BY <1>2, <2>2, <2>4
  <2>6. n + 1 \in 0..fontEdits' /\ n + 1 < Len(fontDeck') /\ Len(fontDeck') - (n + 1) = Len(fontDeck) - n
    BY <1>1, <1>2, <2>2, <2>3
  <2>7. QED
    BY <2>5, <2>6
<1>6. DeckFontMoving'
  BY <1>1, <1>2 DEF DeckFontInv, DeckFontMoving, FontDecks
<1>7. QED
  BY <1>3, <1>4, <1>5, <1>6 DEF DeckFontInv

(* Until it writes its result the run leaves the deck file as it is.         *)
LEMMA DeckFontRunStep ==
  ASSUME DeckFontInv, FO!Report \/ FO!Load \/ FO!Apply \/ FO!Save \/ FO!Backup
  PROVE  DeckFontInv'
<1> USE DEF FO!Report, FO!Load, FO!Apply, FO!Save, FO!Backup
<1>1. fontDeck' = fontDeck /\ fontEdits' = fontEdits
  OBVIOUS
<1>2. fontDeck # FO!NoDeck
  BY DEF DeckFontInv, DeckFontMoving
<1>3. DeckFontShape'
  <2>1. fontStep' \in {"idle", "loaded", "retargeted", "saved", "backed", "moving"}
    OBVIOUS
  <2>2. total' # FO!Unknown => total' = FO!Matched(fontDeck)
    BY DEF DeckFontInv, DeckFontShape
  <2>3. QED
    BY <1>1, <2>1, <2>2 DEF DeckFontInv, DeckFontShape, FO!Matched
<1>4. FontVersions' = FontVersions
  BY <1>1 DEF FontVersions
<1>5. DeckFontWork'
  <2>1. CASE FO!Report
    BY <1>4, <2>1 DEF DeckFontInv, DeckFontWork
  <2>2. CASE FO!Load
    BY <1>2, <1>4, <2>2, DeckIsAVersion DEF DeckFontInv, DeckFontWork
  <2>3. CASE FO!Apply
    <3>1. fontWork \in FontVersions /\ fontWork' = FO!Retargeted(fontWork) /\ changed' = FO!Matched(fontWork)
          /\ fontStep' \in {"idle", "retargeted"}
      BY <2>3 DEF DeckFontInv, DeckFontWork
    <3>2. QED
      BY <1>4, <3>1 DEF DeckFontWork
  <2>4. CASE FO!Save \/ FO!Backup
    <3>1. /\ fontStep \in {"retargeted", "saved"} /\ fontStep' \in {"saved", "backed"}
          /\ fontWork' = fontWork /\ changed' = changed
      BY <2>4
    <3>2. QED
      BY <1>4, <3>1 DEF DeckFontInv, DeckFontWork
  <2>5. QED
    BY <2>1, <2>2, <2>3, <2>4
<1>6. DeckFontBackup'
  <2>1. CASE FO!Backup
    <3>1. fontBackup' = fontDeck
      BY <2>1
    <3>2. 0 \in 0..fontEdits /\ Len(fontDeck) \in Nat /\ 0 < Len(fontDeck)
      BY <1>2, DeckFontTypes DEF DeckFontInv
    <3>3. fontBackup' = SubSeq(fontDeck, 1, Len(fontDeck) - 0)
      BY <1>2, <3>1, <3>2, DeckIsAVersion DEF DeckFontInv
    <3>4. /\ 0 \in 0..fontEdits' /\ 0 < Len(fontDeck')
          /\ fontBackup' = SubSeq(fontDeck', 1, Len(fontDeck') - 0)
      BY <1>1, <3>2, <3>3
    <3>5. QED
      BY <3>4 DEF DeckFontBackup
  <2>2. CASE FO!Save
    <3>1. fontStep' = "backed" => toOut' = TRUE
      BY <2>2
    <3>2. QED
      BY <3>1 DEF DeckFontBackup
  <2>3. CASE FO!Report \/ FO!Load \/ FO!Apply
    <3>1. fontStep' # "backed"
      BY <2>3
    <3>2. QED
      BY <3>1 DEF DeckFontBackup
  <2>4. QED
    BY <2>1, <2>2, <2>3
<1>7. DeckFontMoving'
  BY <1>1, <1>2 DEF DeckFontMoving, FO!NoDeck
<1>8. QED
  BY <1>3, <1>5, <1>6, <1>7 DEF DeckFontInv

(* What a run retargets stays a sequence of font elements.                   *)
LEMMA RetargetedDeck ==
  ASSUME NEW d \in Seq(FO!Elements)
  PROVE  /\ FO!Retargeted(d) \in Seq(FO!Elements)
         /\ DOMAIN FO!Retargeted(d) = DOMAIN d
<1>1. FO!Target \in Typefaces
  BY DeckFontAssumption DEF FO!Target
<1>2. \A i \in DOMAIN d : d[i] \in FO!Elements
  BY ElementOfSeq, LenProperties
<1>3. \A i \in DOMAIN d : [d[i] EXCEPT !.font = FO!Target] \in FO!Elements
  BY <1>1, <1>2 DEF FO!Elements
<1>4. \A i \in 1..Len(d) : FO!Retargeted(d)[i] \in FO!Elements
  BY <1>2, <1>3, LenProperties DEF FO!Retargeted
<1>5. FO!Retargeted(d) \in [1..Len(d) -> FO!Elements] /\ DOMAIN FO!Retargeted(d) = DOMAIN d
  BY <1>4, LenProperties DEF FO!Retargeted
<1>6. QED
  BY <1>5, SeqDef, LenProperties

(* What a run is about to write is a whole deck, and so is its backup.       *)
LEMMA DeckFontResult ==
  ASSUME DeckFontInv, fontStep = "backed"
  PROVE  fontWork \in FontDecks /\ (~toOut => fontBackup \in FontDecks)
<1>1. PICK k \in 1..Len(fontDeck) : fontWork = FO!Retargeted(SubSeq(fontDeck, 1, k))
  BY DEF DeckFontInv, DeckFontWork, FontVersions
<1>2. SubSeq(fontDeck, 1, k) \in FontDecks
  BY VersionsAreDecks DEF DeckFontInv
<1>3. fontWork \in Seq(FO!Elements) /\ DOMAIN fontWork = DOMAIN SubSeq(fontDeck, 1, k)
  BY <1>1, <1>2, RetargetedDeck DEF FontDecks
<1>4. fontWork # <<>>
  <2>1. Len(SubSeq(fontDeck, 1, k)) = k /\ k \in Nat /\ k >= 1
    BY VersionsAreDecks, DeckFontTypes DEF DeckFontInv
  <2>2. 1 \in DOMAIN fontWork
    BY <1>2, <1>3, <2>1, LenProperties DEF FontDecks
  <2>3. QED
    BY <2>2
<1>5. ASSUME ~toOut PROVE fontBackup \in FontDecks
  <2>1. PICK n \in 0..fontEdits : n < Len(fontDeck) /\ fontBackup = SubSeq(fontDeck, 1, Len(fontDeck) - n)
    BY <1>5 DEF DeckFontInv, DeckFontBackup
  <2>2. Len(fontDeck) \in Nat /\ fontEdits \in Nat
    BY DeckFontTypes DEF DeckFontInv
  <2>3. Len(fontDeck) - n \in 1..Len(fontDeck)
    BY <2>1, <2>2
  <2>4. QED
    BY <2>1, <2>3, VersionsAreDecks DEF DeckFontInv
<1>6. QED
  BY <1>3, <1>4, <1>5 DEF FontDecks, FO!NoDeck

(* The run ends, and leaves a whole deck.                                    *)
LEMMA DeckFontEnds ==
  ASSUME DeckFontInv, fontStep' = "idle", fontEdits' = fontEdits, fontDeck' \in FontDecks,
         total' = FO!Unknown \/ (fontDeck' = fontDeck /\ total' = total)
  PROVE  DeckFontInv'
BY DEF DeckFontInv, DeckFontShape, DeckFontWork, DeckFontBackup, DeckFontMoving, FontDecks, FO!NoDeck, FO!Matched

LEMMA DeckFontWriteStep ==
  ASSUME DeckFontInv, FO!Replace \/ FO!Move \/ FO!Moved \/ FO!Stop PROVE DeckFontInv'
<1>1. fontEdits' = fontEdits
  BY DEF FO!Replace, FO!Move, FO!Moved, FO!Stop, FO!Write
<1>2. fontStep = "backed" \/ fontStep = "moving" => fontWork \in FontDecks
  BY DeckFontResult DEF DeckFontInv, DeckFontMoving
<1>3. fontDeck = FO!NoDeck \/ fontDeck \in FontDecks
  BY DEF DeckFontInv, DeckFontShape, FontDecks
<1>4. fontDeck = FO!NoDeck => fontStep = "moving" /\ ~toOut /\ fontBackup \in FontDecks /\ total = FO!Unknown
  BY DEF DeckFontInv, DeckFontMoving
<1>5. CASE FO!Replace \/ FO!Moved
  <2>1. fontStep' = "idle" /\ fontWork \in FontDecks
    BY <1>2, <1>5 DEF FO!Replace, FO!Moved
  <2>2. \/ ~toOut /\ fontDeck' = fontWork /\ total' = FO!Unknown
        \/ toOut /\ fontDeck' = fontDeck /\ total' = total
    BY <1>5 DEF FO!Replace, FO!Moved, FO!Write
  <2>3. QED
    BY <1>1, <1>3, <1>4, <2>1, <2>2, DeckFontEnds
<1>6. CASE FO!Stop
  <2>1. /\ fontStep' = "idle" /\ total' = total
        /\ fontDeck' = IF fontDeck = FO!NoDeck THEN fontBackup ELSE fontDeck
    BY <1>6 DEF FO!Stop
  <2>2. QED
    BY <1>1, <1>3, <1>4, <2>1, DeckFontEnds
<1>7. CASE FO!Move
  <2>1. fontStep = "backed" /\ fontStep' = "moving" /\ fontWork' = fontWork /\ fontBackup' = fontBackup
        /\ toOut' = toOut /\ fontWork \in FontDecks
    BY <1>2, <1>7 DEF FO!Move, FO!Write
  <2>2. \/ ~toOut /\ fontDeck' = FO!NoDeck /\ total' = FO!Unknown
        \/ toOut /\ fontDeck' = fontDeck /\ total' = total
    BY <1>7 DEF FO!Move, FO!Write
  <2>3. DeckFontShape'
    BY <1>1, <2>1, <2>2, EmptySeq DEF DeckFontInv, DeckFontShape, FO!NoDeck, FO!Matched
  <2>4. DeckFontMoving'
    BY <1>4, <2>1, <2>2, DeckFontResult DEF DeckFontMoving, FO!NoDeck, FontDecks
  <2>5. QED
    BY <2>1, <2>3, <2>4 DEF DeckFontInv, DeckFontWork, DeckFontBackup
<1>8. QED
  BY <1>5, <1>6, <1>7

LEMMA DeckFontSteps == DeckFontInv /\ [FO!Next]_deckfont => DeckFontInv'
<1>1. CASE UNCHANGED deckfont
  BY <1>1 DEF deckfont, DeckFontInv, DeckFontShape, DeckFontWork, DeckFontBackup, DeckFontMoving,
              FontVersions, FontDecks, FO!Matched
<1>2. QED
  BY <1>1, DeckFontEditStep, DeckFontRunStep, DeckFontWriteStep DEF FO!Next

THEOREM DeckFontInvariance == Spec => []DeckFontInv
BY Behaviours, DeckFontInitially, DeckFontSteps, PTL DEF Spec

(* The version that a run replaces is the newest backup, or it is that       *)
(* backup and at most MaxFontEdits elements more.                            *)
LEMMA DeckFontBacksUp ==
  ASSUME DeckFontInv, fontStep = "backed", ~toOut
  PROVE  \/ fontBackup = fontDeck
         \/ \E n \in 1..MaxFontEdits : fontBackup = SubSeq(fontDeck, 1, Len(fontDeck) - n)
<1>1. PICK n \in 0..fontEdits : n < Len(fontDeck) /\ fontBackup = SubSeq(fontDeck, 1, Len(fontDeck) - n)
  BY DEF DeckFontInv, DeckFontBackup
<1>2. Len(fontDeck) \in Nat /\ n \in 0..MaxFontEdits
  <2>1. fontEdits \in 0..MaxFontEdits /\ MaxFontEdits \in Nat /\ Len(fontDeck) \in Nat
    BY DeckFontTypes, DeckFontBounds DEF DeckFontInv
  <2>2. fontEdits \in Nat /\ n \in Nat /\ n <= fontEdits /\ fontEdits <= MaxFontEdits
    BY <2>1, DeckFontTypes DEF DeckFontInv
  <2>3. QED
    BY <2>1, <2>2
<1>3. CASE n = 0
  <2>1. Len(fontDeck) - n = Len(fontDeck)
    BY <1>2, <1>3
  <2>2. QED
    BY <1>1, <2>1, DeckIsAVersion DEF DeckFontInv, DeckFontMoving
<1>4. CASE n # 0
  <2>1. n \in 1..MaxFontEdits
    BY <1>2, <1>4
  <2>2. QED
    BY <1>1, <2>1
<1>5. QED
  BY <1>3, <1>4

LEMMA DeckFontReplaces ==
  ASSUME DeckFontInv, FO!Next, fontStep = "backed", fontDeck' # fontDeck, fontStep' # "backed"
  PROVE  \/ fontBackup = fontDeck
         \/ \E n \in 1..MaxFontEdits : fontBackup = SubSeq(fontDeck, 1, Len(fontDeck) - n)
<1>1. fontDeck # FO!NoDeck
  BY DEF DeckFontInv, DeckFontMoving
<1>2. ~toOut
  BY <1>1 DEF FO!Next, FO!Report, FO!Load, FO!Apply, FO!Save, FO!Backup, FO!Replace, FO!Move, FO!Moved,
              FO!Write, FO!Stop, FO!EditDeck
<1>3. QED
  BY <1>2, DeckFontBacksUp

(* A deck file that is being written in place becomes the result or, when    *)
(* the run is stopped, the backup again, which nobody has touched.           *)
LEMMA DeckFontRestores ==
  ASSUME DeckFontInv, FO!Next, fontDeck = FO!NoDeck
  PROVE  fontStep = "moving" /\ fontBackup' = fontBackup /\ fontDeck' \in {fontBackup, fontWork}
<1>1. fontStep = "moving" /\ ~toOut
  BY DEF DeckFontInv, DeckFontMoving
<1>2. FO!Moved \/ FO!Stop
  BY <1>1 DEF FO!Next, FO!Report, FO!Load, FO!Apply, FO!Save, FO!Backup, FO!Replace, FO!Move, FO!EditDeck
<1>3. QED
  BY <1>1, <1>2 DEF FO!Moved, FO!Write, FO!Stop

(* No slide or note that the tool has been over names a family that it is    *)
(* there to replace.                                                         *)
LEMMA RetargetedIsClean ==
  ASSUME NEW d \in Seq(FO!Elements), NEW i \in DOMAIN FO!Retargeted(d),
         FO!Retargeted(d)[i].part # "layout", FO!Retargeted(d)[i].font.overpass
  PROVE  FO!Retargeted(d)[i].font.mono
<1>1. i \in DOMAIN d /\ d[i] \in FO!Elements
  BY RetargetedDeck, ElementOfSeq, LenProperties
<1>2. FO!Retargeted(d)[i] = IF FO!Retargets(d[i]) THEN [d[i] EXCEPT !.font = FO!Target] ELSE d[i]
  BY <1>1 DEF FO!Retargeted
<1>3. ~FO!Target.overpass
  BY DeckFontAssumption DEF FO!Target
<1>4. CASE FO!Retargets(d[i])
  <2>1. FO!Retargeted(d)[i] = [d[i] EXCEPT !.font = FO!Target]
    BY <1>2, <1>4
  <2>2. [d[i] EXCEPT !.font = FO!Target].font = FO!Target
    BY <1>1 DEF FO!Elements
  <2>3. QED
    BY <1>3, <2>1, <2>2
<1>5. CASE ~FO!Retargets(d[i])
  <2>1. FO!Retargeted(d)[i] = d[i]
    BY <1>2, <1>5
  <2>2. d[i].part \in {"slide", "notes"}
    BY <1>1, <2>1, DeckFontAssumption DEF FO!Elements
  <2>3. QED
    BY <1>5, <2>1, <2>2 DEF FO!Retargets, FO!Visited
<1>6. QED
  BY <1>4, <1>5

LEMMA DeckFontReports ==
  ASSUME DeckFontInv, fontStep = "backed"
  PROVE  /\ \A i \in DOMAIN fontWork :
              fontWork[i].part # "layout" /\ fontWork[i].font.overpass => fontWork[i].font.mono
         /\ total # FO!Unknown /\ fontWork = FO!Retargeted(fontDeck) => changed = total
<1>1. DeckFontShape /\ fontDeck # FO!NoDeck
  BY DEF DeckFontInv, DeckFontMoving
<1>2. PICK d \in FontVersions : fontWork = FO!Retargeted(d) /\ changed = FO!Matched(d)
  BY DEF DeckFontInv, DeckFontWork
<1>3. PICK k \in 1..Len(fontDeck) : d = SubSeq(fontDeck, 1, k)
  BY <1>2 DEF FontVersions
<1>4. d \in Seq(FO!Elements) /\ Len(d) = k
  BY <1>1, <1>3, VersionsAreDecks DEF FontDecks
<1>5. \A i \in DOMAIN fontWork :
        fontWork[i].part # "layout" /\ fontWork[i].font.overpass => fontWork[i].font.mono
  BY <1>2, <1>4, RetargetedIsClean
<1>6. ASSUME total # FO!Unknown, fontWork = FO!Retargeted(fontDeck) PROVE changed = total
  <2>1. fontDeck \in Seq(FO!Elements) /\ Len(fontDeck) \in Nat
    BY <1>1, DeckFontTypes
  <2>2. DOMAIN d = DOMAIN fontDeck
    BY <1>2, <1>4, <1>6, <2>1, RetargetedDeck
  <2>3. k = Len(fontDeck)
    <3>1. DOMAIN d = 1..k /\ DOMAIN fontDeck = 1..Len(fontDeck)
      BY <1>4, <2>1, LenProperties
    <3>2. 1..k = 1..Len(fontDeck)
      BY <2>2, <3>1
    <3>3. k \in Nat /\ k <= Len(fontDeck)
      BY <2>1
    <3>4. ASSUME k < Len(fontDeck) PROVE FALSE
      <4>1. Len(fontDeck) \in 1..Len(fontDeck) /\ Len(fontDeck) \notin 1..k
        BY <2>1, <3>3, <3>4
      <4>2. QED
        BY <3>2, <4>1
    <3>5. QED
      BY <2>1, <3>3, <3>4
  <2>4. d = fontDeck
    BY <1>1, <1>3, <2>3, DeckIsAVersion
  <2>5. QED
    BY <1>1, <1>2, <1>6, <2>4 DEF DeckFontShape
<1>7. QED
  BY <1>5, <1>6

-------------------------------------------------------------------------------
(* For any decks, edits and fonts: deck_edit replaces a deck by a version    *)
(* with all its edits or not at all, and the version that a run began with   *)
(* is the deck file or the backup until it ends; deck_font replaces the      *)
(* version that it has backed up, and with what its report foretold.         *)
THEOREM DecksKept == Spec => DecksAreSafe
<1>1. DeckEditInv => (tool = "deckedit" => DE!DeckIsOnDisk)
  BY DEF DeckEditInv, DeckEditShape, DeckEditFiles, DE!DeckIsOnDisk
<1>2. DeckEditInv /\ [Next]_vars => [stored' # stored => stored' = stored \o ops /\ editTodo = <<>>]_deckedit
  BY Behaviours, DeckEditReplaces
<1>3. DeckFontInv /\ [Next]_vars =>
        [/\ fontStep = "backed" /\ fontDeck' # fontDeck /\ fontStep' # "backed" =>
              \/ fontBackup = fontDeck
              \/ \E n \in 1..MaxFontEdits : fontBackup = SubSeq(fontDeck, 1, Len(fontDeck) - n)
         /\ fontDeck = FO!NoDeck =>
              fontStep = "moving" /\ fontBackup' = fontBackup /\ fontDeck' \in {fontBackup, fontWork}]_deckfont
  BY Behaviours, DeckFontReplaces, DeckFontRestores
<1>4. DeckFontInv /\ [Next]_vars =>
        [fontStep = "backed" /\ fontStep' # "backed" /\ (fontDeck' # fontDeck \/ out' # out) =>
           /\ \A i \in DOMAIN fontWork :
                fontWork[i].part # "layout" /\ fontWork[i].font.overpass => fontWork[i].font.mono
           /\ total # FO!Unknown /\ fontWork = FO!Retargeted(fontDeck) => changed = total]_deckfont
  BY DeckFontReports
<1>5. Spec => [](tool = "deckedit" => DE!DeckIsOnDisk)
  BY <1>1, DeckEditInvariance, PTL
<1>6. Spec => DE!AllOrNothing
  BY <1>2, DeckEditInvariance, PTL DEF Spec, DE!AllOrNothing, DE!vars, deckedit
<1>7. Spec => FO!ReplacedDeckIsKept
  BY <1>3, DeckFontInvariance, PTL DEF Spec, FO!ReplacedDeckIsKept, FO!vars, deckfont
<1>8. Spec => FO!ResultAsReported
  BY <1>4, DeckFontInvariance, PTL DEF Spec, FO!ResultAsReported, FO!vars, deckfont
<1>9. QED
  BY <1>5, <1>6, <1>7, <1>8, PTL DEF DecksAreSafe
===============================================================================
