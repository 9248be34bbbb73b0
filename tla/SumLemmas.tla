----------------------------- MODULE SumLemmas -----------------------------
(***************************************************************************)
(* Facts about SumFunctionOnSet of the community modules: the fold takes   *)
(* the elements in an order that nobody knows, and the sum does not depend *)
(* on it.                                                                  *)
(***************************************************************************)
EXTENDS SequenceLemmas, FiniteSetTheorems

\* The terms with indices below n are numbers.
HasTerms(f, n) == \A i \in 0..n-1 : f[i] \in Nat

\* t[s] is the sum of f over s, for each subset s of D.
IsTotal(t, f, D) ==
    /\ t \in [SUBSET D -> Nat]
    /\ t[{}] = 0
    /\ \A s \in SUBSET D : \A x \in s : t[s] = f[x] + t[s \ {x}]

\* The order in which the fold takes the elements of a set.
Pick(s) == CHOOSE x \in s : TRUE

\* g is the function by which the fold over S is defined.
IsFold(g, f, S) ==
    g = [s \in SUBSET S |-> IF s = {} THEN 0 ELSE f[Pick(s)] + g[s \ {Pick(s)}]]

\* There are such sums: one with n is f[n] and the sum without n.
LEMMA TotalExists ==
    ASSUME NEW n \in Nat, NEW f, HasTerms(f, n)
    PROVE  \E t : IsTotal(t, f, 0..n-1)
<1> DEFINE S == {m \in Nat : m <= n => \E t : IsTotal(t, f, 0..m-1)}
<1>1. 0 \in S
  <2>1. 0..0-1 = {}
    OBVIOUS
  <2>2. IsTotal([s \in SUBSET {} |-> 0], f, {})
    BY DEF IsTotal
  <2> QED BY <2>1, <2>2
<1>2. ASSUME NEW m \in Nat, m \in S PROVE m + 1 \in S
  <2> SUFFICES ASSUME m + 1 <= n PROVE \E t : IsTotal(t, f, 0..m+1-1)
    OBVIOUS
  <2>1. PICK t : IsTotal(t, f, 0..m-1)
    BY <1>2
  <2> DEFINE u == [s \in SUBSET (0..m) |->
                     IF m \in s THEN f[m] + t[s \ {m}] ELSE t[s]]
  <2>2. f[m] \in Nat
    BY DEF HasTerms
  <2>3. \A s \in SUBSET (0..m) : /\ s \ {m} \in SUBSET (0..m-1)
                                 /\ m \notin s => s \in SUBSET (0..m-1)
    OBVIOUS
  <2>4. u \in [SUBSET (0..m) -> Nat]
    BY <2>1, <2>2, <2>3 DEF IsTotal
  <2>5. u[{}] = 0
    BY <2>1 DEF IsTotal
  <2>6. ASSUME NEW s \in SUBSET (0..m), NEW x \in s
        PROVE  u[s] = f[x] + u[s \ {x}]
    <3>1. s \ {x} \in SUBSET (0..m)
      OBVIOUS
    <3>2. CASE x = m
      <4>1. u[s] = f[m] + t[s \ {m}]
        BY <3>2
      <4>2. u[s \ {x}] = t[s \ {m}]
        BY <3>1, <3>2
      <4> QED BY <3>2, <4>1, <4>2
    <3>3. CASE x # m /\ m \notin s
      <4>1. u[s] = t[s] /\ u[s \ {x}] = t[s \ {x}]
        BY <3>1, <3>3
      <4> QED BY <2>1, <2>3, <3>3, <4>1 DEF IsTotal
    <3>4. CASE x # m /\ m \in s
      <4> DEFINE r == s \ {m}
      <4>1. u[s] = f[m] + t[r]
        BY <3>4
      <4>2. r \in SUBSET (0..m-1) /\ x \in r /\ r \ {x} \in SUBSET (0..m-1)
        BY <2>3, <3>4
      <4>3. u[s \ {x}] = f[m] + t[r \ {x}]
        <5>1. m \in s \ {x} /\ (s \ {x}) \ {m} = r \ {x}
          BY <3>4
        <5> QED BY <3>1, <5>1
      <4> HIDE DEF r, u
      <4>4. t[r] = f[x] + t[r \ {x}]
        BY <2>1, <4>2 DEF IsTotal
      <4>5. f[x] \in Nat /\ t[r \ {x}] \in Nat
        BY <2>1, <4>2 DEF IsTotal, HasTerms
      <4> QED BY <2>2, <4>1, <4>3, <4>4, <4>5
    <3> QED BY <3>2, <3>3, <3>4
  <2> HIDE DEF u
  <2>7. IsTotal(u, f, 0..m)
    BY <2>4, <2>5, <2>6 DEF IsTotal
  <2>8. m + 1 - 1 = m
    OBVIOUS
  <2> QED BY <2>7, <2>8
<1> HIDE DEF S
<1>3. n \in S
  BY <1>1, <1>2, SetInduction
<1> QED BY <1>3 DEF S

\* The sums satisfy the definition of the fold ...
LEMMA TotalIsFold ==
    ASSUME NEW f, NEW D, NEW t, IsTotal(t, f, D), NEW S \in SUBSET D
    PROVE  IsFold([s \in SUBSET S |-> t[s]], f, S)
<1> DEFINE g == [s \in SUBSET S |-> t[s]]
<1>1. ASSUME NEW s \in SUBSET S
      PROVE  g[s] = IF s = {} THEN 0 ELSE f[Pick(s)] + g[s \ {Pick(s)}]
  <2>1. CASE s = {}
    BY <2>1 DEF IsTotal
  <2>2. CASE s # {}
    <3>1. Pick(s) \in s
      BY <2>2 DEF Pick
    <3>2. g[s] = t[s] /\ g[s \ {Pick(s)}] = t[s \ {Pick(s)}]
      OBVIOUS
    <3>3. t[s] = f[Pick(s)] + t[s \ {Pick(s)}]
      BY <3>1 DEF IsTotal
    <3> QED BY <2>2, <3>2, <3>3
  <2> QED BY <2>1, <2>2
<1> QED BY <1>1 DEF IsFold

\* ... and nothing else does.
LEMMA FoldIsTotal ==
    ASSUME NEW f, NEW D, IsFiniteSet(D), NEW t, IsTotal(t, f, D),
           NEW S \in SUBSET D, NEW g, IsFold(g, f, S)
    PROVE  g[S] = t[S]
<1> DEFINE N == {m \in Nat : \A s \in SUBSET S : Cardinality(s) = m => g[s] = t[s]}
<1>1. \A s \in SUBSET S : IsFiniteSet(s) /\ Cardinality(s) \in Nat
  BY FS_Subset, FS_CardinalityType
<1>2. ASSUME NEW s \in SUBSET S
      PROVE  g[s] = IF s = {} THEN 0 ELSE f[Pick(s)] + g[s \ {Pick(s)}]
  <2> DEFINE next(r) == IF r = {} THEN 0 ELSE f[Pick(r)] + g[r \ {Pick(r)}]
  <2>1. g = [r \in SUBSET S |-> next(r)]
    BY DEF IsFold
  <2> HIDE DEF next
  <2>2. g[s] = next(s)
    BY <2>1
  <2> QED BY <2>2 DEF next
<1>3. 0 \in N
  <2> SUFFICES ASSUME NEW s \in SUBSET S, Cardinality(s) = 0 PROVE g[s] = t[s]
    OBVIOUS
  <2>1. s = {}
    BY <1>1, FS_EmptySet
  <2> QED BY <1>2, <2>1 DEF IsTotal
<1>4. ASSUME NEW m \in Nat, m \in N PROVE m + 1 \in N
  <2> SUFFICES ASSUME NEW s \in SUBSET S, Cardinality(s) = m + 1 PROVE g[s] = t[s]
    OBVIOUS
  <2> DEFINE x == Pick(s)
  <2>1. s # {}
    BY FS_EmptySet
  <2>2. x \in s
    BY <2>1 DEF Pick
  <2> HIDE DEF x
  <2>3. s \ {x} \in SUBSET S /\ Cardinality(s \ {x}) = m
    BY <1>1, <2>2, FS_RemoveElement
  <2>4. g[s \ {x}] = t[s \ {x}]
    BY <1>4, <2>3
  <2>5. g[s] = f[x] + g[s \ {x}]
    BY <1>2, <2>1 DEF x
  <2>6. t[s] = f[x] + t[s \ {x}]
    BY <2>2 DEF IsTotal
  <2> QED BY <2>4, <2>5, <2>6
<1> HIDE DEF N
<1>5. Nat \subseteq N
  BY <1>3, <1>4, SetInduction
<1> QED BY <1>1, <1>5 DEF N

\* The library's sum is the sum.
LEMMA SumIsTotal ==
    ASSUME NEW f, NEW D, IsFiniteSet(D), NEW t, IsTotal(t, f, D), NEW S \in SUBSET D
    PROVE  SumFunctionOnSet(f, S) = t[S]
<1> DEFINE g == CHOOSE g : IsFold(g, f, S)
<1>1. IsFold(g, f, S)
  BY TotalIsFold
<1>2. SumFunctionOnSet(f, S) = g[S]
  BY DEF SumFunctionOnSet, FoldFunctionOnSet, MapThenFoldSet, IsFold, Pick
<1> HIDE DEF g
<1> QED BY <1>1, <1>2, FoldIsTotal

\* The sum of numbers is a number, none of them is nothing, and each of them is
\* a term of it.
LEMMA SumProperties ==
    ASSUME NEW n \in Nat, NEW f, HasTerms(f, n)
    PROVE  /\ SumFunctionOnSet(f, {}) = 0
           /\ \A S \in SUBSET (0..n-1) :
                /\ SumFunctionOnSet(f, S) \in Nat
                /\ \A x \in S : SumFunctionOnSet(f, S)
                                  = f[x] + SumFunctionOnSet(f, S \ {x})
<1> DEFINE D == 0..n-1
<1>1. IsFiniteSet(D)
  BY FS_Interval
<1>2. PICK t : IsTotal(t, f, D)
  BY TotalExists
<1> HIDE DEF D
<1>3. \A S \in SUBSET D : SumFunctionOnSet(f, S) = t[S]
  BY <1>1, <1>2, SumIsTotal
<1>4. \A S \in SUBSET D : t[S] \in Nat
  BY <1>2 DEF IsTotal
<1>5. {} \in SUBSET D /\ \A S \in SUBSET D : \A x \in S : S \ {x} \in SUBSET D
  OBVIOUS
<1>6. t[{}] = 0 /\ \A S \in SUBSET D : \A x \in S : t[S] = f[x] + t[S \ {x}]
  BY <1>2 DEF IsTotal
<1> QED BY <1>3, <1>4, <1>5, <1>6 DEF D

\* What an index adds to the sum of those below it.
LEMMA SumStep ==
    ASSUME NEW n \in Nat, NEW f, HasTerms(f, n), NEW i \in 0..n-1
    PROVE  SumFunctionOnSet(f, 0..i) = SumFunctionOnSet(f, 0..i-1) + f[i]
<1>1. 0..i \in SUBSET (0..n-1) /\ i \in 0..i /\ (0..i) \ {i} = 0..i-1
  OBVIOUS
<1>2. 0..i-1 \in SUBSET (0..n-1)
  OBVIOUS
<1>3. \A S \in SUBSET (0..n-1) :
        /\ SumFunctionOnSet(f, S) \in Nat
        /\ \A x \in S : SumFunctionOnSet(f, S) = f[x] + SumFunctionOnSet(f, S \ {x})
  BY SumProperties
<1>4. SumFunctionOnSet(f, 0..i) = f[i] + SumFunctionOnSet(f, (0..i) \ {i})
  BY <1>1, <1>3
<1>5. SumFunctionOnSet(f, 0..i-1) \in Nat
  BY <1>2, <1>3
<1>6. f[i] \in Nat
  BY DEF HasTerms
<1> HIDE DEF HasTerms
<1>7. SumFunctionOnSet(f, 0..i) = f[i] + SumFunctionOnSet(f, 0..i-1)
  BY <1>1, <1>4
<1> QED BY <1>5, <1>6, <1>7

\* The sum of the terms below an index grows with the index.
LEMMA SumGrows ==
    ASSUME NEW n \in Nat, NEW f, HasTerms(f, n), NEW j \in 0..n, NEW i \in 0..j
    PROVE  /\ SumFunctionOnSet(f, 0..i-1) \in Nat
           /\ SumFunctionOnSet(f, 0..j-1) \in Nat
           /\ SumFunctionOnSet(f, 0..i-1) <= SumFunctionOnSet(f, 0..j-1)
<1> DEFINE sum(k) == SumFunctionOnSet(f, 0..k-1)
           S == {k \in Nat : i + k <= n => sum(i) <= sum(i + k)}
<1>1. ASSUME NEW k \in 0..n PROVE sum(k) \in Nat
  <2>1. 0..k-1 \in SUBSET (0..n-1)
    OBVIOUS
  <2> QED BY <2>1, SumProperties
<1>2. ASSUME NEW k \in 0..n-1 PROVE sum(k + 1) = sum(k) + f[k] /\ f[k] \in Nat
  <2>1. k + 1 - 1 = k
    OBVIOUS
  <2> QED BY <2>1, SumStep DEF HasTerms
<1> HIDE DEF sum
<1>3. 0 \in S
  BY <1>1
<1>4. ASSUME NEW k \in Nat, k \in S PROVE k + 1 \in S
  <2> SUFFICES ASSUME i + (k + 1) <= n PROVE sum(i) <= sum(i + (k + 1))
    OBVIOUS
  <2>1. i + k \in 0..n-1 /\ i + (k + 1) = i + k + 1 /\ i \in 0..n /\ i + k \in 0..n
    OBVIOUS
  <2>2. sum(i) <= sum(i + k)
    BY <1>4, <2>1
  <2>3. sum(i + k + 1) = sum(i + k) + f[i + k] /\ f[i + k] \in Nat
    BY <1>2, <2>1
  <2>4. sum(i) \in Nat /\ sum(i + k) \in Nat
    BY <1>1, <2>1
  <2> QED BY <2>1, <2>2, <2>3, <2>4
<1> HIDE DEF S
<1>5. j - i \in S
  BY <1>3, <1>4, SetInduction
<1>6. sum(i) <= sum(j)
  <2>1. i + (j - i) = j /\ j - i \in Nat
    OBVIOUS
  <2> QED BY <1>5, <2>1 DEF S
<1>7. i \in 0..n
  OBVIOUS
<1> QED BY <1>1, <1>6, <1>7 DEF sum

\* A sum of terms of at most m.
LEMMA SumBound ==
    ASSUME NEW n \in Nat, NEW f, HasTerms(f, n), NEW m \in Nat,
           \A i \in 0..n-1 : f[i] <= m, NEW j \in 0..n
    PROVE  SumFunctionOnSet(f, 0..j-1) <= j * m
<1> DEFINE sum(k) == SumFunctionOnSet(f, 0..k-1)
           S == {k \in Nat : k <= n => sum(k) <= k * m}
<1>1. ASSUME NEW k \in 0..n PROVE sum(k) \in Nat
  <2>1. 0..k-1 \in SUBSET (0..n-1)
    OBVIOUS
  <2> QED BY <2>1, SumProperties
<1>2. ASSUME NEW k \in 0..n-1 PROVE sum(k + 1) = sum(k) + f[k] /\ f[k] \in Nat
  <2>1. k + 1 - 1 = k
    OBVIOUS
  <2> QED BY <2>1, SumStep DEF HasTerms
<1>3. sum(0) = 0
  <2>1. 0..0-1 = {}
    OBVIOUS
  <2> QED BY <2>1, SumProperties
<1> HIDE DEF sum
<1>4. 0 \in S
  BY <1>3
<1>5. ASSUME NEW k \in Nat, k \in S PROVE k + 1 \in S
  <2> SUFFICES ASSUME k + 1 <= n PROVE sum(k + 1) <= (k + 1) * m
    OBVIOUS
  <2>1. sum(k) <= k * m /\ k \in 0..n-1 /\ k \in 0..n
    BY <1>5
  <2>2. sum(k + 1) = sum(k) + f[k] /\ f[k] \in Nat /\ f[k] <= m /\ sum(k) \in Nat
    BY <1>1, <1>2, <2>1
  <2>3. (k + 1) * m = k * m + m /\ k * m \in Nat
    OBVIOUS
  <2> QED BY <2>1, <2>2, <2>3
<1> HIDE DEF S
<1>6. j \in S
  BY <1>4, <1>5, SetInduction
<1> QED BY <1>6 DEF S, sum

\* g has the terms of f in another order: its term i is term p[i] of f.
IsReordering(p, f, g, n) ==
    /\ \A i \in 0..n-1 : p[i] \in 0..n-1 /\ g[i] = f[p[i]]
    /\ \A i, j \in 0..n-1 : p[i] = p[j] => i = j

\* The sum does not care.
LEMMA SumPermuted ==
    ASSUME NEW n \in Nat, NEW f, HasTerms(f, n), NEW p, NEW g,
           IsReordering(p, f, g, n), NEW m \in 0..n
    PROVE  SumFunctionOnSet(g, 0..m-1) = SumFunctionOnSet(f, {p[i] : i \in 0..m-1})
<1> USE DEF IsReordering
<1> DEFINE image(k) == {p[i] : i \in 0..k-1}
           S == {k \in Nat : k <= n =>
                   SumFunctionOnSet(g, 0..k-1) = SumFunctionOnSet(f, image(k))}
<1>1. HasTerms(g, n)
  BY DEF HasTerms
<1>2. 0 \in S
  <2>1. 0..0-1 = {} /\ image(0) = {}
    OBVIOUS
  <2>2. SumFunctionOnSet(g, {}) = 0 /\ SumFunctionOnSet(f, {}) = 0
    BY <1>1, SumProperties
  <2> QED BY <2>1, <2>2
<1>3. ASSUME NEW k \in Nat, k \in S PROVE k + 1 \in S
  <2> SUFFICES ASSUME k + 1 <= n
               PROVE  SumFunctionOnSet(g, 0..k) = SumFunctionOnSet(f, image(k + 1))
    <3>1. k + 1 - 1 = k
      OBVIOUS
    <3> QED BY <3>1
  <2>1. k \in 0..n-1 /\ p[k] \in 0..n-1 /\ g[k] = f[p[k]]
    OBVIOUS
  <2>2. /\ image(k + 1) \in SUBSET (0..n-1) /\ p[k] \in image(k + 1)
        /\ image(k + 1) \ {p[k]} = image(k)
    <3>1. image(k + 1) = image(k) \cup {p[k]}
      <4>1. 0..k+1-1 = (0..k-1) \cup {k}
        OBVIOUS
      <4> QED BY <4>1
    <3>2. p[k] \notin image(k)
      <4> SUFFICES ASSUME NEW i \in 0..k-1, p[i] = p[k] PROVE FALSE
        OBVIOUS
      <4>1. i \in 0..n-1 /\ i # k
        OBVIOUS
      <4> QED BY <2>1, <4>1
    <3>3. image(k + 1) \in SUBSET (0..n-1)
      <4>1. \A i \in 0..k+1-1 : i \in 0..n-1
        OBVIOUS
      <4> QED BY <4>1
    <3> HIDE DEF image
    <3> QED BY <3>1, <3>2, <3>3
  <2>3. SumFunctionOnSet(g, 0..k) = SumFunctionOnSet(g, 0..k-1) + g[k]
    BY <1>1, <2>1, SumStep
  <2>4. SumFunctionOnSet(f, image(k + 1)) = f[p[k]] + SumFunctionOnSet(f, image(k))
    <3> HIDE DEF image
    <3>1. \A s \in SUBSET (0..n-1) :
            /\ SumFunctionOnSet(f, s) \in Nat
            /\ \A x \in s : SumFunctionOnSet(f, s) = f[x] + SumFunctionOnSet(f, s \ {x})
      BY SumProperties
    <3> QED BY <2>2, <3>1
  <2>5. SumFunctionOnSet(g, 0..k-1) = SumFunctionOnSet(f, image(k))
    BY <1>3
  <2>6. SumFunctionOnSet(g, 0..k-1) \in Nat /\ g[k] \in Nat
    <3>1. 0..k-1 \in SUBSET (0..n-1)
      OBVIOUS
    <3>2. SumFunctionOnSet(g, 0..k-1) \in Nat
      BY <1>1, <3>1, SumProperties
    <3> QED BY <1>1, <2>1, <3>2 DEF HasTerms
  <2> HIDE DEF image
  <2> QED BY <2>1, <2>3, <2>4, <2>5, <2>6
<1> HIDE DEF S
<1>4. m \in S
  BY <1>2, <1>3, SetInduction
<1> QED BY <1>4 DEF S

-----------------------------------------------------------------------------
(* Where the elements of a sequence of sequences are after FlattenSeq *)

\* f holds the lengths of the elements of s, counted from 0.
HasLengths(f, s) == \A i \in 0..Len(s)-1 : f[i] = Len(s[i + 1])

\* Each element of s lies in b behind those before it.
LiesIn(f, s, b) ==
    /\ Len(b) = SumFunctionOnSet(f, 0..Len(s)-1)
    /\ \A i \in 0..Len(s)-1 : \A j \in 1..Len(s[i + 1]) :
         b[SumFunctionOnSet(f, 0..i-1) + j] = s[i + 1][j]

\* The lengths are numbers.
LEMMA LengthsAreTerms ==
    ASSUME NEW S, NEW s \in Seq(Seq(S)), NEW f, HasLengths(f, s)
    PROVE  HasTerms(f, Len(s))
<1>1. Len(s) \in Nat
  BY LenProperties
<1>2. ASSUME NEW i \in 0..Len(s)-1 PROVE f[i] \in Nat
  <2>1. i + 1 \in 1..Len(s)
    BY <1>1
  <2>2. s[i + 1] \in Seq(S)
    BY <2>1, ElementOfSeq
  <2> QED BY <2>2, LenProperties DEF HasLengths
<1> QED BY <1>2 DEF HasTerms

\* One element more.
LEMMA LiesInAppend ==
    ASSUME NEW S, NEW s \in Seq(Seq(S)), NEW e \in Seq(S), NEW b \in Seq(S),
           NEW f, HasLengths(f, Append(s, e)), LiesIn(f, s, b)
    PROVE  LiesIn(f, Append(s, e), b \o e)
<1> DEFINE n == Len(s)
           t == Append(s, e)
           c == b \o e
           sum(i) == SumFunctionOnSet(f, 0..i-1)
<1>1. /\ n \in Nat /\ t \in Seq(Seq(S)) /\ Len(t) = n + 1
      /\ \A i \in 1..n : t[i] = s[i]
      /\ t[n + 1] = e
  BY AppendProperties, LenProperties
<1>2. /\ Len(b) \in Nat /\ Len(e) \in Nat /\ Len(c) = Len(b) + Len(e)
      /\ \A i \in 1..Len(b)+Len(e) : c[i] = IF i <= Len(b) THEN b[i] ELSE e[i - Len(b)]
  BY ConcatProperties, LenProperties
<1>3. HasTerms(f, n + 1)
  BY <1>1, LengthsAreTerms
<1>0. HasLengths(f, t)
  OBVIOUS
<1> HIDE DEF n, t, c
<1>4. f[n] = Len(e) /\ \A i \in 0..n-1 : f[i] = Len(s[i + 1])
  <2>1. \A i \in 0..n : f[i] = Len(t[i + 1])
    <3>1. Len(t) - 1 = n
      BY <1>1
    <3> QED BY <1>0, <3>1 DEF HasLengths
  <2>2. n \in 0..n
    BY <1>1
  <2>3. ASSUME NEW i \in 0..n-1 PROVE f[i] = Len(s[i + 1])
    <3>1. i \in 0..n /\ i + 1 \in 1..n
      BY <1>1
    <3> QED BY <1>1, <2>1, <3>1
  <2> QED BY <1>1, <2>1, <2>2, <2>3
<1>5. Len(b) = sum(n)
  BY DEF LiesIn, n
<1>6. sum(n + 1) = sum(n) + f[n]
  <2>1. n \in 0..(n+1)-1 /\ n + 1 - 1 = n /\ n + 1 \in Nat
    BY <1>1
  <2> QED BY <1>3, <2>1, SumStep
<1>7. ASSUME NEW i \in 0..n, NEW j \in 1..Len(t[i + 1])
      PROVE  c[sum(i) + j] = t[i + 1][j]
  <2>1. CASE i = n
    <3>1. t[i + 1] = e /\ sum(i) = Len(b)
      BY <1>1, <1>5, <2>1
    <3> HIDE DEF sum
    <3>2. j \in 1..Len(e) /\ Len(b) + j \in 1..Len(b)+Len(e) /\ ~(Len(b) + j <= Len(b))
          /\ Len(b) + j - Len(b) = j
      BY <1>2, <3>1
    <3> QED BY <1>2, <3>1, <3>2
  <2>2. CASE i # n
    <3>1. i \in 0..n-1 /\ i + 1 \in 1..n
      BY <1>1, <2>2
    <3>2. t[i + 1] = s[i + 1]
      BY <1>1, <3>1
    <3>3. b[sum(i) + j] = s[i + 1][j]
      BY <3>1, <3>2 DEF LiesIn, n
    <3>4. sum(i + 1) = sum(i) + f[i]
      <4>1. i \in 0..(n+1)-1 /\ i + 1 - 1 = i /\ n + 1 \in Nat
        BY <1>1
      <4> QED BY <1>3, <4>1, SumStep
    <3>5. sum(i) \in Nat /\ sum(i + 1) \in Nat /\ sum(i + 1) <= sum(n)
      <4>1. n \in 0..n+1 /\ i + 1 \in 0..n /\ i \in 0..n /\ n + 1 \in Nat
        BY <1>1, <3>1
      <4> QED BY <1>3, <4>1, SumGrows
    <3>6. f[i] = Len(t[i + 1])
      BY <1>4, <3>1, <3>2
    <3> HIDE DEF sum
    <3>7. f[i] \in Nat
      BY <1>1, <1>3, <3>1 DEF HasTerms
    <3>8. sum(i) + j \in 1..Len(b)
      <4>1. j \in 1..f[i] /\ Len(b) \in Nat
        BY <1>2, <3>6
      <4>2. sum(i) + f[i] <= Len(b)
        BY <1>5, <3>4, <3>5
      <4> QED BY <3>5, <3>7, <4>1, <4>2
    <3>9. c[sum(i) + j] = b[sum(i) + j]
      BY <1>2, <3>8
    <3> QED BY <3>2, <3>3, <3>9
  <2> QED BY <2>1, <2>2
<1>8. Len(c) = sum(Len(t))
  BY <1>1, <1>2, <1>4, <1>5, <1>6
<1>9. Len(t) - 1 = n
  BY <1>1
<1> QED BY <1>7, <1>8, <1>9 DEF LiesIn, t, c

\* After FlattenSeq each element lies behind those before it.
LEMMA FlattenPlaces ==
    ASSUME NEW S, NEW s \in Seq(Seq(S)), NEW f, HasLengths(f, s)
    PROVE  LiesIn(f, s, FlattenSeq(s))
<1> DEFINE first(m) == SubSeq(s, 1, m)
           P == {m \in Nat : m <= Len(s) => LiesIn(f, first(m), FlattenSeq(first(m)))}
<1>1. Len(s) \in Nat /\ \A i \in 1..Len(s) : s[i] \in Seq(S)
  BY LenProperties, ElementOfSeq
<1>2. ASSUME NEW m \in 0..Len(s)
      PROVE  /\ first(m) \in Seq(Seq(S)) /\ Len(first(m)) = m
             /\ \A i \in 1..m : first(m)[i] = s[i]
  <2>1. \A i \in 1..m : s[i] \in Seq(S)
    BY <1>1
  <2> QED BY <1>1, <2>1, SubSeqProperties
<1>3. 0 \in P
  <2>1. first(0) = <<>>
    BY <1>1, <1>2, EmptySeq
  <2>2. LiesIn(f, <<>>, <<>>)
    <3>1. Len(<<>>) = 0 /\ 0..0-1 = {}
      OBVIOUS
    <3>2. SumFunctionOnSet(f, {}) = 0
      BY <1>1, LengthsAreTerms, SumProperties
    <3> QED BY <3>1, <3>2 DEF LiesIn
  <2> HIDE DEF first
  <2> QED BY <2>1, <2>2, FlattenNothing
<1>4. ASSUME NEW m \in Nat, m \in P PROVE m + 1 \in P
  <2> SUFFICES ASSUME m + 1 <= Len(s)
               PROVE  LiesIn(f, first(m + 1), FlattenSeq(first(m + 1)))
    OBVIOUS
  <2>1. /\ m \in 0..Len(s) /\ m + 1 \in 0..Len(s) /\ m + 1 \in 1..Len(s)
        /\ LiesIn(f, first(m), FlattenSeq(first(m)))
    BY <1>1, <1>4
  <2>2. /\ first(m) \in Seq(Seq(S)) /\ Len(first(m)) = m
        /\ \A i \in 1..m : first(m)[i] = s[i]
        /\ first(m + 1) \in Seq(Seq(S)) /\ Len(first(m + 1)) = m + 1
        /\ \A i \in 1..m+1 : first(m + 1)[i] = s[i]
    BY <1>2, <2>1
  <2>3. s[m + 1] \in Seq(S)
    BY <1>1, <2>1
  <2> HIDE DEF first
  <2>4. first(m + 1) = Append(first(m), s[m + 1])
    <3> DEFINE a == Append(first(m), s[m + 1])
    <3>1. /\ a \in Seq(Seq(S)) /\ Len(a) = m + 1
          /\ \A i \in 1..m : a[i] = first(m)[i]
          /\ a[m + 1] = s[m + 1]
      BY <2>2, <2>3, AppendProperties
    <3> HIDE DEF a
    <3>2. ASSUME NEW i \in 1..m+1 PROVE a[i] = first(m + 1)[i]
      <4>1. i \in 1..m \/ i = m + 1
        BY <2>1
      <4>2. m + 1 \in 1..m+1
        BY <2>1
      <4> QED BY <2>2, <3>1, <4>1, <4>2
    <3>3. a = first(m + 1)
      BY <2>2, <3>1, <3>2, SeqEqual
    <3> QED BY <3>3 DEF a
  <2>5. FlattenSeq(first(m + 1)) = FlattenSeq(first(m)) \o s[m + 1]
    BY <2>2, <2>3, <2>4, FlattenAppend
  <2>6. FlattenSeq(first(m)) \in Seq(S)
    BY <2>2, FlattenType
  <2>7. HasLengths(f, first(m + 1))
    <3>1. ASSUME NEW i \in 0..m PROVE f[i] = Len(first(m + 1)[i + 1])
      <4>1. i \in 0..Len(s)-1 /\ i + 1 \in 1..m+1
        BY <1>1, <2>1
      <4> QED BY <2>2, <4>1 DEF HasLengths
    <3> QED BY <2>2, <3>1 DEF HasLengths
  <2> QED BY <2>1, <2>2, <2>3, <2>4, <2>5, <2>6, <2>7, LiesInAppend
<1> HIDE DEF P
<1>5. Len(s) \in P
  BY <1>1, <1>3, <1>4, SetInduction
<1>6. first(Len(s)) = s
  BY SubSeqFull
<1> HIDE DEF first
<1> QED BY <1>1, <1>5, <1>6 DEF P
=============================================================================
