--------------------------- MODULE SequenceLemmas ---------------------------
(***************************************************************************)
(* Facts about the operators of the community modules that the other       *)
(* modules use, for the proofs about them.                                 *)
(***************************************************************************)
EXTENDS Integers, Sequences, FiniteSetsExt, SequencesExt, SequenceTheorems,
        WellFoundedInduction, TLAPS

-----------------------------------------------------------------------------
(* Natural numbers *)

\* A set of numbers that is not empty has a least member.
LEMMA LeastMember ==
    ASSUME NEW S \in SUBSET Nat, S # {}
    PROVE  \E x \in S : \A y \in S : x <= y
<1>1. PICK x \in S : \A y \in S : <<y, x>> \notin OpToRel(<, Nat)
  BY NatLessThanWellFounded, WFMin
<1>2. ASSUME NEW y \in S PROVE x <= y
  <2>1. OpToRel(<, Nat) = {ss \in Nat \X Nat : ss[1] < ss[2]}
    BY DEF OpToRel
  <2>2. ~(y < x)
    BY <1>1, <2>1
  <2> QED BY <2>2
<1> QED BY <1>2

\* It is the one that Min returns.
LEMMA MinIsLeast ==
    ASSUME NEW S \in SUBSET Nat, S # {}
    PROVE  Min(S) \in S /\ \A y \in S : Min(S) <= y
BY LeastMember DEF Min

\* A set that contains 0, and the successor of each of its members, contains
\* every number.
LEMMA SetInduction ==
    ASSUME NEW S, 0 \in S, \A n \in Nat : n \in S => n + 1 \in S
    PROVE  Nat \subseteq S
<1> SUFFICES ASSUME Nat \ S # {} PROVE FALSE
  OBVIOUS
<1>1. PICK m \in Nat \ S : \A y \in Nat \ S : m <= y
  BY LeastMember
<1>2. m # 0 /\ m - 1 \in Nat
  BY <1>1
<1>3. m - 1 \in S
  BY <1>1, <1>2
<1> QED BY <1>1, <1>2, <1>3

-----------------------------------------------------------------------------
(* Finding and removing *)

\* SelectInSeq finds the first place of an element.
LEMMA FirstPlace ==
    ASSUME NEW S, NEW s \in Seq(S), NEW v, \E i \in 1..Len(s) : s[i] = v
    PROVE  LET i == SelectInSeq(s, LAMBDA b : b = v)
           IN  i \in 1..Len(s) /\ s[i] = v /\ \A j \in 1..i-1 : s[j] # v
<1> DEFINE I == {i \in 1..Len(s) : s[i] = v}
<1>1. I # {} /\ I \in SUBSET Nat
  OBVIOUS
<1>2. Min(I) \in I /\ \A j \in I : Min(I) <= j
  BY <1>1, MinIsLeast
<1>3. SelectInSeq(s, LAMBDA b : b = v) = Min(I)
  BY <1>1 DEF SelectInSeq
<1>4. ASSUME NEW j \in 1..Min(I)-1 PROVE s[j] # v
  BY <1>2, <1>4
<1> QED BY <1>2, <1>3, <1>4

\* Without one of its elements, a sequence that has no duplicates has the others,
\* and still no duplicates.
LEMMA WithoutOne ==
    ASSUME NEW S, NEW s \in Seq(S), IsInjective(s), NEW v \in ToSet(s)
    PROVE  /\ RemoveFirst(s, v) \in Seq(S)
           /\ IsInjective(RemoveFirst(s, v))
           /\ ToSet(RemoveFirst(s, v)) = ToSet(s) \ {v}
<1> DEFINE k == SelectInSeq(s, LAMBDA b : b = v)
           a == SubSeq(s, 1, k - 1)
           b == SubSeq(s, k + 1, Len(s))
           r == RemoveFirst(s, v)
<1>1. Len(s) \in Nat /\ DOMAIN s = 1..Len(s) /\ \A i \in 1..Len(s) : s[i] \in S
  BY LenProperties, ElementOfSeq
<1>2. \E i \in 1..Len(s) : s[i] = v
  BY <1>1 DEF ToSet
<1>3. k \in 1..Len(s) /\ s[k] = v
  BY <1>2, FirstPlace
<1>4. r = a \o b
  BY <1>2 DEF RemoveFirst, RemoveAt
<1>5. /\ a \in Seq(S) /\ Len(a) = k - 1
      /\ \A i \in 1..k-1 : a[i] = s[i]
  <2> HIDE DEF k
  <2>1. \A i \in 1..k-1 : s[i] \in S
    BY <1>1, <1>3
  <2>2. 1 \in Int /\ k - 1 \in Int
    BY <1>1, <1>3
  <2> HIDE DEF a
  <2> QED BY <1>1, <1>3, <2>1, <2>2, SubSeqProperties DEF a
<1>6. /\ b \in Seq(S) /\ Len(b) = Len(s) - k
      /\ \A i \in 1..Len(s)-k : b[i] = s[k + i]
  <2> HIDE DEF k
  <2>1. \A i \in k+1..Len(s) : s[i] \in S
    BY <1>1, <1>3
  <2>2. k + 1 \in Int /\ Len(s) \in Int
    BY <1>1, <1>3
  <2>3. /\ b \in Seq(S) /\ Len(b) = IF k + 1 <= Len(s) THEN Len(s) - (k + 1) + 1 ELSE 0
        /\ \A i \in 1..Len(s)-(k+1)+1 : b[i] = s[k + 1 + i - 1]
    BY <2>1, <2>2, SubSeqProperties
  <2> HIDE DEF b
  <2>4. Len(b) = Len(s) - k
    <3>1. k \in Nat /\ Len(s) \in Nat /\ k <= Len(s)
      BY <1>1, <1>3
    <3>2. Len(b) = IF k + 1 <= Len(s) THEN Len(s) - (k + 1) + 1 ELSE 0
      BY <2>3
    <3> QED BY <3>1, <3>2
  <2>5. ASSUME NEW i \in 1..Len(s)-k PROVE b[i] = s[k + i]
    <3>1. i \in 1..Len(s)-(k+1)+1 /\ k + 1 + i - 1 = k + i
      BY <1>1, <1>3
    <3> QED BY <2>3, <3>1
  <2> QED BY <2>3, <2>4, <2>5
<1> HIDE DEF k, a, b, r
<1>7. /\ r \in Seq(S) /\ Len(r) = Len(s) - 1
      /\ \A i \in 1..Len(s)-1 : r[i] = IF i <= k - 1 THEN a[i] ELSE b[i - (k - 1)]
  <2>1. /\ a \o b \in Seq(S)
        /\ Len(a \o b) = Len(a) + Len(b)
        /\ \A i \in 1..Len(a)+Len(b) : (a \o b)[i] = IF i <= Len(a) THEN a[i] ELSE b[i - Len(a)]
    BY <1>5, <1>6, ConcatProperties
  <2>2. Len(a) + Len(b) = Len(s) - 1
    BY <1>1, <1>3, <1>5, <1>6
  <2> QED BY <1>4, <1>5, <2>1, <2>2
<1>8. \A i \in 1..Len(s)-1 : r[i] = IF i < k THEN s[i] ELSE s[i + 1]
  BY <1>1, <1>3, <1>5, <1>6, <1>7
<1>9. DOMAIN r = 1..Len(s)-1
  BY <1>7, LenProperties
<1>10. IsInjective(r)
  <2>1. \A i, j \in 1..Len(s) : s[i] = s[j] => i = j
    BY <1>1 DEF IsInjective
  <2>2. ASSUME NEW i \in 1..Len(s)-1, NEW j \in 1..Len(s)-1, r[i] = r[j]
        PROVE  i = j
    <3> DEFINE place(m) == IF m < k THEN m ELSE m + 1
    <3>1. \A m \in 1..Len(s)-1 : place(m) \in 1..Len(s) /\ r[m] = s[place(m)]
      BY <1>1, <1>3, <1>8
    <3>2. place(i) = place(j)
      <4> HIDE DEF place
      <4> QED BY <2>1, <2>2, <3>1
    <3> QED BY <1>1, <1>3, <3>2
  <2> QED BY <1>9, <2>2 DEF IsInjective
<1>11. ToSet(r) = ToSet(s) \ {v}
  <2>1. ASSUME NEW x \in ToSet(r) PROVE x \in ToSet(s) \ {v}
    <3>1. PICK i \in 1..Len(s)-1 : x = r[i]
      BY <1>9 DEF ToSet
    <3>2. PICK j \in 1..Len(s) : x = s[j] /\ j # k
      BY <1>1, <1>3, <1>8, <3>1
    <3> QED BY <1>1, <1>3, <3>2 DEF ToSet, IsInjective
  <2>2. ASSUME NEW x \in ToSet(s) \ {v} PROVE x \in ToSet(r)
    <3>1. PICK j \in 1..Len(s) : x = s[j] /\ j # k
      BY <1>1, <1>3 DEF ToSet
    <3>2. PICK i \in 1..Len(s)-1 : x = r[i]
      <4>1. CASE j < k
        BY <1>1, <1>3, <1>8, <3>1, <4>1
      <4>2. CASE j > k
        <5>1. j - 1 \in 1..Len(s)-1 /\ ~(j - 1 < k) /\ (j - 1) + 1 = j
          BY <1>1, <1>3, <4>2
        <5> QED BY <1>8, <3>1, <5>1
      <4> QED BY <1>1, <1>3, <3>1, <4>1, <4>2
    <3> QED BY <1>9, <3>2 DEF ToSet
  <2> QED BY <2>1, <2>2
<1> QED BY <1>7, <1>10, <1>11 DEF r
\* The empty sequence has no elements, and so no duplicates.
LEMMA NothingInside == IsInjective(<<>>) /\ ToSet(<<>>) = {}
BY DEF IsInjective, ToSet

\* A new element put in front of a sequence that has no duplicates.
LEMMA WithFirst ==
    ASSUME NEW S, NEW s \in Seq(S), IsInjective(s), NEW v \in S, v \notin ToSet(s)
    PROVE  /\ <<v>> \o s \in Seq(S)
           /\ IsInjective(<<v>> \o s)
           /\ ToSet(<<v>> \o s) = ToSet(s) \cup {v}
<1> DEFINE r == <<v>> \o s
<1>1. Len(s) \in Nat /\ DOMAIN s = 1..Len(s) /\ \A i \in 1..Len(s) : s[i] \in S
  BY LenProperties, ElementOfSeq
<1>2. <<v>> \in Seq(S) /\ Len(<<v>>) = 1 /\ <<v>>[1] = v
  OBVIOUS
<1>3. /\ r \in Seq(S) /\ Len(r) = 1 + Len(s)
      /\ \A i \in 1..1+Len(s) : r[i] = IF i <= 1 THEN <<v>>[i] ELSE s[i - 1]
  BY <1>2, ConcatProperties
<1> HIDE DEF r
<1>4. \A i \in 1..1+Len(s) : r[i] = IF i = 1 THEN v ELSE s[i - 1]
  BY <1>1, <1>2, <1>3
<1>5. DOMAIN r = 1..1+Len(s)
  BY <1>3, LenProperties
<1>6. \A i \in 1..Len(s) : s[i] # v
  BY <1>1 DEF ToSet
<1>7. IsInjective(r)
  <2> SUFFICES ASSUME NEW i \in 1..1+Len(s), NEW j \in 1..1+Len(s), r[i] = r[j]
               PROVE  i = j
    BY <1>5 DEF IsInjective
  <2>1. CASE i = 1 \/ j = 1
    BY <1>1, <1>4, <1>6, <2>1
  <2>2. CASE i # 1 /\ j # 1
    <3>1. i - 1 \in 1..Len(s) /\ j - 1 \in 1..Len(s) /\ s[i - 1] = s[j - 1]
      BY <1>1, <1>4, <2>2
    <3>2. i - 1 = j - 1
      BY <1>1, <3>1 DEF IsInjective
    <3> QED BY <1>1, <3>2
  <2> QED BY <2>1, <2>2
<1>8. ToSet(r) = ToSet(s) \cup {v}
  <2>1. ASSUME NEW x \in ToSet(r) PROVE x \in ToSet(s) \cup {v}
    <3>1. PICK i \in 1..1+Len(s) : x = r[i]
      BY <1>5 DEF ToSet
    <3>2. i = 1 \/ i - 1 \in 1..Len(s)
      BY <1>1
    <3> QED BY <1>1, <1>4, <3>1, <3>2 DEF ToSet
  <2>2. ASSUME NEW x \in ToSet(s) PROVE x \in ToSet(r)
    <3>1. PICK i \in 1..Len(s) : x = s[i]
      BY <1>1 DEF ToSet
    <3>2. i + 1 \in 1..1+Len(s) /\ r[i + 1] = s[i + 1 - 1] /\ i + 1 - 1 = i
      BY <1>1, <1>4
    <3> QED BY <1>5, <3>1, <3>2 DEF ToSet
  <2>3. v \in ToSet(r)
    <3>1. 1 \in 1..1+Len(s) /\ r[1] = v
      BY <1>1, <1>4
    <3> QED BY <1>5, <3>1 DEF ToSet
  <2> QED BY <2>1, <2>2, <2>3
<1> QED BY <1>3, <1>7, <1>8 DEF r

\* The elements behind the first of a sequence that has no duplicates.
LEMMA WithoutFirst ==
    ASSUME NEW S, NEW s \in Seq(S), IsInjective(s), s # <<>>
    PROVE  /\ Head(s) \in ToSet(s)
           /\ Tail(s) \in Seq(S)
           /\ IsInjective(Tail(s))
           /\ ToSet(Tail(s)) = ToSet(s) \ {Head(s)}
<1> DEFINE r == Tail(s)
<1>1. Len(s) \in Nat \ {0} /\ DOMAIN s = 1..Len(s)
  BY LenProperties, EmptySeq
<1>2. Head(s) = s[1]
  BY <1>1
<1>3. r \in Seq(S) /\ Len(r) = Len(s) - 1 /\ \A i \in 1..Len(r) : r[i] = s[i + 1]
  BY HeadTailProperties
<1> HIDE DEF r
<1>4. DOMAIN r = 1..Len(s)-1
  BY <1>3, LenProperties
<1>5. \A i \in 1..Len(s)-1 : i + 1 \in 1..Len(s) /\ r[i] = s[i + 1]
  BY <1>1, <1>3
<1>6. IsInjective(r)
  <2> SUFFICES ASSUME NEW i \in 1..Len(s)-1, NEW j \in 1..Len(s)-1, r[i] = r[j]
               PROVE  i = j
    BY <1>4 DEF IsInjective
  <2>1. s[i + 1] = s[j + 1]
    BY <1>5
  <2>2. i + 1 = j + 1
    BY <1>1, <1>5, <2>1 DEF IsInjective
  <2> QED BY <1>1, <2>2
<1>7. ToSet(r) = ToSet(s) \ {Head(s)}
  <2>1. ASSUME NEW x \in ToSet(r) PROVE x \in ToSet(s) /\ x # s[1]
    <3>1. PICK i \in 1..Len(s)-1 : x = r[i]
      BY <1>4 DEF ToSet
    <3>2. i + 1 \in 1..Len(s) /\ x = s[i + 1] /\ i + 1 # 1 /\ 1 \in 1..Len(s)
      BY <1>1, <1>5, <3>1
    <3> QED BY <1>1, <3>2 DEF ToSet, IsInjective
  <2>2. ASSUME NEW x \in ToSet(s), x # s[1] PROVE x \in ToSet(r)
    <3>1. PICK i \in 1..Len(s) : x = s[i] /\ i # 1
      BY <1>1, <2>2 DEF ToSet
    <3>2. i - 1 \in 1..Len(s)-1 /\ i - 1 + 1 = i
      BY <1>1, <3>1
    <3>3. r[i - 1] = x
      BY <1>5, <3>1, <3>2
    <3> QED BY <1>4, <3>2, <3>3 DEF ToSet
  <2> QED BY <1>2, <2>1, <2>2
<1>8. s[1] \in ToSet(s)
  BY <1>1 DEF ToSet
<1> QED BY <1>2, <1>3, <1>6, <1>7, <1>8 DEF r

\* What is in two sequences is in one of them.
LEMMA InsideBoth ==
    ASSUME NEW S, NEW s \in Seq(S), NEW t \in Seq(S)
    PROVE  ToSet(s \o t) = ToSet(s) \cup ToSet(t)
<1>1. /\ ToSet(s) = Range(s) /\ ToSet(t) = Range(t)
      /\ ToSet(s \o t) = Range(s \o t)
  BY DEF Range, ToSet
<1> QED BY <1>1, RangeConcatenation

-----------------------------------------------------------------------------
(* Concatenating a sequence of sequences *)

\* f[i] is the concatenation of the first i elements of s, for i up to n.
IsConcatenation(f, s, n) ==
    f = [i \in 1..n |-> IF i = 1 THEN s[i] ELSE f[i - 1] \o s[i]]

\* An element of the function follows from the one before.
LEMMA ConcatenationStep ==
    ASSUME NEW s, NEW n, NEW f, IsConcatenation(f, s, n), NEW i \in 1..n
    PROVE  f[i] = IF i = 1 THEN s[i] ELSE f[i - 1] \o s[i]
<1> DEFINE next(j) == IF j = 1 THEN s[j] ELSE f[j - 1] \o s[j]
<1>1. f = [j \in 1..n |-> next(j)]
  BY DEF IsConcatenation
<1> HIDE DEF next
<1>2. f[i] = next(i)
  BY <1>1
<1> QED BY <1>2 DEF next

\* The function by which FlattenSeq is defined exists.
LEMMA ConcatenationExists ==
    ASSUME NEW s, NEW n \in Nat
    PROVE  \E f : IsConcatenation(f, s, n)
<1> DEFINE S == {m \in Nat : \E f : IsConcatenation(f, s, m)}
<1>1. 0 \in S
  <2>1. IsConcatenation([i \in 1..0 |-> s[i]], s, 0)
    BY DEF IsConcatenation
  <2> QED BY <2>1
<1>2. ASSUME NEW m \in Nat, m \in S PROVE m + 1 \in S
  <2>1. PICK f : IsConcatenation(f, s, m)
    BY <1>2
  <2> DEFINE next(i) == IF i = 1 THEN s[i] ELSE f[i - 1] \o s[i]
             g == [i \in 1..m+1 |-> IF i <= m THEN f[i] ELSE next(i)]
  <2>2. ASSUME NEW i \in 1..m+1
        PROVE  g[i] = IF i = 1 THEN s[i] ELSE g[i - 1] \o s[i]
    <3>1. i # 1 => g[i - 1] = f[i - 1]
      OBVIOUS
    <3>2. i <= m => f[i] = next(i)
      BY <2>1, ConcatenationStep
    <3> QED BY <3>1, <3>2
  <2>3. g = [i \in 1..m+1 |-> IF i = 1 THEN s[i] ELSE g[i - 1] \o s[i]]
    BY <2>2
  <2>4. IsConcatenation(g, s, m + 1)
    BY <2>3 DEF IsConcatenation
  <2> QED BY <2>4
<1> HIDE DEF S
<1>3. n \in S
  BY <1>1, <1>2, SetInduction
<1> QED BY <1>3 DEF S

\* ... and is what FlattenSeq evaluates.
LEMMA FlattenSeqDef ==
    ASSUME NEW T, NEW s \in Seq(T), s # <<>>
    PROVE  \E f : IsConcatenation(f, s, Len(s)) /\ FlattenSeq(s) = f[Len(s)]
<1> DEFINE f == CHOOSE f : f = [i \in 1..Len(s) |->
                                  IF i = 1 THEN s[i] ELSE f[i - 1] \o s[i]]
<1>1. Len(s) \in Nat \ {0}
  BY EmptySeq
<1>2. IsConcatenation(f, s, Len(s))
  BY <1>1, ConcatenationExists DEF IsConcatenation
<1>3. FlattenSeq(s) = f[Len(s)]
  BY <1>1 DEF FlattenSeq
<1> QED BY <1>2, <1>3

\* f and g have the same first k elements.
SameUpTo(f, g, k) == \A i \in 1..k : f[i] = g[i]

\* Two of them agree as far as their sequences do.
LEMMA ConcatenationsAgree ==
    ASSUME NEW s, NEW t, NEW m \in Nat, NEW n \in Nat, NEW k \in Nat,
           k <= m, k <= n, SameUpTo(s, t, k),
           NEW f, IsConcatenation(f, s, m), NEW g, IsConcatenation(g, t, n)
    PROVE  SameUpTo(f, g, k)
<1> USE DEF SameUpTo
<1> DEFINE S == {i \in Nat : i \in 1..k => f[i] = g[i]}
<1>1. \A i \in 1..k : /\ f[i] = IF i = 1 THEN s[i] ELSE f[i - 1] \o s[i]
                      /\ g[i] = IF i = 1 THEN t[i] ELSE g[i - 1] \o t[i]
  BY ConcatenationStep
<1>2. 0 \in S
  OBVIOUS
<1>3. ASSUME NEW i \in Nat, i \in S PROVE i + 1 \in S
  <2>1. CASE i = 0
    BY <1>1, <2>1
  <2>2. CASE i # 0
    <3> SUFFICES ASSUME i + 1 \in 1..k PROVE f[i + 1] = g[i + 1]
      OBVIOUS
    <3>1. i \in 1..k /\ f[i] = g[i]
      BY <1>3, <2>2
    <3>2. i + 1 # 1 /\ i + 1 - 1 = i
      BY <2>2
    <3>3. /\ f[i + 1] = IF i + 1 = 1 THEN s[i + 1] ELSE f[i + 1 - 1] \o s[i + 1]
          /\ g[i + 1] = IF i + 1 = 1 THEN t[i + 1] ELSE g[i + 1 - 1] \o t[i + 1]
      BY <1>1
    <3>4. s[i + 1] = t[i + 1]
      OBVIOUS
    <3> QED BY <3>1, <3>2, <3>3, <3>4
  <2> QED BY <2>1, <2>2
<1> HIDE DEF S
<1>4. Nat \subseteq S
  BY <1>2, <1>3, SetInduction
<1> QED BY <1>4 DEF S

\* Nothing is made of nothing.
LEMMA FlattenNothing == FlattenSeq(<<>>) = <<>>
BY DEF FlattenSeq

\* The last element comes last.
LEMMA FlattenAppend ==
    ASSUME NEW S, NEW s \in Seq(Seq(S)), NEW e \in Seq(S)
    PROVE  FlattenSeq(Append(s, e)) = FlattenSeq(s) \o e
<1> DEFINE t == Append(s, e)
<1>1. /\ t \in Seq(Seq(S)) /\ t # <<>> /\ Len(t) = Len(s) + 1
      /\ \A i \in 1..Len(s) : t[i] = s[i]
      /\ t[Len(s) + 1] = e
      /\ Len(s) \in Nat
  BY AppendProperties, LenProperties
<1> HIDE DEF t
<1>2. PICK g : IsConcatenation(g, t, Len(t)) /\ FlattenSeq(t) = g[Len(t)]
  BY <1>1, FlattenSeqDef
<1>3. g[Len(s) + 1] = IF Len(s) + 1 = 1 THEN e ELSE g[Len(s) + 1 - 1] \o e
  <2>1. Len(s) + 1 \in 1..Len(t)
    BY <1>1
  <2> QED BY <1>1, <1>2, <2>1, ConcatenationStep
<1>4. CASE s = <<>>
  <2>1. FlattenSeq(t) = e
    BY <1>1, <1>2, <1>3, <1>4
  <2> QED BY <1>4, <2>1, FlattenNothing, ConcatEmptySeq DEF t
<1>5. CASE s # <<>>
  <2>1. PICK f : IsConcatenation(f, s, Len(s)) /\ FlattenSeq(s) = f[Len(s)]
    BY <1>5, FlattenSeqDef
  <2>2. Len(s) \in 1..Len(s)
    BY <1>5, EmptySeq
  <2>3. f[Len(s)] = g[Len(s)]
    <3>1. Len(t) \in Nat /\ Len(s) <= Len(s) /\ Len(s) <= Len(t)
      BY <1>1
    <3>2. SameUpTo(s, t, Len(s))
      BY <1>1 DEF SameUpTo
    <3>3. SameUpTo(f, g, Len(s))
      BY <1>1, <1>2, <2>1, <3>1, <3>2, ConcatenationsAgree
    <3> QED BY <2>2, <3>3 DEF SameUpTo
  <2>4. FlattenSeq(t) = g[Len(s)] \o e
    BY <1>1, <1>2, <1>3, <2>2
  <2> QED BY <2>1, <2>3, <2>4 DEF t
<1> QED BY <1>4, <1>5

\* Sequences over S make a sequence over S.
LEMMA FlattenType ==
    ASSUME NEW S, NEW s \in Seq(Seq(S))
    PROVE  FlattenSeq(s) \in Seq(S)
<1>1. CASE s = <<>>
  BY <1>1, FlattenNothing, EmptySeq
<1>2. CASE s # <<>>
  <2>1. PICK f : IsConcatenation(f, s, Len(s)) /\ FlattenSeq(s) = f[Len(s)]
    BY <1>2, FlattenSeqDef
  <2>2. Len(s) \in Nat \ {0} /\ \A i \in 1..Len(s) : s[i] \in Seq(S)
    BY <1>2, EmptySeq, ElementOfSeq
  <2> DEFINE T == {i \in Nat : i \in 1..Len(s) => f[i] \in Seq(S)}
  <2>3. 0 \in T
    OBVIOUS
  <2>4. ASSUME NEW i \in Nat, i \in T PROVE i + 1 \in T
    <3> SUFFICES ASSUME i + 1 \in 1..Len(s) PROVE f[i + 1] \in Seq(S)
      OBVIOUS
    <3>1. f[i + 1] = IF i + 1 = 1 THEN s[i + 1] ELSE f[i + 1 - 1] \o s[i + 1]
      BY <2>1, ConcatenationStep
    <3>2. CASE i = 0
      BY <2>2, <3>1, <3>2
    <3>3. CASE i # 0
      <4>1. f[i] \in Seq(S)
        BY <2>4, <3>3
      <4>2. i + 1 # 1 /\ i + 1 - 1 = i
        BY <3>3
      <4>3. f[i + 1] = f[i] \o s[i + 1]
        BY <3>1, <4>2
      <4> QED BY <2>2, <4>1, <4>3, ConcatProperties
    <3> QED BY <3>2, <3>3
  <2> HIDE DEF T
  <2>5. Nat \subseteq T
    BY <2>3, <2>4, SetInduction
  <2> QED BY <2>1, <2>2, <2>5 DEF T
<1> QED BY <1>1, <1>2
=============================================================================
