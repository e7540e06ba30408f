--------------------------- MODULE DequeTheorems ---------------------------
(***************************************************************************)
(* Facts about the operators of module Deque, for any sequence.            *)
(***************************************************************************)
EXTENDS Deque, FiniteSetTheorems, TLAPS

\* The elements of the concatenation of two sequences.
LEMMA ConcatFacts ==
  ASSUME NEW S, NEW s \in Seq(S), NEW t \in Seq(S)
  PROVE  /\ s \o t \in Seq(S) /\ Len(s \o t) = Len(s) + Len(t)
         /\ \A i \in 1 .. Len(s) + Len(t) :
               (s \o t)[i] = IF i <= Len(s) THEN s[i] ELSE t[i - Len(s)]
  OBVIOUS

\* The concatenation of three sequences.
LEMMA ConcatAssoc ==
  ASSUME NEW S, NEW s \in Seq(S), NEW t \in Seq(S), NEW u \in Seq(S)
  PROVE  (s \o t) \o u = s \o (t \o u)
<1> DEFINE l == s \o t
           r == t \o u
<1>1. /\ l \in Seq(S) /\ Len(l) = Len(s) + Len(t)
      /\ \A i \in 1 .. Len(s) + Len(t) : l[i] = IF i <= Len(s) THEN s[i] ELSE t[i - Len(s)]
  BY ConcatFacts, Zenon
<1>2. /\ r \in Seq(S) /\ Len(r) = Len(t) + Len(u)
      /\ \A i \in 1 .. Len(t) + Len(u) : r[i] = IF i <= Len(t) THEN t[i] ELSE u[i - Len(t)]
  BY ConcatFacts, Zenon
<1> l \in Seq(S) /\ r \in Seq(S)
  BY <1>1, <1>2, Zenon
<1> HIDE DEF l, r
<1> DEFINE x == l \o u
           y == s \o r
<1>3. /\ x \in Seq(S) /\ Len(x) = Len(l) + Len(u)
      /\ \A i \in 1 .. Len(l) + Len(u) : x[i] = IF i <= Len(l) THEN l[i] ELSE u[i - Len(l)]
  BY ConcatFacts, Zenon
<1>4. /\ y \in Seq(S) /\ Len(y) = Len(s) + Len(r)
      /\ \A i \in 1 .. Len(s) + Len(r) : y[i] = IF i <= Len(s) THEN s[i] ELSE r[i - Len(s)]
  BY ConcatFacts, Zenon
<1> HIDE DEF x, y
<1>5. Len(s) \in Nat /\ Len(t) \in Nat /\ Len(u) \in Nat
  OBVIOUS
<1>6. ASSUME NEW i \in 1 .. Len(x) PROVE x[i] = y[i]
  <2>1. CASE i <= Len(s)
    <3>1. /\ i \in 1 .. Len(s) + Len(r) /\ i \in 1 .. Len(s) + Len(t)
          /\ i \in 1 .. Len(l) + Len(u) /\ i <= Len(l)
      BY <1>1, <1>2, <1>3, <1>5, <2>1
    <3> QED
      BY <1>1, <1>3, <1>4, <2>1, <3>1, Zenon
  <2>2. CASE i > Len(s) /\ i <= Len(l)
    <3>1. /\ i \in 1 .. Len(s) + Len(r) /\ i \in 1 .. Len(s) + Len(t)
          /\ i \in 1 .. Len(l) + Len(u) /\ ~(i <= Len(s))
          /\ i - Len(s) \in 1 .. Len(t) + Len(u) /\ i - Len(s) <= Len(t)
      BY <1>1, <1>2, <1>3, <1>5, <2>2
    <3>2. y[i] = r[i - Len(s)] /\ r[i - Len(s)] = t[i - Len(s)]
      BY <1>2, <1>4, <3>1, Zenon
    <3>3. x[i] = l[i] /\ l[i] = t[i - Len(s)]
      BY <1>1, <1>3, <2>2, <3>1, Zenon
    <3> QED
      BY <3>2, <3>3, Zenon
  <2>3. CASE i > Len(l)
    <3>1. /\ i \in 1 .. Len(s) + Len(r) /\ ~(i <= Len(s))
          /\ i - Len(s) \in 1 .. Len(t) + Len(u) /\ ~(i - Len(s) <= Len(t))
          /\ (i - Len(s)) - Len(t) = i - Len(l)
      BY <1>1, <1>2, <1>3, <1>5, <2>3
    <3>2. y[i] = r[i - Len(s)]
      BY <1>4, <3>1, Zenon
    <3>3. r[i - Len(s)] = u[(i - Len(s)) - Len(t)]
      BY <1>2, <3>1, Zenon
    <3>4. i \in 1 .. Len(l) + Len(u) /\ ~(i <= Len(l))
      BY <1>1, <1>3, <1>5, <2>3
    <3>5. x[i] = u[i - Len(l)]
      BY <1>3, <3>4, Zenon
    <3> QED
      BY <3>1, <3>2, <3>3, <3>5, Zenon
  <2> QED
    BY <1>1, <1>5, <2>1, <2>2, <2>3
<1>7. Len(x) = Len(y)
  BY <1>1, <1>2, <1>3, <1>4, <1>5
<1>8. x = y
  BY <1>3, <1>4, <1>6, <1>7, SMTT(30)
<1> QED
  BY <1>8, Zenon DEF x, y, l, r

\* A set of positions of a sequence is finite.
LEMMA PositionsFinite ==
  ASSUME NEW n \in Nat, NEW I \in SUBSET (1 .. n)
  PROVE  IsFiniteSet(I) /\ Cardinality(I) \in Nat
<1>1. IsFiniteSet(1 .. n)
  BY FS_Interval
<1>2. IsFiniteSet(I)
  BY <1>1, FS_Subset, Zenon
<1> QED
  BY <1>2, FS_CardinalityType, Zenon

\* The rank of a number in a set of positions is at most the set's size.
LEMMA RankType ==
  ASSUME NEW n \in Nat, NEW I \in SUBSET (1 .. n), NEW i \in Int
  PROVE  /\ IsFiniteSet({k \in I : k <= i})
         /\ RankIn(I, i) \in 0 .. Cardinality(I)
<1>2. IsFiniteSet(I) /\ Cardinality(I) \in Nat
  BY PositionsFinite, Zenon
<1>3. /\ IsFiniteSet({k \in I : k <= i})
      /\ Cardinality({k \in I : k <= i}) <= Cardinality(I)
  BY <1>2, FS_Subset, Zenon
<1>4. Cardinality({k \in I : k <= i}) \in Nat
  BY <1>3, FS_CardinalityType, Zenon
<1> QED
  BY <1>2, <1>3, <1>4 DEF RankIn

\* Of two elements of I the larger one has the larger rank, and an element
\* has rank at least 1.
LEMMA RankStrict ==
  ASSUME NEW n \in Nat, NEW I \in SUBSET (1 .. n), NEW i \in I, NEW k \in I
  PROVE  /\ RankIn(I, i) >= 1
         /\ i < k => RankIn(I, i) < RankIn(I, k)
<1> DEFINE below(x) == {y \in I : y <= x}
<1> i \in Int /\ k \in Int
  OBVIOUS
<1>   /\ IsFiniteSet(below(i)) /\ RankIn(I, i) \in Nat
      /\ IsFiniteSet(below(k)) /\ RankIn(I, k) \in Nat
  <2>1. Cardinality(I) \in Nat
    BY PositionsFinite, Zenon
  <2>2. IsFiniteSet(below(i)) /\ RankIn(I, i) \in 0 .. Cardinality(I)
    BY RankType, Zenon
  <2>3. IsFiniteSet(below(k)) /\ RankIn(I, k) \in 0 .. Cardinality(I)
    BY RankType, Zenon
  <2> QED
    BY <2>1, <2>2, <2>3
<1>3. RankIn(I, i) # 0
  <2>1. i \in below(i)
    OBVIOUS
  <2>2. Cardinality(below(i)) # 0
    BY <2>1, FS_EmptySet, Zenon
  <2> QED
    BY <2>2, Zenon DEF RankIn
<1>4. ASSUME i < k PROVE RankIn(I, i) < RankIn(I, k)
  <2>1. below(i) \in SUBSET below(k) /\ k \in below(k) /\ k \notin below(i)
    <3>1. \A y \in I : y \in Int
      OBVIOUS
    <3>2. \A y \in I : y <= i => y <= k
      BY <1>4, <3>1
    <3>3. k <= k /\ ~(k <= i)
      BY <1>4
    <3> QED
      BY <3>2, <3>3, Zenon
  <2>2. below(i) # below(k)
    BY <2>1, Zenon
  <2>3. /\ Cardinality(below(i)) <= Cardinality(below(k))
        /\ Cardinality(below(k)) # Cardinality(below(i))
    BY <2>1, <2>2, FS_Subset, Zenon
  <2> QED
    BY <2>3 DEF RankIn
<1> QED
  BY <1>3, <1>4

\* Every number up to the size of I is the rank of an element of I: Nth is
\* well defined.
LEMMA NthDefined ==
  ASSUME NEW n \in Nat, NEW I \in SUBSET (1 .. n), NEW j \in 1 .. Cardinality(I)
  PROVE  Nth(I, j) \in I /\ RankIn(I, Nth(I, j)) = j
<1> DEFINE c == Cardinality(I)
           f == [i \in I |-> RankIn(I, i)]
<1>1. IsFiniteSet(I) /\ c \in Nat
  BY PositionsFinite, Zenon
<1>2. \A i \in I : RankIn(I, i) \in 1 .. c
  <2> TAKE i \in I
  <2>1. i \in Int
    OBVIOUS
  <2>2. RankIn(I, i) \in 0 .. c
    BY <2>1, RankType, Zenon
  <2>3. RankIn(I, i) >= 1
    BY RankStrict, Zenon
  <2> QED
    BY <1>1, <2>2, <2>3
<1>3. f \in Injection(I, 1 .. c)
  <2>1. f \in [I -> 1 .. c]
    BY <1>2, Zenon
  <2>2. \A a, b \in I : f[a] = f[b] => a = b
    <3> SUFFICES ASSUME NEW a \in I, NEW b \in I, a # b PROVE f[a] # f[b]
      BY Zenon
    <3>1. a < b \/ b < a
      OBVIOUS
    <3>2. RankIn(I, a) < RankIn(I, b) \/ RankIn(I, b) < RankIn(I, a)
      BY <3>1, RankStrict, Zenon
    <3> QED
      BY <1>2, <3>2
  <2> QED
    BY <2>1, <2>2, Zenon DEF Injection, IsInjective
<1>4. IsFiniteSet(1 .. c) /\ Cardinality(1 .. c) = c
  BY <1>1, FS_Interval
<1>5. f \in Surjection(I, 1 .. c)
  BY <1>3, <1>4, FS_Injection, Zenon
<1>6. \E i \in I : RankIn(I, i) = j
  BY <1>5, Zenon DEF Surjection
<1> QED
  BY <1>6, Zenon DEF Nth

\* Nth enumerates the elements of I in increasing order and misses none.
LEMMA NthOrder ==
  ASSUME NEW n \in Nat, NEW I \in SUBSET (1 .. n)
  PROVE  /\ \A j, k \in 1 .. Cardinality(I) : j < k => Nth(I, j) < Nth(I, k)
         /\ \A i \in I : /\ RankIn(I, i) \in 1 .. Cardinality(I)
                         /\ Nth(I, RankIn(I, i)) = i
<1>1. ASSUME NEW j \in 1 .. Cardinality(I), NEW k \in 1 .. Cardinality(I), j < k
      PROVE  Nth(I, j) < Nth(I, k)
  <2> DEFINE a == Nth(I, j)
             b == Nth(I, k)
  <2>1. a \in I /\ b \in I /\ RankIn(I, a) = j /\ RankIn(I, b) = k
    BY NthDefined, Zenon
  <2> HIDE DEF a, b
  <2>2. b < a => RankIn(I, b) < RankIn(I, a)
    BY <2>1, RankStrict, Zenon
  <2>3. a \in Int /\ b \in Int /\ a # b /\ ~(b < a)
    BY <1>1, <2>1, <2>2
  <2>4. a < b
    BY <2>3
  <2> QED
    BY <2>4, Zenon DEF a, b
<1>2. ASSUME NEW i \in I
      PROVE  RankIn(I, i) \in 1 .. Cardinality(I) /\ Nth(I, RankIn(I, i)) = i
  <2>1. i \in Int
    OBVIOUS
  <2> RankIn(I, i) \in 1 .. Cardinality(I)
    <3>1. Cardinality(I) \in Nat
      BY PositionsFinite, Zenon
    <3>2. RankIn(I, i) \in 0 .. Cardinality(I)
      BY <2>1, RankType, Zenon
    <3>3. RankIn(I, i) >= 1
      BY RankStrict, Zenon
    <3> QED
      BY <3>1, <3>2, <3>3
  <2> DEFINE a == Nth(I, RankIn(I, i))
  <2> a \in I /\ RankIn(I, a) = RankIn(I, i)
    BY NthDefined, Zenon
  <2> HIDE DEF a
  <2>4. (a < i => RankIn(I, a) < RankIn(I, i)) /\ (i < a => RankIn(I, i) < RankIn(I, a))
    BY RankStrict, Zenon
  <2>5. a \in Int /\ i \in Int
    OBVIOUS
  <2>6. a = i
    BY <2>4, <2>5
  <2> QED
    BY <2>6, Zenon DEF a
<1> QED
  BY <1>1, <1>2, Zenon

-----------------------------------------------------------------------------
\* Keep(s, T) is a sequence over the same set; it has exactly the elements of
\* s that are in T.
LEMMA KeepElements ==
  ASSUME NEW S, NEW s \in Seq(S), NEW T
  PROVE  /\ Keep(s, T) \in Seq(S)
         /\ Elements(Keep(s, T)) = Elements(s) \cap T
<1> DEFINE I == Positions(s, T)
           c == Cardinality(I)
           q == Keep(s, T)
<1> Len(s) \in Nat /\ DOMAIN s = 1 .. Len(s) /\ \A i \in DOMAIN s : s[i] \in S
  OBVIOUS
<1> I \in SUBSET (1 .. Len(s)) /\ \A i \in I : s[i] \in T /\ s[i] \in S
  BY Zenon DEF Positions
<1>3. c \in Nat
  BY PositionsFinite, Zenon
<1> q = [j \in 1 .. c |-> s[Nth(I, j)]]
  BY Zenon DEF Keep
<1> HIDE DEF I, c, q
<1>5. \A j \in 1 .. c : Nth(I, j) \in I
  BY NthDefined, Zenon DEF c
<1>6. q \in Seq(S)
  <2>1. \A j \in 1 .. c : s[Nth(I, j)] \in S
    BY <1>5, Zenon
  <2> QED
    BY <1>3, <2>1
<1>7. Elements(q) \subseteq Elements(s) \cap T
  BY <1>5, Zenon DEF Elements
<1>8. ASSUME NEW x \in Elements(s) \cap T PROVE x \in Elements(q)
  <2>1. PICK i \in DOMAIN s : s[i] = x
    BY Zenon DEF Elements
  <2>2. i \in I
    BY <2>1, Zenon DEF I, Positions
  <2>3. RankIn(I, i) \in 1 .. c /\ Nth(I, RankIn(I, i)) = i
    BY <2>2, NthOrder, Zenon DEF c
  <2>4. RankIn(I, i) \in DOMAIN q /\ q[RankIn(I, i)] = x
    BY <2>1, <2>3, Zenon
  <2> QED
    BY <2>4, Zenon DEF Elements
<1> QED
  BY <1>6, <1>7, <1>8, Zenon DEF q

\* Keep neither reorders the elements that stay nor brings new ones in.
LEMMA KeepBefore ==
  ASSUME NEW S, NEW s \in Seq(S), NEW T, NEW x, NEW y
  PROVE  Before(Keep(s, T), x, y) <=> Before(s, x, y) /\ x \in T /\ y \in T
<1> DEFINE I == Positions(s, T)
           c == Cardinality(I)
           q == Keep(s, T)
<1> Len(s) \in Nat /\ DOMAIN s = 1 .. Len(s)
  OBVIOUS
<1> I \in SUBSET (1 .. Len(s)) /\ I \subseteq DOMAIN s /\ \A i \in I : s[i] \in T
  BY Zenon DEF Positions
<1>3. c \in Nat
  BY PositionsFinite, Zenon
<1> q = [j \in 1 .. c |-> s[Nth(I, j)]]
  BY Zenon DEF Keep
<1> HIDE DEF I, c, q
<1>5. \A j \in 1 .. c : Nth(I, j) \in I
  BY NthDefined, Zenon DEF c
<1>6. /\ \A j, k \in 1 .. c : j < k => Nth(I, j) < Nth(I, k)
      /\ \A i \in I : RankIn(I, i) \in 1 .. c /\ Nth(I, RankIn(I, i)) = i
  BY NthOrder, Zenon DEF c
<1>7. ASSUME Before(q, x, y) PROVE Before(s, x, y) /\ x \in T /\ y \in T
  <2>1. PICK j \in 1 .. c, k \in 1 .. c : j < k /\ q[j] = x /\ q[k] = y
    BY <1>7, Zenon DEF Before
  <2>2. /\ Nth(I, j) \in I /\ s[Nth(I, j)] = x
        /\ Nth(I, k) \in I /\ s[Nth(I, k)] = y
        /\ Nth(I, j) < Nth(I, k)
    BY <1>5, <1>6, <2>1, Zenon
  <2> QED
    BY <2>2, Zenon DEF Before
<1>8. ASSUME Before(s, x, y), x \in T, y \in T PROVE Before(q, x, y)
  <2>1. PICK a \in DOMAIN s, b \in DOMAIN s : a < b /\ s[a] = x /\ s[b] = y
    BY <1>8, Zenon DEF Before
  <2>2. a \in I /\ b \in I
    BY <1>8, <2>1, Zenon DEF I, Positions
  <2>3. RankIn(I, a) < RankIn(I, b)
    BY <2>1, <2>2, RankStrict, Zenon
  <2>4. /\ RankIn(I, a) \in DOMAIN q /\ q[RankIn(I, a)] = x
        /\ RankIn(I, b) \in DOMAIN q /\ q[RankIn(I, b)] = y
    BY <1>6, <2>1, <2>2, Zenon
  <2> QED
    BY <2>3, <2>4, Zenon DEF Before
<1> QED
  BY <1>7, <1>8, Zenon DEF q

-----------------------------------------------------------------------------
\* In a partitioned sequence the partition point exists and separates the
\* elements in T from the others.
LEMMA PartitionSplit ==
  ASSUME NEW S, NEW s \in Seq(S), NEW T, IsPartitioned(s, T)
  PROVE  LET n == PartitionPoint(s, T)
         IN  /\ n \in 0 .. Len(s)
             /\ \A i \in DOMAIN s : s[i] \in T <=> i <= n
<1> Len(s) \in Nat /\ DOMAIN s = 1 .. Len(s)
  OBVIOUS
<1> DEFINE J == {i \in DOMAIN s : s[i] \notin T}
<1>2. \E n \in 0 .. Len(s) : \A i \in DOMAIN s : s[i] \in T <=> i <= n
  <2>1. CASE J = {}
    BY <2>1
  <2>2. CASE J # {}
    <3> J \in SUBSET (1 .. Len(s))
      BY Zenon
    <3>2. PICK a \in J : TRUE
      BY <2>2, Zenon
    <3> HIDE DEF J
    <3>3. 1 \in 1 .. Cardinality(J)
      <4>1. RankIn(J, a) \in 1 .. Cardinality(J)
        BY NthOrder, Zenon
      <4>2. Cardinality(J) \in Nat
        BY PositionsFinite, Zenon
      <4> QED
        BY <4>1, <4>2
    <3> DEFINE m == Nth(J, 1)
    <3>4. m \in J
      BY <3>3, NthDefined, Zenon
    <3>5. \A i \in J : m <= i
      <4> TAKE i \in J
      <4> RankIn(J, i) \in 1 .. Cardinality(J) /\ Nth(J, RankIn(J, i)) = i
        BY NthOrder, Zenon
      <4>2. 1 < RankIn(J, i) => Nth(J, 1) < Nth(J, RankIn(J, i))
        BY <3>3, NthOrder, Zenon
      <4> m \in Int /\ i \in Int /\ (RankIn(J, i) = 1 \/ 1 < RankIn(J, i))
        <5>1. \A k \in J : k \in Int
          OBVIOUS
        <5>2. RankIn(J, i) = 1 \/ 1 < RankIn(J, i)
          OBVIOUS
        <5> QED
          BY <3>4, <5>1, <5>2, Zenon
      <4> HIDE DEF m
      <4>4. CASE RankIn(J, i) = 1
        BY <4>4 DEF m
      <4>5. CASE 1 < RankIn(J, i)
        BY <4>2, <4>5 DEF m
      <4> QED
        BY <4>4, <4>5, Zenon
    <3> HIDE DEF m
    <3> m \in 1 .. Len(s) /\ s[m] \notin T
      BY <3>4, Zenon DEF J
    <3>7. m - 1 \in 0 .. Len(s)
      OBVIOUS
    <3>8. ASSUME NEW i \in DOMAIN s PROVE s[i] \in T <=> i <= m - 1
      <4>1. s[i] \notin T => m <= i
        BY <3>5, Zenon DEF J
      <4>2. s[i] \in T => i <= m
        BY DEF IsPartitioned
      <4>3. s[i] \in T => i # m
        BY Zenon
      <4> QED
        BY <4>1, <4>2, <4>3
    <3> QED
      BY <3>7, <3>8, Zenon
  <2> QED
    BY <2>1, <2>2, Zenon
<1> QED
  BY <1>2, Zenon DEF PartitionPoint

\* What comes after the partition point are the elements outside T.
LEMMA PartitionTail ==
  ASSUME NEW S, NEW s \in Seq(S), NEW T, IsPartitioned(s, T)
  PROVE  LET t == SubSeq(s, PartitionPoint(s, T) + 1, Len(s))
         IN  t \in Seq(S) /\ Elements(t) = Elements(s) \ T
<1> DEFINE n == PartitionPoint(s, T)
           t == SubSeq(s, n + 1, Len(s))
<1> n \in 0 .. Len(s) /\ \A i \in DOMAIN s : s[i] \in T <=> i <= n
  BY PartitionSplit, Zenon
<1> HIDE DEF n
<1> Len(s) \in Nat /\ DOMAIN s = 1 .. Len(s) /\ \A i \in DOMAIN s : s[i] \in S
  OBVIOUS
<1> t = [i \in 1 .. Len(s) - n |-> s[i + n]]
  OBVIOUS
<1> HIDE DEF t
<1>4. Len(s) - n \in Nat /\ \A i \in 1 .. Len(s) - n : i + n \in 1 .. Len(s)
  OBVIOUS
<1>5. t \in Seq(S)
  BY <1>4
<1>6. ASSUME NEW x \in Elements(t) PROVE x \in Elements(s) \ T
  <2>1. PICK i \in 1 .. Len(s) - n : x = s[i + n]
    BY Zenon DEF Elements
  <2>2. i + n \in DOMAIN s /\ ~(i + n <= n)
    BY <1>4
  <2> QED
    BY <2>1, <2>2, Zenon DEF Elements
<1>7. ASSUME NEW x \in Elements(s) \ T PROVE x \in Elements(t)
  <2>1. PICK i \in DOMAIN s : x = s[i]
    BY Zenon DEF Elements
  <2>2. i - n \in 1 .. Len(s) - n /\ (i - n) + n = i
    BY <2>1
  <2>3. i - n \in DOMAIN t /\ t[i - n] = x
    BY <2>1, <2>2, Zenon
  <2> QED
    BY <2>3, Zenon DEF Elements
<1> QED
  BY <1>5, <1>6, <1>7, Zenon DEF t, n

\* InsertAfter, position by position.
LEMMA InsertPositions ==
  ASSUME NEW S, NEW s \in Seq(S), NEW n \in 0 .. Len(s), NEW e \in S,
         NEW q, q = InsertAfter(s, n, e)
  PROVE  /\ q \in Seq(S) /\ Len(q) = Len(s) + 1
         /\ \A i \in 1 .. n : q[i] = s[i]
         /\ q[n + 1] = e
         /\ \A i \in n + 2 .. Len(s) + 1 : q[i] = s[i - 1]
<1> DEFINE u == SubSeq(s, 1, n)
           v == SubSeq(s, n + 1, Len(s))
<1> Len(s) \in Nat /\ DOMAIN s = 1 .. Len(s) /\ \A i \in DOMAIN s : s[i] \in S
  OBVIOUS
<1>2. u = [i \in 1 .. n |-> s[i]] /\ u \in Seq(S) /\ Len(u) = n
  OBVIOUS
<1>3. v = [i \in 1 .. Len(s) - n |-> s[i + n]] /\ v \in Seq(S) /\ Len(v) = Len(s) - n
  <2> v = [i \in 1 .. Len(s) - n |-> s[i + n]]
    OBVIOUS
  <2> HIDE DEF v
  <2>2. Len(s) - n \in Nat /\ \A i \in 1 .. Len(s) - n : s[i + n] \in S
    OBVIOUS
  <2>3. v \in Seq(S)
    BY <2>2
  <2>4. Len(v) = Len(s) - n
    BY <2>2, <2>3
  <2> QED
    BY <2>3, <2>4, Zenon
<1>4. <<e>> \in Seq(S) /\ Len(<<e>>) = 1 /\ <<e>>[1] = e
  OBVIOUS
<1>5. q = u \o <<e>> \o v
  BY Zenon DEF InsertAfter
<1> HIDE DEF u, v
<1>   /\ u \o <<e>> \in Seq(S) /\ Len(u \o <<e>>) = n + 1
      /\ \A i \in 1 .. n : (u \o <<e>>)[i] = u[i]
      /\ (u \o <<e>>)[n + 1] = e
  BY <1>2, <1>4
<1>   /\ q \in Seq(S) /\ Len(q) = Len(s) + 1
      /\ \A i \in 1 .. n + 1 : q[i] = (u \o <<e>>)[i]
      /\ \A i \in 1 .. Len(s) - n : q[i + (n + 1)] = v[i]
  <2> DEFINE w == u \o <<e>>
  <2> w \in Seq(S) /\ Len(w) = n + 1
    BY Zenon
  <2>2. q = w \o v
    BY <1>5, Zenon
  <2> HIDE DEF w
  <2>3. v \in Seq(S) /\ Len(v) = Len(s) - n
    BY <1>3, Zenon
  <2>   /\ q \in Seq(S) /\ Len(q) = Len(w) + Len(v)
        /\ \A i \in 1 .. Len(w) + Len(v) :
              q[i] = IF i <= Len(w) THEN w[i] ELSE v[i - Len(w)]
    <3>1. /\ w \o v \in Seq(S) /\ Len(w \o v) = Len(w) + Len(v)
          /\ \A i \in 1 .. Len(w) + Len(v) :
                (w \o v)[i] = IF i <= Len(w) THEN w[i] ELSE v[i - Len(w)]
      BY <2>3, ConcatFacts, Zenon
    <3> QED
      BY <2>2, <3>1, Zenon
  <2> Len(w) + Len(v) = Len(s) + 1
    BY <2>3
  <2>6. ASSUME NEW i \in 1 .. n + 1 PROVE q[i] = w[i]
    <3>1. i \in 1 .. Len(w) + Len(v) /\ i <= Len(w)
      OBVIOUS
    <3> QED
      BY <3>1, Zenon
  <2>7. ASSUME NEW i \in 1 .. Len(s) - n PROVE q[i + (n + 1)] = v[i]
    <3> DEFINE k == i + (n + 1)
    <3>1. k \in 1 .. Len(w) + Len(v) /\ ~(k <= Len(w)) /\ k - Len(w) = i
      OBVIOUS
    <3> HIDE DEF k
    <3>2. q[k] = v[i]
      BY <3>1, Zenon
    <3> QED
      BY <3>2, Zenon DEF k
  <2> QED
    BY <2>6, <2>7, Zenon DEF w
<1>8. ASSUME NEW i \in 1 .. n PROVE q[i] = s[i]
  <2>1. i \in 1 .. n + 1
    OBVIOUS
  <2>2. q[i] = (u \o <<e>>)[i] /\ (u \o <<e>>)[i] = u[i]
    BY <2>1, Zenon
  <2>3. u[i] = s[i]
    BY <1>2, Zenon
  <2> QED
    BY <2>2, <2>3, Zenon
<1>9. ASSUME NEW i \in n + 2 .. Len(s) + 1 PROVE q[i] = s[i - 1]
  <2> DEFINE k == i - (n + 1)
  <2>1. k \in 1 .. Len(s) - n /\ k + (n + 1) = i /\ k + n = i - 1
    OBVIOUS
  <2> HIDE DEF k
  <2> QED
    BY <1>3, <2>1, Zenon
<1> QED
  BY <1>8, <1>9

\* Inserting e keeps the order of the elements of s, puts e after the first n
\* of them and before the others, and relates nothing else.
LEMMA InsertBefore ==
  ASSUME NEW S, NEW s \in Seq(S), NEW n \in 0 .. Len(s), NEW e \in S,
         NEW q, q = InsertAfter(s, n, e)
  PROVE  /\ q \in Seq(S)
         /\ Elements(q) = Elements(s) \cup {e}
         /\ \A x, y : Before(s, x, y) => Before(q, x, y)
         /\ \A x, y : Before(q, x, y) =>
               \/ Before(s, x, y)
               \/ y = e /\ \E i \in DOMAIN s : i <= n /\ s[i] = x
               \/ x = e /\ \E i \in DOMAIN s : i > n /\ s[i] = y
<1> DEFINE up(i) == IF i <= n THEN i ELSE i + 1
<1>1. Len(s) \in Nat /\ DOMAIN s = 1 .. Len(s)
  OBVIOUS
<1>   /\ q \in Seq(S) /\ Len(q) = Len(s) + 1
      /\ \A i \in 1 .. n : q[i] = s[i]
      /\ q[n + 1] = e
      /\ \A i \in n + 2 .. Len(s) + 1 : q[i] = s[i - 1]
  <2>1. q \in Seq(S)
    BY InsertPositions, Zenon
  <2>4. Len(q) = Len(s) + 1
    BY InsertPositions
  <2>5. q[n + 1] = e
    BY InsertPositions
  <2>2. \A i \in 1 .. n : q[i] = s[i]
    BY InsertPositions
  <2>3. \A i \in n + 2 .. Len(s) + 1 : q[i] = s[i - 1]
    BY InsertPositions, SMTT(30)
  <2> QED
    BY <2>1, <2>2, <2>3, <2>4, <2>5, Zenon
<1> DOMAIN q = 1 .. Len(s) + 1
  OBVIOUS
<1>4. \A i \in DOMAIN s : up(i) \in DOMAIN q /\ up(i) \in Int /\ q[up(i)] = s[i]
  BY <1>1
<1>5. \A i, j \in DOMAIN s : i < j => up(i) < up(j)
  BY <1>1
<1> \A k \in DOMAIN q : k = n + 1 \/ \E i \in DOMAIN s : k = up(i)
  <2> SUFFICES ASSUME NEW k \in DOMAIN q, k # n + 1
               PROVE  \E i \in DOMAIN s : k = up(i)
    BY Zenon
  <2>1. CASE k <= n
    BY <1>1, <2>1
  <2>2. CASE k > n + 1
    <3>1. k - 1 \in DOMAIN s /\ up(k - 1) = k
      BY <1>1, <2>2
    <3> QED
      BY <3>1, Zenon
  <2> QED
    BY <2>1, <2>2
<1>7. Elements(q) = Elements(s) \cup {e}
  <2>1. n + 1 \in DOMAIN q
    BY <1>1
  <2> HIDE DEF up
  <2>2. \A k \in DOMAIN q : q[k] \in Elements(s) \cup {e}
    BY <1>4 DEF Elements
  <2>3. \A i \in DOMAIN s : s[i] \in Elements(q)
    BY <1>4, Zenon DEF Elements
  <2>4. Elements(q) \subseteq Elements(s) \cup {e}
    BY <2>2, Zenon DEF Elements
  <2>5. e \in Elements(q)
    BY <2>1, Zenon DEF Elements
  <2>6. Elements(s) \subseteq Elements(q)
    BY <2>3, Zenon DEF Elements
  <2> QED
    BY <2>4, <2>5, <2>6, Zenon
<1>8. ASSUME NEW x, NEW y, Before(s, x, y) PROVE Before(q, x, y)
  <2>1. PICK i \in DOMAIN s, j \in DOMAIN s : i < j /\ s[i] = x /\ s[j] = y
    BY <1>8, Zenon DEF Before
  <2> HIDE DEF up
  <2>2. up(i) < up(j)
    BY <1>5, <2>1, Zenon
  <2>3. /\ up(i) \in DOMAIN q /\ q[up(i)] = x
        /\ up(j) \in DOMAIN q /\ q[up(j)] = y
    BY <1>4, <2>1, Zenon
  <2> QED
    BY <2>2, <2>3, Zenon DEF Before
<1>9. ASSUME NEW x, NEW y, Before(q, x, y)
      PROVE  \/ Before(s, x, y)
             \/ y = e /\ \E i \in DOMAIN s : i <= n /\ s[i] = x
             \/ x = e /\ \E i \in DOMAIN s : i > n /\ s[i] = y
  <2>1. PICK k \in DOMAIN q, l \in DOMAIN q : k < l /\ q[k] = x /\ q[l] = y
    BY <1>9, Zenon DEF Before
  <2>2. CASE k = n + 1
    <3>1. PICK j \in DOMAIN s : l = up(j)
      BY <2>1, <2>2
    <3>2. j > n /\ s[j] = y
      BY <1>1, <1>4, <2>1, <2>2, <3>1
    <3> QED
      BY <2>1, <2>2, <3>2, Zenon
  <2>3. CASE l = n + 1
    <3>1. PICK i \in DOMAIN s : k = up(i)
      BY <2>1, <2>3
    <3>2. i <= n /\ s[i] = x
      BY <1>1, <1>4, <2>1, <2>3, <3>1
    <3> QED
      BY <2>1, <2>3, <3>2, Zenon
  <2>4. CASE k # n + 1 /\ l # n + 1
    <3>1. PICK i \in DOMAIN s, j \in DOMAIN s : k = up(i) /\ l = up(j)
      BY <2>4, Zenon
    <3>2. i < j
      BY <1>1, <2>1, <3>1
    <3>3. s[i] = x /\ s[j] = y
      BY <1>4, <2>1, <3>1, Zenon
    <3> QED
      BY <3>2, <3>3, Zenon DEF Before
  <2> QED
    BY <2>2, <2>3, <2>4, Zenon
<1> QED
  BY <1>7, <1>8, <1>9, Zenon

\* An element inserted at the partition point comes after those in T and
\* before the others.
LEMMA InsertAtPoint ==
  ASSUME NEW S, NEW s \in Seq(S), NEW T, IsPartitioned(s, T), NEW e \in S,
         NEW q, q = InsertAfter(s, PartitionPoint(s, T), e)
  PROVE  /\ q \in Seq(S)
         /\ Elements(q) = Elements(s) \cup {e}
         /\ \A x, y : Before(s, x, y) => Before(q, x, y)
         /\ \A x, y : Before(q, x, y) =>
               \/ Before(s, x, y)
               \/ y = e /\ x \in Elements(s) \cap T
               \/ x = e /\ y \in Elements(s) \ T
<1> DEFINE n == PartitionPoint(s, T)
<1> n \in 0 .. Len(s) /\ \A i \in DOMAIN s : s[i] \in T <=> i <= n
  BY PartitionSplit, Zenon
<1> q = InsertAfter(s, n, e)
  BY Zenon
<1> HIDE DEF n
<1>3. q \in Seq(S) /\ Elements(q) = Elements(s) \cup {e}
  BY InsertBefore
<1>4. \A x, y : Before(s, x, y) => Before(q, x, y)
  BY InsertBefore
<1>5. ASSUME NEW x, NEW y, Before(q, x, y)
      PROVE  \/ Before(s, x, y)
             \/ y = e /\ x \in Elements(s) \cap T
             \/ x = e /\ y \in Elements(s) \ T
  <2>1. \/ Before(s, x, y)
        \/ y = e /\ \E i \in DOMAIN s : i <= n /\ s[i] = x
        \/ x = e /\ \E i \in DOMAIN s : i > n /\ s[i] = y
    BY <1>5, InsertBefore
  <2>2. \A i \in DOMAIN s : i \in Int /\ n \in Int
    OBVIOUS
  <2>3. \A i \in DOMAIN s : i > n => s[i] \notin T
    BY <2>2
  <2> QED
    BY <2>1, <2>3, Zenon DEF Elements
<1> QED
  BY <1>3, <1>4, <1>5, Zenon

\* Appending e puts it after every element of s.
LEMMA AppendBefore ==
  ASSUME NEW S, NEW s \in Seq(S), NEW e \in S
  PROVE  /\ Append(s, e) \in Seq(S)
         /\ Elements(Append(s, e)) = Elements(s) \cup {e}
         /\ \A x, y : Before(s, x, y) => Before(Append(s, e), x, y)
         /\ \A x, y : Before(Append(s, e), x, y) =>
               Before(s, x, y) \/ (y = e /\ x \in Elements(s))
<1> DEFINE q == Append(s, e)
<1> Len(s) \in Nat /\ DOMAIN s = 1 .. Len(s)
  OBVIOUS
<1>   /\ q \in Seq(S) /\ DOMAIN q = 1 .. Len(s) + 1
      /\ q[Len(s) + 1] = e /\ \A i \in 1 .. Len(s) : q[i] = s[i]
  OBVIOUS
<1> HIDE DEF q
<1>3. Elements(q) = Elements(s) \cup {e}
  <2>1. \A i \in DOMAIN q : i = Len(s) + 1 \/ i \in DOMAIN s
    OBVIOUS
  <2>2. Len(s) + 1 \in DOMAIN q /\ DOMAIN s \subseteq DOMAIN q
    OBVIOUS
  <2> QED
    BY <2>1, <2>2, Zenon DEF Elements
<1>4. \A x, y : Before(s, x, y) => Before(q, x, y)
  BY DEF Before
<1>5. \A x, y : Before(q, x, y) => Before(s, x, y) \/ (y = e /\ x \in Elements(s))
  BY DEF Before, Elements
<1> QED
  BY <1>3, <1>4, <1>5, Zenon DEF q

\* Removing the first element leaves the order of the others.
LEMMA TailBefore ==
  ASSUME NEW S, NEW s \in Seq(S), s # <<>>
  PROVE  /\ Tail(s) \in Seq(S) /\ Head(s) \in S
         /\ Elements(s) = Elements(Tail(s)) \cup {Head(s)}
         /\ \A x, y : Before(Tail(s), x, y) => Before(s, x, y)
         /\ \A x, y : Before(s, x, y) => Before(Tail(s), x, y) \/ x = Head(s)
         /\ \A x \in Elements(Tail(s)) : Before(s, Head(s), x)
<1> DEFINE q == Tail(s)
<1> Len(s) \in Nat \ {0} /\ DOMAIN s = 1 .. Len(s) /\ Head(s) = s[1]
  OBVIOUS
<1>2. /\ q \in Seq(S) /\ DOMAIN q = 1 .. Len(s) - 1
      /\ \A i \in 1 .. Len(s) - 1 : q[i] = s[i + 1]
  OBVIOUS
<1> HIDE DEF q
<1> \A i \in DOMAIN q : i + 1 \in DOMAIN s /\ q[i] = s[i + 1] /\ 1 < i + 1
  BY <1>2
<1>4. \A i \in DOMAIN s : i # 1 => i - 1 \in DOMAIN q /\ s[i] = q[i - 1]
  BY <1>2
<1> 1 \in DOMAIN s /\ Head(s) \in S
  OBVIOUS
<1>6. Elements(s) = Elements(q) \cup {Head(s)}
  BY <1>4 DEF Elements
<1>7. ASSUME NEW x, NEW y, Before(q, x, y) PROVE Before(s, x, y)
  <2>1. PICK i \in DOMAIN q, j \in DOMAIN q : i < j /\ q[i] = x /\ q[j] = y
    BY <1>7, Zenon DEF Before
  <2>2. i + 1 < j + 1
    BY <1>2, <2>1
  <2> QED
    BY <2>1, <2>2, Zenon DEF Before
<1>8. ASSUME NEW x, NEW y, Before(s, x, y), x # Head(s) PROVE Before(q, x, y)
  <2>1. PICK i \in DOMAIN s, j \in DOMAIN s : i < j /\ s[i] = x /\ s[j] = y
    BY <1>8, Zenon DEF Before
  <2>2. i # 1 /\ j # 1 /\ i - 1 < j - 1
    BY <1>8, <2>1
  <2> QED
    BY <1>4, <2>1, <2>2, Zenon DEF Before
<1>9. \A x \in Elements(q) : Before(s, Head(s), x)
  BY DEF Elements, Before
<1> QED
  BY <1>2, <1>6, <1>7, <1>8, <1>9, Zenon DEF q

-----------------------------------------------------------------------------
\* The elements of a concatenation.
LEMMA ConcatElements ==
  ASSUME NEW S, NEW s \in Seq(S), NEW t \in Seq(S)
  PROVE  Elements(s \o t) = Elements(s) \cup Elements(t)
<1> DEFINE u == s \o t
<1>   /\ u \in Seq(S) /\ Len(u) = Len(s) + Len(t)
      /\ \A i \in 1 .. Len(s) + Len(t) : u[i] = IF i <= Len(s) THEN s[i] ELSE t[i - Len(s)]
  OBVIOUS
<1>   /\ Len(s) \in Nat /\ Len(t) \in Nat
      /\ DOMAIN s = 1 .. Len(s) /\ DOMAIN t = 1 .. Len(t)
  OBVIOUS
<1> HIDE DEF u
<1> DOMAIN u = 1 .. Len(s) + Len(t)
  OBVIOUS
<1>4. \A i \in DOMAIN u : \/ i \in DOMAIN s /\ u[i] = s[i]
                          \/ i - Len(s) \in DOMAIN t /\ u[i] = t[i - Len(s)]
  OBVIOUS
<1>5. \A i \in DOMAIN s : i \in DOMAIN u /\ u[i] = s[i]
  OBVIOUS
<1>6. ASSUME NEW i \in DOMAIN t PROVE i + Len(s) \in DOMAIN u /\ u[i + Len(s)] = t[i]
  <2>1. i + Len(s) \in DOMAIN u /\ ~(i + Len(s) <= Len(s)) /\ (i + Len(s)) - Len(s) = i
    OBVIOUS
  <2> QED
    BY <2>1, Zenon
<1>7. Elements(u) = Elements(s) \cup Elements(t)
  <2>1. \A i \in DOMAIN u : u[i] \in Elements(s) \cup Elements(t)
    BY <1>4, Zenon DEF Elements
  <2>2. \A i \in DOMAIN s : s[i] \in Elements(u)
    BY <1>5, Zenon DEF Elements
  <2>3. \A i \in DOMAIN t : t[i] \in Elements(u)
    BY <1>6, Zenon DEF Elements
  <2> QED
    BY <2>1, <2>2, <2>3, Zenon DEF Elements
<1> QED
  BY <1>7, Zenon DEF u

\* Head and tail of a concatenation.
LEMMA ConcatHeadTail ==
  ASSUME NEW S, NEW s \in Seq(S), NEW t \in Seq(S), s # <<>>
  PROVE  /\ s \o t # <<>>
         /\ Head(s \o t) = Head(s)
         /\ Tail(s \o t) = Tail(s) \o t
<1> DEFINE u == s \o t
           v == Tail(s) \o t
<1> Len(s) \in Nat \ {0} /\ Len(t) \in Nat
  OBVIOUS
<1>   /\ u \in Seq(S) /\ Len(u) = Len(s) + Len(t)
      /\ \A i \in 1 .. Len(s) + Len(t) : u[i] = IF i <= Len(s) THEN s[i] ELSE t[i - Len(s)]
  OBVIOUS
<1>3. /\ Tail(s) \in Seq(S) /\ Len(Tail(s)) = Len(s) - 1
      /\ \A i \in 1 .. Len(s) - 1 : Tail(s)[i] = s[i + 1]
  OBVIOUS
<1>   /\ v \in Seq(S) /\ Len(v) = Len(s) - 1 + Len(t)
      /\ \A i \in 1 .. Len(s) - 1 + Len(t) :
            v[i] = IF i <= Len(s) - 1 THEN Tail(s)[i] ELSE t[i - (Len(s) - 1)]
  <2> DEFINE w == Tail(s)
  <2>1. w \in Seq(S) /\ Len(w) = Len(s) - 1
    BY <1>3, Zenon
  <2> HIDE DEF w
  <2>2. /\ w \o t \in Seq(S) /\ Len(w \o t) = Len(w) + Len(t)
        /\ \A i \in 1 .. Len(w) + Len(t) : (w \o t)[i] = IF i <= Len(w) THEN w[i] ELSE t[i - Len(w)]
    BY <2>1, ConcatFacts, Zenon
  <2> QED
    BY <2>1, <2>2, Zenon DEF w
<1> HIDE DEF u, v
<1>5. u # <<>> /\ Head(u) = u[1] /\ u[1] = s[1] /\ Head(s) = s[1]
  OBVIOUS
<1>6. /\ Tail(u) \in Seq(S) /\ Len(Tail(u)) = Len(u) - 1
      /\ \A i \in 1 .. Len(u) - 1 : Tail(u)[i] = u[i + 1]
  BY <1>5
<1>7. ASSUME NEW i \in 1 .. Len(Tail(u)) PROVE Tail(u)[i] = v[i]
  <2> Tail(u)[i] = u[i + 1] /\ i + 1 \in 1 .. Len(s) + Len(t) /\ i \in 1 .. Len(s) - 1 + Len(t)
    BY <1>6
  <2>2. CASE i <= Len(s) - 1
    <3>1. u[i + 1] = s[i + 1] /\ v[i] = Tail(s)[i] /\ i \in 1 .. Len(s) - 1
      BY <2>2
    <3> QED
      BY <1>3, <3>1, Zenon
  <2>3. CASE ~(i <= Len(s) - 1)
    <3>1. ~(i + 1 <= Len(s)) /\ (i + 1) - Len(s) = i - (Len(s) - 1)
      BY <2>3
    <3> QED
      BY <2>3, <3>1, Zenon
  <2> QED
    BY <2>2, <2>3, Zenon
<1>8. Tail(u) = v
  BY <1>6, <1>7
<1> QED
  BY <1>5, <1>8, Zenon DEF u, v

\* A sequence is its first n elements and the rest, which start with the next.
LEMMA SplitAt ==
  ASSUME NEW S, NEW s \in Seq(S), NEW n \in 0 .. Len(s)
  PROVE  LET u == SubSeq(s, 1, n)
             v == SubSeq(s, n + 1, Len(s))
         IN  /\ u \in Seq(S) /\ v \in Seq(S) /\ s = u \o v
             /\ n < Len(s) => /\ v # <<>> /\ Head(v) = s[n + 1]
                              /\ Tail(v) = SubSeq(s, n + 2, Len(s))
             /\ n = Len(s) => v = <<>>
<1> DEFINE u == SubSeq(s, 1, n)
           v == SubSeq(s, n + 1, Len(s))
<1> Len(s) \in Nat /\ n \in Nat /\ n <= Len(s)
  OBVIOUS
<1> \A i \in 1 .. Len(s) : s[i] \in S
  OBVIOUS
<1>3. u \in Seq(S)
  OBVIOUS
<1>4. v \in Seq(S)
  OBVIOUS
<1>5. u \o v = s
  <2>1. /\ Len(u) = n /\ Len(v) = Len(s) - n
        /\ \A i \in 1 .. n : u[i] = s[i]
        /\ \A i \in 1 .. Len(s) - n : v[i] = s[n + i]
    OBVIOUS
  <2> HIDE DEF u, v
  <2> DEFINE w == u \o v
  <2>2. /\ w \in Seq(S) /\ Len(w) = Len(s)
        /\ \A i \in 1 .. Len(s) : w[i] = IF i <= n THEN u[i] ELSE v[i - n]
    BY <1>3, <1>4, <2>1, ConcatFacts
  <2> HIDE DEF w
  <2>3. ASSUME NEW i \in 1 .. Len(s) PROVE w[i] = s[i]
    <3>1. CASE i <= n
      BY <2>1, <2>2, <3>1
    <3>2. CASE i > n
      <4>1. PICK j \in 1 .. Len(s) - n : j = i - n
        BY <3>2
      <4>2. w[i] = v[j]
        BY <2>2, <3>2, <4>1
      <4>3. v[j] = s[n + j] /\ n + j = i
        BY <2>1, <4>1
      <4> QED
        BY <4>2, <4>3, Zenon
    <3> QED
      BY <3>1, <3>2
  <2>4. w = s
    BY <2>2, <2>3
  <2> QED
    BY <2>4, Zenon DEF w
<1>7. ASSUME n < Len(s) PROVE v # <<>> /\ Head(v) = s[n + 1] /\ Tail(v) = SubSeq(s, n + 2, Len(s))
  <2>1. n + 1 \in 1 .. Len(s) /\ Len(s) \in n + 1 .. Len(s) /\ (n + 1) + 1 = n + 2
    BY <1>7
  <2>2. Head(v) = s[n + 1] /\ Tail(v) = SubSeq(s, (n + 1) + 1, Len(s))
    BY <2>1
  <2>3. Len(v) = Len(s) - (n + 1) + 1
    BY <1>7
  <2>4. v # <<>>
    <3> HIDE DEF v
    <3>1. Len(v) # 0
      BY <1>7, <2>3
    <3>2. Len(<<>>) = 0
      BY Zenon
    <3> QED
      BY <3>1, <3>2, Zenon
  <2> QED
    BY <2>1, <2>2, <2>4, Zenon
<1>8. n = Len(s) => v = <<>>
  OBVIOUS
<1> QED
  BY <1>3, <1>4, <1>5, <1>7, <1>8, Zenon

\* The order of a concatenation.
LEMMA ConcatBefore ==
  ASSUME NEW S, NEW s \in Seq(S), NEW t \in Seq(S), NEW x, NEW y
  PROVE  /\ Before(s, x, y) => Before(s \o t, x, y)
         /\ Before(t, x, y) => Before(s \o t, x, y)
         /\ Before(s \o t, x, y) => \/ Before(s, x, y) \/ Before(t, x, y)
                                    \/ x \in Elements(s) /\ y \in Elements(t)
<1> DEFINE u == s \o t
           m == Len(s)
           n == Len(t)
<1>   /\ m \in Nat /\ n \in Nat /\ DOMAIN s = 1 .. m /\ DOMAIN t = 1 .. n
      /\ DOMAIN u = 1 .. m + n
      /\ \A i \in 1 .. m : u[i] = s[i]
      /\ \A i \in m + 1 .. m + n : u[i] = t[i - m]
  OBVIOUS
<1> HIDE DEF u, m, n
<1>2. Before(s, x, y) => Before(u, x, y)
  BY DEF Before
<1>3. \A i \in DOMAIN t : i + m \in DOMAIN u /\ u[i + m] = t[i]
  OBVIOUS
<1>4. ASSUME Before(t, x, y) PROVE Before(u, x, y)
  <2> PICK i \in DOMAIN t, j \in DOMAIN t : i < j /\ t[i] = x /\ t[j] = y
    BY <1>4, Zenon DEF Before
  <2>1. i + m < j + m
    OBVIOUS
  <2> QED
    BY <1>3, <2>1, Zenon DEF Before
<1>5. ASSUME Before(u, x, y)
      PROVE  Before(s, x, y) \/ Before(t, x, y) \/ (x \in Elements(s) /\ y \in Elements(t))
  <2> PICK i \in DOMAIN u, j \in DOMAIN u : i < j /\ u[i] = x /\ u[j] = y
    BY <1>5, Zenon DEF Before
  <2>1. CASE j <= m
    <3>1. i \in DOMAIN s /\ j \in DOMAIN s /\ s[i] = x /\ s[j] = y
      BY <2>1
    <3> QED
      BY <3>1, Zenon DEF Before
  <2>2. CASE i > m
    <3>1. /\ i - m \in DOMAIN t /\ j - m \in DOMAIN t /\ i - m < j - m
          /\ t[i - m] = x /\ t[j - m] = y
      BY <2>2
    <3> QED
      BY <3>1, Zenon DEF Before
  <2>3. CASE i <= m /\ j > m
    <3>1. i \in DOMAIN s /\ s[i] = x /\ j - m \in DOMAIN t /\ t[j - m] = y
      BY <2>3
    <3> QED
      BY <3>1, Zenon DEF Elements
  <2> QED
    BY <2>1, <2>2, <2>3
<1> QED
  BY <1>2, <1>4, <1>5, Zenon DEF u

\* The first element of the second sequence moves to the end of the first.
LEMMA ConcatShift ==
  ASSUME NEW S, NEW s \in Seq(S), NEW t \in Seq(S), t # <<>>
  PROVE  Append(s, Head(t)) \o Tail(t) = s \o t
<1> DEFINE h == Head(t)
           b == Tail(t)
           c == <<h>>
<1>1. h \in S /\ b \in Seq(S) /\ c \in Seq(S)
  OBVIOUS
<1>2. c \o b = t
  <2>1. /\ c \o b \in Seq(S) /\ Len(c \o b) = Len(t)
        /\ \A i \in 1 .. Len(t) : (c \o b)[i] = t[i]
    OBVIOUS
  <2> DEFINE v == c \o b
  <2>2. v \in Seq(S) /\ Len(v) = Len(t) /\ \A i \in 1 .. Len(v) : v[i] = t[i]
    BY <2>1, Zenon
  <2> HIDE DEF v
  <2>3. v = t
    BY <2>2
  <2> QED
    BY <2>3, Zenon DEF v
<1> HIDE DEF h, b
<1>3. Append(s, h) = s \o c
  BY <1>1
<1> HIDE DEF c
<1>4. (s \o c) \o b = s \o (c \o b)
  BY <1>1, ConcatAssoc, SMTT(30)
<1> QED
  BY <1>2, <1>3, <1>4, Zenon DEF h, b

\* Something is appended to the second sequence.
LEMMA AppendToConcat ==
  ASSUME NEW S, NEW s \in Seq(S), NEW t \in Seq(S), NEW e \in S
  PROVE  s \o Append(t, e) = Append(s \o t, e)
<1> DEFINE c == <<e>>
           u == s \o t
<1>1. c \in Seq(S) /\ u \in Seq(S)
  OBVIOUS
<1>2. Append(t, e) = t \o c
  OBVIOUS
<1>3. Append(u, e) = u \o c
  BY <1>1
<1> HIDE DEF c
<1>4. u \o c = s \o (t \o c)
  BY <1>1, ConcatAssoc
<1> QED
  BY <1>2, <1>3, <1>4, Zenon
-------------------------------------------------------------------------------
(* A sequence s of elements of O, with gaps: <<>> stands for none.           *)

\* s holds responses of O only, in the order R and without gaps, and those in
\* U come after them; while p holds there are no others.
Matched(s, O, U, R, p) ==
    /\ \A k \in DOMAIN s : s[k] # <<>> => s[k] \in O
    /\ \A k, l \in DOMAIN s : k < l /\ s[k] # <<>> /\ s[l] # <<>> => <<s[k], s[l]>> \in R
    /\ \A x, y \in O : y \in Elements(s) /\ <<x, y>> \in R => x \in Elements(s)
    /\ U \subseteq O
    /\ \A x \in O \cap Elements(s), y \in U : <<x, y>> \in R
    /\ p => O \subseteq Elements(s) \cup U

\* R is a strict order as far as O goes.
IsAsymmetric(R, O) == \A x, y \in O : <<x, y>> \in R => <<y, x>> \notin R

\* R and Q agree on O.
Agree(R, Q, O) == \A x, y \in O : <<x, y>> \in R <=> <<x, y>> \in Q

\* Nothing on the way and nothing owed.
LEMMA MatchedEmpty ==
  ASSUME NEW R, NEW p
  PROVE  Matched(<<>>, {}, {}, R, p)
BY DEF Matched

\* The server goes away, or what is written does not reach it any more.
LEMMA MatchedLess ==
  ASSUME NEW s, NEW O, NEW U, NEW R, NEW p, Matched(s, O, U, R, p),
         NEW V \in SUBSET U, NEW Q, Agree(R, Q, O), NEW r, r => p /\ V = U
  PROVE  Matched(s, O, V, Q, r)
<1>1. \A k \in DOMAIN s : s[k] # <<>> => s[k] \in O
  BY Zenon DEF Matched
<1>2. \A k, l \in DOMAIN s : k < l /\ s[k] # <<>> /\ s[l] # <<>> => <<s[k], s[l]>> \in Q
  BY <1>1, Zenon DEF Matched, Agree
<1>3. \A x, y \in O : y \in Elements(s) /\ <<x, y>> \in Q => x \in Elements(s)
  BY Zenon DEF Matched, Agree
<1>4. V \subseteq O /\ \A x \in O \cap Elements(s), y \in V : <<x, y>> \in Q
  BY Zenon DEF Matched, Agree
<1>5. r => O \subseteq Elements(s) \cup V
  BY Zenon DEF Matched
<1> QED
  BY <1>1, <1>2, <1>3, <1>4, <1>5, Zenon DEF Matched

\* The server sends a push.
LEMMA MatchedPush ==
  ASSUME NEW S, NEW s \in Seq(S), <<>> \in S, NEW O, NEW U, NEW R, NEW p,
         Matched(s, O, U, R, p), <<>> \notin O
  PROVE  Matched(Append(s, <<>>), O, U, R, p)
<1> DEFINE t == Append(s, <<>>)
<1>1. /\ Len(s) \in Nat /\ DOMAIN s = 1 .. Len(s) /\ DOMAIN t = 1 .. Len(s) + 1
      /\ t[Len(s) + 1] = <<>> /\ \A i \in 1 .. Len(s) : t[i] = s[i]
  OBVIOUS
<1>2. Elements(t) = Elements(s) \cup {<<>>}
  BY AppendBefore, Zenon
<1> HIDE DEF t
<1>3. \A k \in DOMAIN t : t[k] # <<>> => k \in DOMAIN s /\ t[k] = s[k]
  BY <1>1
<1>4. \A k \in DOMAIN t : t[k] # <<>> => t[k] \in O
  BY <1>3, Zenon DEF Matched
<1>5. \A k, l \in DOMAIN t : k < l /\ t[k] # <<>> /\ t[l] # <<>> => <<t[k], t[l]>> \in R
  BY <1>3, Zenon DEF Matched
<1> QED
  BY <1>2, <1>4, <1>5, Zenon DEF Matched, t

\* The server gives the first of the responses in U.
LEMMA MatchedReply ==
  ASSUME NEW S, NEW s \in Seq(S), NEW O \in SUBSET S, NEW U, NEW R, NEW p,
         Matched(s, O, U, R, p), p, <<>> \notin O, IsAsymmetric(R, O),
         NEW x \in U, \A y \in U \ {x} : <<x, y>> \in R
  PROVE  Matched(Append(s, x), O, U \ {x}, R, p)
<1> DEFINE t == Append(s, x)
<1> x \in O /\ x \in S
  BY Zenon DEF Matched
<1>   /\ Len(s) \in Nat /\ DOMAIN s = 1 .. Len(s) /\ DOMAIN t = 1 .. Len(s) + 1
      /\ t[Len(s) + 1] = x /\ \A i \in 1 .. Len(s) : t[i] = s[i]
  OBVIOUS
<1> Elements(t) = Elements(s) \cup {x}
  BY AppendBefore, Zenon
<1> HIDE DEF t
<1>3. \A k \in DOMAIN t : (k \in DOMAIN s /\ t[k] = s[k]) \/ (k = Len(s) + 1 /\ t[k] = x)
  OBVIOUS
<1>4. \A k \in DOMAIN t : t[k] # <<>> => t[k] \in O
  BY <1>3, Zenon DEF Matched
<1>5. ASSUME NEW k \in DOMAIN t, NEW l \in DOMAIN t, k < l, t[k] # <<>>, t[l] # <<>>
      PROVE  <<t[k], t[l]>> \in R
  <2> k \in DOMAIN s /\ t[k] = s[k]
    BY <1>5
  <2>2. CASE l \in DOMAIN s
    BY <1>5, <2>2, Zenon DEF Matched
  <2>3. CASE l = Len(s) + 1
    <3>1. s[k] \in O \cap Elements(s)
      BY <1>5, Zenon DEF Matched, Elements
    <3> QED
      BY <2>3, <3>1, Zenon DEF Matched
  <2> QED
    BY <1>3, <2>2, <2>3, Zenon
<1>6. \A z, y \in O : y \in Elements(t) /\ <<z, y>> \in R => z \in Elements(t)
  <2> SUFFICES ASSUME NEW z \in O, <<z, x>> \in R PROVE z \in Elements(t)
    BY Zenon DEF Matched
  <2>1. z \in Elements(s) \cup U
    BY Zenon DEF Matched
  <2>2. z \in U \ {x} => <<x, z>> \in R
    BY Zenon
  <2> QED
    BY <2>1, <2>2, Zenon DEF IsAsymmetric
<1>7. U \ {x} \subseteq O /\ \A z \in O \cap Elements(t), y \in U \ {x} : <<z, y>> \in R
  BY Zenon DEF Matched
<1>8. O \subseteq Elements(t) \cup (U \ {x})
  BY Zenon DEF Matched
<1> QED
  BY <1>4, <1>5, <1>6, <1>7, <1>8, Zenon DEF Matched, t

\* The reader takes a push.
LEMMA MatchedTakePush ==
  ASSUME NEW S, NEW s \in Seq(S), s # <<>>, Head(s) = <<>>,
         NEW O, NEW U, NEW R, NEW p, Matched(s, O, U, R, p), <<>> \notin O
  PROVE  Matched(Tail(s), O, U, R, p)
<1> DEFINE t == Tail(s)
<1>1. /\ Len(s) \in Nat \ {0} /\ DOMAIN s = 1 .. Len(s) /\ DOMAIN t = 1 .. Len(s) - 1
      /\ \A i \in 1 .. Len(s) - 1 : t[i] = s[i + 1]
  OBVIOUS
<1>2. Elements(s) = Elements(t) \cup {<<>>}
  BY TailBefore, Zenon
<1> HIDE DEF t
<1>3. \A k \in DOMAIN t : k + 1 \in DOMAIN s /\ t[k] = s[k + 1]
  BY <1>1
<1>4. \A k, l \in DOMAIN t : k < l => k + 1 < l + 1
  BY <1>1
<1>5. \A k \in DOMAIN t : t[k] # <<>> => t[k] \in O
  BY <1>3, Zenon DEF Matched
<1>6. \A k, l \in DOMAIN t : k < l /\ t[k] # <<>> /\ t[l] # <<>> => <<t[k], t[l]>> \in R
  BY <1>3, <1>4, Zenon DEF Matched
<1> QED
  BY <1>2, <1>5, <1>6, Zenon DEF Matched, t

\* The reader takes a response.
LEMMA MatchedTake ==
  ASSUME NEW S, NEW s \in Seq(S), s # <<>>, Head(s) # <<>>,
         NEW O, NEW U, NEW R, NEW p, Matched(s, O, U, R, p), IsAsymmetric(R, O),
         NEW P, P = O \ {Head(s)}, NEW Q, Agree(R, Q, P)
  PROVE  Matched(Tail(s), P, U, Q, p)
<1> DEFINE t == Tail(s)
           x == Head(s)
<1>   /\ Len(s) \in Nat \ {0} /\ DOMAIN s = 1 .. Len(s) /\ DOMAIN t = 1 .. Len(s) - 1
      /\ \A i \in 1 .. Len(s) - 1 : t[i] = s[i + 1]
      /\ s[1] = x
  OBVIOUS
<1> Elements(s) = Elements(t) \cup {x}
  BY TailBefore, Zenon
<1> P = O \ {x} /\ x # <<>>
  BY Zenon
<1> HIDE DEF t, x
<1>3. x \in O /\ <<x, x>> \notin R /\ x \in Elements(s)
  BY DEF Matched, IsAsymmetric
<1> \A k \in DOMAIN t : k + 1 \in DOMAIN s /\ t[k] = s[k + 1] /\ 1 < k + 1
  OBVIOUS
<1>5. \A k, l \in DOMAIN t : k < l => k + 1 < l + 1
  OBVIOUS
<1>6. \A k \in DOMAIN t : t[k] # <<>> => t[k] \in P
  <2> SUFFICES ASSUME NEW k \in DOMAIN t, t[k] # <<>> PROVE t[k] \in O /\ t[k] # x
    BY Zenon
  <2>1. t[k] \in O
    BY Zenon DEF Matched
  <2>2. <<x, t[k]>> \in R
    BY DEF Matched
  <2> QED
    BY <1>3, <2>1, <2>2, Zenon
<1>7. \A k, l \in DOMAIN t : k < l /\ t[k] # <<>> /\ t[l] # <<>> => <<t[k], t[l]>> \in Q
  <2> SUFFICES ASSUME NEW k \in DOMAIN t, NEW l \in DOMAIN t, k < l, t[k] # <<>>, t[l] # <<>>
               PROVE  <<t[k], t[l]>> \in Q
    BY Zenon
  <2>1. <<t[k], t[l]>> \in R
    BY <1>5, Zenon DEF Matched
  <2> QED
    BY <1>6, <2>1, Zenon DEF Agree
<1>8. \A z, y \in P : y \in Elements(t) /\ <<z, y>> \in Q => z \in Elements(t)
  BY Zenon DEF Matched, Agree
<1>9. x \notin U
  BY <1>3, Zenon DEF Matched
<1>10. U \subseteq P /\ \A z \in P \cap Elements(t), y \in U : <<z, y>> \in Q
  BY <1>9, Zenon DEF Matched, Agree
<1>11. p => P \subseteq Elements(t) \cup U
  BY Zenon DEF Matched
<1> QED
  BY <1>6, <1>7, <1>8, <1>10, <1>11, Zenon DEF Matched, t

\* The writer stages requests, whose responses come after all others.
LEMMA MatchedMore ==
  ASSUME NEW s, NEW O, NEW U, NEW R, NEW p, Matched(s, O, U, R, p),
         NEW N, NEW Q, Agree(R, Q, O), <<>> \notin N, IsAsymmetric(Q, O \cup N),
         \A x \in O, y \in N : <<x, y>> \in Q
  PROVE  Matched(s, O \cup N, U \cup N, Q, p)
<1> \A k \in DOMAIN s : s[k] # <<>> => s[k] \in O
  BY Zenon DEF Matched
<1>2. \A k, l \in DOMAIN s : k < l /\ s[k] # <<>> /\ s[l] # <<>> => <<s[k], s[l]>> \in Q
  BY Zenon DEF Matched, Agree
<1>3. \A y \in N : y \in Elements(s) => y \in O
  BY Zenon DEF Elements
<1>4. \A x, y \in O \cup N : y \in Elements(s) /\ <<x, y>> \in Q => x \in Elements(s)
  <2> SUFFICES ASSUME NEW x \in O \cup N, NEW y \in O, y \in Elements(s), <<x, y>> \in Q
               PROVE  x \in Elements(s)
    BY <1>3, Zenon
  <2>1. x \in N => <<y, x>> \in Q
    BY Zenon
  <2>2. x \in O
    BY <2>1, Zenon DEF IsAsymmetric
  <2> QED
    BY <2>2, Zenon DEF Matched, Agree
<1>5. U \cup N \subseteq O \cup N
  BY Zenon DEF Matched
<1>6. \A x \in (O \cup N) \cap Elements(s), y \in U \cup N : <<x, y>> \in Q
  <2>1. U \subseteq O
    BY Zenon DEF Matched
  <2> QED
    BY <1>3, <2>1, Zenon DEF Matched, Agree
<1>7. p => O \cup N \subseteq Elements(s) \cup (U \cup N)
  BY Zenon DEF Matched
<1> QED
  BY <1>2, <1>4, <1>5, <1>6, <1>7, Zenon DEF Matched

\* The first response on its way is the first one that is owed.
LEMMA MatchedHead ==
  ASSUME NEW S, NEW s \in Seq(S), s # <<>>, Head(s) # <<>>,
         NEW O, NEW U, NEW R, NEW p, Matched(s, O, U, R, p), IsAsymmetric(R, O),
         NEW x \in O, \A y \in O \ {x} : <<x, y>> \in R, x # <<>>
  PROVE  Head(s) = x
<1> Len(s) \in Nat \ {0} /\ DOMAIN s = 1 .. Len(s) /\ Head(s) = s[1] /\ 1 \in DOMAIN s
  OBVIOUS
<1> SUFFICES ASSUME s[1] # x PROVE FALSE
  BY Zenon
<1> s[1] \in O /\ s[1] \in Elements(s)
  BY Zenon DEF Matched, Elements
<1>3. <<x, s[1]>> \in R
  BY Zenon
<1>4. x \in Elements(s)
  BY <1>3, Zenon DEF Matched
<1>5. PICK k \in DOMAIN s : s[k] = x
  BY <1>4, Zenon DEF Elements
<1>6. 1 < k
  BY <1>5
<1>7. <<s[1], x>> \in R
  BY <1>5, <1>6, Zenon DEF Matched
<1> QED
  BY <1>3, <1>7, Zenon DEF IsAsymmetric

==============================================================================
