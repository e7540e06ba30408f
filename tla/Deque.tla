------------------------------- MODULE Deque -------------------------------
(***************************************************************************)
(* The operations of the C++ standard library that connection_base applies *)
(* to its std::deque of requests (reqs_), as operators on sequences.  They *)
(* are written without recursion so that the proofs can reason about them. *)
(***************************************************************************)
EXTENDS Integers, Sequences, FiniteSets

Elements(s) == {s[i] : i \in DOMAIN s}

\* x has a position in s that comes before one of y.
Before(s, x, y) == \E i, j \in DOMAIN s : i < j /\ s[i] = x /\ s[j] = y

Positions(s, T) == {i \in DOMAIN s : s[i] \in T}

\* How many elements of I are at most i.
RankIn(I, i) == Cardinality({k \in I : k <= i})

\* The j-th smallest element of the finite set of integers I.
Nth(I, j) == CHOOSE i \in I : RankIn(I, i) = j

\* Variant of Keep: a partition that is not stable.
KeepReversed(s, T) ==
    LET I == Positions(s, T)
    IN  [j \in 1 .. Cardinality(I) |-> s[Nth(I, Cardinality(I) - j + 1)]]

(***************************************************************************)
(* The subsequence of the elements of s that are in T.  std::stable_partition *)
(* with the predicate "in T" followed by an erase of the second part       *)
(* leaves exactly this in the deque, and so does the erase-remove idiom.   *)
(***************************************************************************)
Keep(s, T) ==
    LET I == Positions(s, T)
    IN  [j \in 1 .. Cardinality(I) |-> s[Nth(I, j)]]

(***************************************************************************)
(* std::partition_point for the predicate "in T", as the number of         *)
(* elements before the point.  Like the library function it has a value    *)
(* only when every element in T precedes every element outside T.          *)
(***************************************************************************)
IsPartitioned(s, T) ==
    \A i, j \in DOMAIN s : i < j /\ s[j] \in T => s[i] \in T

PartitionPoint(s, T) ==
    CHOOSE n \in 0 .. Len(s) : \A i \in DOMAIN s : s[i] \in T <=> i <= n

\* e inserted after the first n elements of s.
InsertAfter(s, n, e) == SubSeq(s, 1, n) \o <<e>> \o SubSeq(s, n + 1, Len(s))
=============================================================================
