----------------------------- MODULE ParserProofs -----------------------------
(***************************************************************************)
(* The parser's stack is in order for every depth, every set of lengths    *)
(* and wherever a string is streamed or a session cut off; and the parser  *)
(* finds the end of every message: it implements Framing.                  *)
(***************************************************************************)
EXTENDS Parser, FiniteSetTheorems, TLAPS

\* A header has been consumed, and so has the beginning of a string.
ConsumedInv == bulk \/ streaming => consumed

ParserInv == TypeOK /\ LevelsAreOpen /\ ConsumedInv

\* commit_elem leaves the levels that are finished and no other: it ends at a
\* level with elements missing, or has used the sentinel once.
LEMMA CommitElem ==
  ASSUME NEW sz \in [Words -> Nat], depth \in Words, sz[0] = 2,
         \A d \in 1 .. depth : sz[d] > 0, commit_elem(sz)
  PROVE  /\ depth' \in Words /\ sizes' \in [Words -> Nat]
         /\ \A d \in 1 .. depth' : sizes'[d] > 0
         /\ \/ depth' = 0 /\ sizes'[0] = 1
            \/ depth' > 0 /\ sizes'[0] = 2
         /\ depth' <= depth /\ (sz[depth] = 1 => depth' < depth)
         /\ depth > 0 /\ sz[depth] > 1 => depth' = depth /\ sizes'[depth] = sz[depth] - 1
<1>1. PICK d \in 0 .. depth :
         /\ sz[d] # 1 /\ \A i \in d + 1 .. depth : sz[i] = 1
         /\ depth' = d
         /\ sizes' = [i \in Words |-> IF i = d THEN sz[i] - 1
                                       ELSE IF d < i /\ i <= depth THEN 0
                                       ELSE sz[i]]
  BY Zenon DEF commit_elem
<1>2. /\ max_embedded_depth \in Nat /\ depth \in Nat /\ d \in Nat /\ d \in Words
      /\ 0 .. depth \subseteq Words
  BY ParserAssumption DEF Words
<1>3. sz[d] \in Nat /\ sz[d] > 1
  BY <1>1, <1>2
<1>4. \A i \in Words : sizes'[i] \in Nat
  BY <1>1, <1>2, <1>3
<1>5. sizes' \in [Words -> Nat]
  BY <1>1, <1>4, Zenon
<1>6. \A i \in 1 .. d : sizes'[i] > 0
  BY <1>1, <1>2, <1>3
<1>7. d = 0 => sizes'[0] = 1
  BY <1>1, <1>2
<1>8. d > 0 => sizes'[0] = 2
  BY <1>1, <1>2
<1>9. depth > 0 /\ sz[depth] > 1 => d = depth /\ sizes'[depth] = sz[depth] - 1
  BY <1>1, <1>2
<1>10. d <= depth /\ (sz[depth] = 1 => d < depth)
  BY <1>1, <1>2
<1> QED
  BY <1>1, <1>2, <1>5, <1>6, <1>7, <1>8, <1>9, <1>10

\* Every step that calls commit_elem keeps the invariant: afterwards the
\* message is finished exactly if the sentinel has been used, and the end of a
\* string brings depth_ back into the array.
LEMMA CommitStep ==
  ASSUME ParserInv, NEW sz \in [Words -> Nat], commit_elem(sz), consuming,
         sz[0] = sizes[0], \A d \in 1 .. depth : sz[d] > 0,
         consumed' = TRUE, bulk' = FALSE, UNCHANGED error,
         last' \in (Types \X Lengths) \cup {NoAggregate}, streaming' \in BOOLEAN,
         depth \in Levels \/ streaming' = streaming \/ sz[depth] = 1
  PROVE  ParserInv'
<1>1. TypeOK /\ LevelsAreOpen
  BY Zenon DEF ParserInv
<1>2. sz[0] = 2
  BY <1>1, Zenon DEF LevelsAreOpen, consuming
<1>3. /\ depth' \in Words /\ sizes' \in [Words -> Nat]
      /\ \A d \in 1 .. depth' : sizes'[d] > 0
      /\ \/ depth' = 0 /\ sizes'[0] = 1
         \/ depth' > 0 /\ sizes'[0] = 2
      /\ depth' <= depth /\ (sz[depth] = 1 => depth' < depth)
  BY <1>1, <1>2, CommitElem, Zenon DEF TypeOK
<1>4. depth \in Levels \/ sz[depth] = 1 => depth' \in Levels
  BY <1>1, <1>3, ParserAssumption DEF TypeOK, Levels, Words
<1>5. TypeOK'
  BY <1>1, <1>3, <1>4, Zenon DEF TypeOK
<1>6. LevelsAreOpen'
  BY <1>3 DEF LevelsAreOpen, done
<1>7. ConsumedInv'
  BY Zenon DEF ConsumedInv
<1> QED
  BY <1>5, <1>6, <1>7, Zenon DEF ParserInv

\* A step that opens a level with n elements keeps the invariant: at the
\* deepest level only a string does it.
LEMMA OpenStep ==
  ASSUME ParserInv, NEW n \in Nat, n > 0, depth \in Levels, consuming, ~bulk,
         depth < max_embedded_depth \/ (streaming' /\ max_embedded_depth \in StreamLevels),
         depth' = depth + 1, sizes' = [sizes EXCEPT ![depth + 1] = n],
         consumed' = TRUE, UNCHANGED <<bulk, error>>,
         last' \in (Types \X Lengths) \cup {NoAggregate}, streaming' \in BOOLEAN
  PROVE  ParserInv'
<1>1. TypeOK /\ LevelsAreOpen
  BY Zenon DEF ParserInv
<1>2. /\ max_embedded_depth \in Nat /\ depth \in Nat /\ depth + 1 \in Words
      /\ 0 \in Words /\ 1 .. depth + 1 \subseteq Words
      /\ depth < max_embedded_depth => depth + 1 \in Levels
  BY ParserAssumption DEF Levels, Words
<1>3. sizes' \in [Words -> Nat] /\ sizes'[0] = sizes[0]
  BY <1>1, <1>2 DEF TypeOK
<1>4. \A d \in 1 .. depth' : sizes'[d] > 0
  BY <1>1, <1>2 DEF TypeOK, LevelsAreOpen
<1>5. TypeOK'
  BY <1>1, <1>2, <1>3, Zenon DEF TypeOK
<1>6. LevelsAreOpen'
  BY <1>1, <1>2, <1>3, <1>4 DEF LevelsAreOpen, done, consuming
<1>7. ConsumedInv'
  BY Zenon DEF ConsumedInv
<1> QED
  BY <1>5, <1>6, <1>7, Zenon DEF ParserInv

\* The inductive invariant of the parser.
THEOREM ParserInvariant == Spec => []ParserInv
<1> USE DEF NoAggregate
<1>1. Init => ParserInv
  <2> SUFFICES ASSUME Init PROVE ParserInv
    BY Zenon
  <2>1. /\ bulk \in BOOLEAN /\ consumed \in BOOLEAN /\ error \in BOOLEAN
        /\ streaming \in BOOLEAN /\ ~done /\ ConsumedInv
    BY Zenon DEF Init, done, ConsumedInv
  <2>2. /\ depth = 0 /\ depth \in Levels /\ depth \in Words /\ sizes \in [Words -> Nat]
        /\ sizes[0] = 2 /\ last = NoAggregate
    BY ParserAssumption DEF Init, reset_sizes, Levels, Words
  <2> QED
    BY <2>1, <2>2 DEF ParserInv, TypeOK, LevelsAreOpen
<1>2. ParserInv /\ [Next]_vars => ParserInv'
  <2> SUFFICES ASSUME ParserInv, [Next]_vars PROVE ParserInv'
    BY Zenon
  <2>0. /\ TypeOK /\ LevelsAreOpen /\ ConsumedInv
        /\ max_embedded_depth \in Nat /\ depth \in Nat /\ 0 .. depth \subseteq Words
        /\ sizes \in [Words -> Nat] /\ \A d \in 1 .. depth : sizes[d] > 0
    BY ParserAssumption DEF ParserInv, TypeOK, LevelsAreOpen, Words
  <2>1. CASE consume_simple
    BY <2>0, <2>1, CommitStep, Zenon DEF consume_simple, TypeOK
  <2>2. CASE consume_bulk_header
    BY <2>0, <2>2, Zenon
    DEF consume_bulk_header, consuming, ParserInv, TypeOK, LevelsAreOpen, ConsumedInv, done
  <2>3. CASE consume_bulk
    <3>1. PICK sz \in sizes_read : commit_elem(sz)
      BY <2>3, Zenon DEF consume_bulk
    <3>2. /\ sz \in [Words -> Nat] /\ sz[0] = sizes[0]
          /\ \A d \in 1 .. depth : sz[d] > 0
      <4>1. CASE depth \in Levels
        BY <2>0, <3>1, <4>1, Zenon DEF sizes_read
      <4>2. CASE depth \notin Levels
        <5>1. PICK n \in 1 .. Unlimited : sz = [sizes EXCEPT ![depth] = n]
          BY <3>1, <4>2, Zenon DEF sizes_read
        <5>2. depth # 0 /\ n \in Nat /\ n > 0 /\ 0 \in Words
          BY <2>0, <4>2, ParserAssumption DEF Levels, Words
        <5> QED
          BY <2>0, <5>1, <5>2
      <4> QED
        BY <4>1, <4>2, Zenon
    <3> QED
      BY <2>0, <2>3, <3>1, <3>2, CommitStep, Zenon DEF consume_bulk, TypeOK, ConsumedInv
  <2>4. CASE consume_streamed_string
    <3>1. /\ depth \in StreamLevels /\ consuming /\ ~bulk /\ consumed' = TRUE
          /\ depth' = depth + 1 /\ sizes' = [sizes EXCEPT ![depth + 1] = Unlimited]
          /\ UNCHANGED <<bulk, error>> /\ last' = NoAggregate
      BY <2>4, Zenon DEF consume_streamed_string
    <3>2. streaming' \in BOOLEAN /\ streaming' /\ ~streaming
      BY <2>4, Zenon DEF consume_streamed_string
    <3>3. Unlimited \in Nat /\ Unlimited > 0
      BY ParserAssumption
    <3>4. last' \in (Types \X Lengths) \cup {NoAggregate}
      BY <3>1, Zenon
    <3>5. depth \in Levels
      BY <2>0, <3>2, Zenon DEF TypeOK
    <3>6. depth < max_embedded_depth \/ max_embedded_depth \in StreamLevels
      BY <2>0, <3>1, <3>5 DEF Levels
    <3> HIDE DEF NoAggregate
    <3> QED
      BY <3>1, <3>2, <3>3, <3>4, <3>5, <3>6, OpenStep, Zenon
  <2>5. CASE consume_last_part
    <3> DEFINE sz == [sizes EXCEPT ![depth] = 1]
    <3>1. depth # 0 /\ 0 \in Words
      BY <2>0, <2>5 DEF consume_last_part, consuming, done, ConsumedInv, Words
    <3>2. /\ sz \in [Words -> Nat] /\ sz[0] = sizes[0] /\ sz[depth] = 1
          /\ \A d \in 1 .. depth : sz[d] > 0
      BY <2>0, <3>1
    <3>3. commit_elem(sz)
      BY <2>5, Zenon DEF consume_last_part
    <3> HIDE DEF sz
    <3> QED
      <4>1. /\ consuming /\ ~bulk /\ consumed' = TRUE /\ last' = NoAggregate
            /\ UNCHANGED <<bulk, error>>
        BY <2>5, Zenon DEF consume_last_part
      <4>2. streaming' \in BOOLEAN
        BY <2>5, Zenon DEF consume_last_part
      <4>3. bulk' = FALSE
        BY <2>0, <4>1, Zenon DEF TypeOK
      <4> QED
        BY <3>2, <3>3, <4>1, <4>2, <4>3, CommitStep, Zenon
  <2>6. ASSUME NEW t \in Types, NEW l \in Lengths, consume_aggregate(t, l) PROVE ParserInv'
    <3>1. l \in Nat /\ <<t, l>> \in Types \X Lengths
      BY ParserAssumption, Zenon
    <3>2. CASE l = 0
      BY <2>0, <2>6, <3>1, <3>2, CommitStep, Zenon DEF consume_aggregate, TypeOK
    <3>3. CASE l # 0 /\ too_deep
      BY <2>0, <2>6, <3>3, Zenon
      DEF consume_aggregate, ParserInv, TypeOK, LevelsAreOpen, ConsumedInv, done
    <3>4. CASE l # 0 /\ ~too_deep
      <4> DEFINE n == l * element_multiplicity(t)
      <4>1. n \in Nat /\ n > 0
        BY <3>1, <3>4 DEF element_multiplicity
      <4>2. depth < max_embedded_depth /\ depth \in Levels
        BY <2>0, <2>6, <3>4 DEF consume_aggregate, too_deep, TypeOK, Levels
      <4>3. /\ depth' = depth + 1 /\ sizes' = [sizes EXCEPT ![depth + 1] = n]
            /\ consumed' = TRUE /\ last' = <<t, l>> /\ UNCHANGED <<bulk, error, streaming>>
            /\ consuming /\ ~bulk /\ ~streaming
        BY <2>6, <3>4, Zenon DEF consume_aggregate
      <4> HIDE DEF n
      <4> QED
        BY <2>0, <3>1, <4>1, <4>2, <4>3, OpenStep, Zenon DEF TypeOK
    <3> QED
      BY <3>2, <3>3, <3>4, Zenon
  <2>7. CASE consume_invalid \/ reader_op_exits
    <3>1. error' \in BOOLEAN /\ UNCHANGED <<depth, sizes, bulk, consumed, streaming, last>>
      BY <2>7, Zenon DEF consume_invalid, reader_op_exits
    <3> QED
      BY <2>0, <3>1, Zenon DEF ParserInv, TypeOK, LevelsAreOpen, ConsumedInv, done
  <2>8. CASE reset
    <3>1. /\ bulk' \in BOOLEAN /\ consumed' \in BOOLEAN /\ error' \in BOOLEAN
          /\ streaming' \in BOOLEAN /\ ~done' /\ ConsumedInv'
      BY <2>8, Zenon DEF reset, done, ConsumedInv
    <3>2. /\ depth' = 0 /\ depth' \in Levels /\ depth' \in Words /\ sizes' \in [Words -> Nat]
          /\ sizes'[0] = 2 /\ last' = NoAggregate
      BY <2>8, ParserAssumption DEF reset, reset_sizes, Levels, Words
    <3> QED
      BY <3>1, <3>2 DEF ParserInv, TypeOK, LevelsAreOpen
  <2>9. CASE UNCHANGED vars
    BY <2>0, <2>9, Zenon DEF vars, ParserInv, TypeOK, LevelsAreOpen, ConsumedInv, done
  <2> QED
    BY <2>1, <2>2, <2>3, <2>4, <2>5, <2>6, <2>7, <2>8, <2>9, Zenon DEF Next
<1> QED
  BY <1>1, <1>2, PTL DEF Spec

\* Whatever aggregates the server announces, depth_ (parser.ipp) is an index of
\* sizes_: the one way out is a string that is streamed at the deepest level.
THEOREM ParserTypeCorrect == Spec => []TypeOK
<1>1. ParserInv => TypeOK
  BY Zenon DEF ParserInv
<1> QED
  BY <1>1, ParserInvariant, PTL

\* The loop of commit_elem stops, and the sentinel is used once per message.
THEOREM ParserLevelsAreOpen == Spec => []LevelsAreOpen
<1>1. ParserInv => LevelsAreOpen
  BY Zenon DEF ParserInv
<1> QED
  BY <1>1, ParserInvariant, PTL

\* The server begins no string at the deepest level.
StreamsFit == max_embedded_depth \notin StreamLevels

\* A string is streamed at a level of its own, which its parts do not use up.
StringInv ==
    streaming => /\ depth \in Levels /\ depth > 0 /\ sizes[depth] > 1
                 /\ bulk => sizes[depth] > 2

\* A part of a string leaves its level open, and commit_elem reads what is there.
LEMMA PartStep ==
  ASSUME ParserInv, StringInv, consume_bulk, streaming
  PROVE  /\ consuming /\ last' = NoAggregate /\ UNCHANGED <<depth, streaming, error>>
         /\ bulk' = FALSE /\ depth > 0 /\ sizes'[depth] > 1
         /\ \A d \in 0 .. depth : d < depth => sizes'[d] = sizes[d]
<1>1. depth \in Levels /\ depth > 0 /\ sizes[depth] > 2
  BY Zenon DEF consume_bulk, StringInv
<1>2. commit_elem(sizes)
  BY <1>1, Zenon DEF consume_bulk, sizes_read
<1>3. /\ depth \in Nat /\ depth \in Words /\ 0 .. depth \subseteq Words
      /\ sizes \in [Words -> Nat]
  BY <1>1, ParserAssumption DEF ParserInv, TypeOK, Levels, Words
<1>4. /\ depth' = depth
      /\ sizes' = [i \in Words |-> IF i = depth THEN sizes[i] - 1
                                   ELSE IF depth < i /\ i <= depth THEN 0
                                   ELSE sizes[i]]
  BY <1>1, <1>2, <1>3 DEF commit_elem
<1>5. sizes'[depth] > 1 /\ \A d \in 0 .. depth : d < depth => sizes'[d] = sizes[d]
  BY <1>1, <1>3, <1>4
<1> QED
  BY <1>1, <1>4, <1>5, Zenon DEF consume_bulk

\* If strings fit, they stay at their level from the first part to the last.
LEMMA StringInvariance == ASSUME StreamsFit PROVE Spec => []StringInv
<1>1. Init => StringInv
  BY Zenon DEF Init, StringInv
<1>2. ParserInv /\ StringInv /\ [Next]_vars => StringInv'
  <2> SUFFICES ASSUME ParserInv, StringInv, [Next]_vars, streaming' PROVE StringInv'
    BY Zenon DEF StringInv
  <2>0. /\ max_embedded_depth \in Nat /\ depth \in Nat /\ depth \in Words
        /\ sizes \in [Words -> Nat] /\ (~streaming => depth \in Levels)
    BY ParserAssumption DEF ParserInv, TypeOK, Words
  <2>1. CASE consume_bulk_header
    BY <2>0, <2>1 DEF consume_bulk_header, StringInv
  <2>2. CASE consume_bulk
    <3>1. streaming
      BY <2>2, Zenon DEF consume_bulk
    <3>2. depth' = depth /\ depth > 0 /\ sizes'[depth] > 1 /\ bulk' = FALSE
      BY <2>2, <3>1, PartStep, Zenon
    <3>3. depth \in Levels
      BY <3>1, Zenon DEF StringInv
    <3> QED
      BY <3>2, <3>3, Zenon DEF StringInv
  <2>3. CASE consume_streamed_string
    <3>1. /\ depth \in StreamLevels /\ ~bulk /\ UNCHANGED bulk /\ depth' = depth + 1
          /\ sizes' = [sizes EXCEPT ![depth + 1] = Unlimited] /\ depth \in Levels
      BY <2>0, <2>3, Zenon DEF consume_streamed_string
    <3>2. depth < max_embedded_depth
      BY <2>0, <3>1 DEF StreamsFit, Levels
    <3>3. depth' \in Levels /\ depth' > 0 /\ sizes'[depth'] > 1
      BY <2>0, <3>1, <3>2, ParserAssumption DEF Levels, Words
    <3> QED
      BY <3>1, <3>3, Zenon DEF StringInv
  <2>4. CASE consume_invalid \/ reader_op_exits \/ UNCHANGED vars
    BY <2>4, Zenon DEF consume_invalid, reader_op_exits, vars, StringInv
  <2> QED
    BY <2>1, <2>2, <2>3, <2>4, Zenon
    DEF Next, consume_simple, consume_last_part, consume_aggregate, reset
<1> QED
  BY <1>1, <1>2, ParserInvariant, PTL DEF Spec

-------------------------------------------------------------------------------
(* The values of a message that have not arrived.                            *)

\* u[d] values at each of the levels 0 to m.
Cells(u, m) == {p \in (0 .. m) \X Nat : 1 <= p[2] /\ p[2] <= u[p[1]]}

unreads == [d \in 0 .. depth |-> unread(d)]

\* A place is a level and one of the values missing there.
LEMMA PlacesAreCells ==
  ASSUME depth \in Nat, unreads \in [0 .. depth -> Nat]
  PROVE  places = Cells(unreads, depth)
<1>1. \A d \in 0 .. depth : unread(d) = unreads[d] /\ unreads[d] \in Nat
  BY Zenon DEF unreads
<1>2. \A p : p \in places <=> \E d \in 0 .. depth : \E i \in 1 .. unreads[d] : p = <<d, i>>
  BY <1>1 DEF places
<1> QED
  BY <1>1, <1>2 DEF Cells

\* The levels after c are left, and with them one value.
Takes(u, m, v, c) ==
    /\ m \in Nat /\ c \in 0 .. m /\ u \in [0 .. m -> Nat] /\ v \in [0 .. c -> Nat]
    /\ u[m] > 0
    /\ \A i \in 0 .. c : v[i] = IF i = m THEN u[i] - 1 ELSE u[i]
    /\ \A i \in c + 1 .. m : u[i] = IF i = m THEN 1 ELSE 0
Taken(u, m, v, c) ==
    /\ <<m, u[m]>> \in Cells(u, m)
    /\ Cells(v, c) = Cells(u, m) \ {<<m, u[m]>>}

\* A level of k values is opened in the place of one value.
Opens(u, m, v, k) ==
    /\ m \in Nat /\ k \in Nat /\ u \in [0 .. m -> Nat] /\ v \in [0 .. m + 1 -> Nat]
    /\ u[m] > 0 /\ v[m + 1] = k
    /\ \A i \in 0 .. m : v[i] = IF i = m THEN u[i] - 1 ELSE u[i]
Opened(u, m, v, k) ==
    /\ <<m, u[m]>> \in Cells(u, m)
    /\ Cells(v, m + 1) = (Cells(u, m) \ {<<m, u[m]>>}) \cup ({m + 1} \X (1 .. k))
    /\ (Cells(u, m) \ {<<m, u[m]>>}) \cap ({m + 1} \X (1 .. k)) = {}

\* What Takes takes is the last value of the innermost level.
LEMMA CellsTake ==
  ASSUME NEW m, NEW c, NEW u, NEW v, Takes(u, m, v, c)
  PROVE  Taken(u, m, v, c)
<1> USE DEF Takes
<1>1. ASSUME NEW d \in 0 .. m, NEW i \in Nat, 1 <= i
      PROVE  d <= c /\ i <= v[d] <=> i <= u[d] /\ ~(d = m /\ i = u[m])
  <2> u[d] \in Nat /\ u[m] \in Nat /\ c \in Nat
    OBVIOUS
  <2>1. CASE d <= c
    <3>1. v[d] = IF d = m THEN u[d] - 1 ELSE u[d]
      BY <2>1
    <3> QED
      BY <1>1, <2>1, <3>1
  <2>2. CASE ~(d <= c)
    <3>1. u[d] = IF d = m THEN 1 ELSE 0
      BY <2>2
    <3> QED
      BY <1>1, <2>2, <3>1
  <2> QED
    BY <2>1, <2>2, Zenon
<1>2. ASSUME NEW p PROVE p \in Cells(v, c) <=> p \in Cells(u, m) \ {<<m, u[m]>>}
  BY <1>1, SMTT(30) DEF Cells
<1> QED
  <2>1. <<m, u[m]>> \in Cells(u, m)
    BY DEF Cells
  <2>2. Cells(v, c) = Cells(u, m) \ {<<m, u[m]>>}
    BY <1>2, Zenon
  <2> QED
    BY <2>1, <2>2, Zenon DEF Taken

\* What Opens adds is the new level, and it takes one value.
LEMMA CellsOpen ==
  ASSUME NEW m, NEW k, NEW u, NEW v, Opens(u, m, v, k)
  PROVE  Opened(u, m, v, k)
<1> USE DEF Opens
<1>1. ASSUME NEW d \in 0 .. m, NEW i \in Nat, 1 <= i
      PROVE  i <= v[d] <=> i <= u[d] /\ ~(d = m /\ i = u[m])
  <2> u[d] \in Nat /\ u[m] \in Nat /\ v[d] = IF d = m THEN u[d] - 1 ELSE u[d]
    OBVIOUS
  <2> QED
    BY <1>1, SMTT(30)
<1>2. ASSUME NEW p \in (0 .. m) \X Nat
      PROVE  p \in Cells(v, m + 1) <=> p \in Cells(u, m) \ {<<m, u[m]>>}
  BY <1>1, SMTT(30) DEF Cells
<1>3. ASSUME NEW p, p \notin (0 .. m) \X Nat
      PROVE  p \in Cells(v, m + 1) <=> p \in {m + 1} \X (1 .. k)
  BY <1>3, SMTT(30) DEF Cells
<1>4. Cells(u, m) \subseteq (0 .. m) \X Nat /\ ({m + 1} \X (1 .. k)) \cap ((0 .. m) \X Nat) = {}
  BY DEF Cells
<1>5. Cells(v, m + 1) = (Cells(u, m) \ {<<m, u[m]>>}) \cup ({m + 1} \X (1 .. k))
  BY <1>2, <1>3, <1>4, Zenon
<1>6. <<m, u[m]>> \in Cells(u, m)
  BY DEF Cells
<1> QED
  <2>1. (Cells(u, m) \ {<<m, u[m]>>}) \cap ({m + 1} \X (1 .. k)) = {}
    BY <1>4, Zenon
  <2> QED
    BY <1>5, <1>6, <2>1, Zenon DEF Opened

\* There are finitely many of them.
LEMMA PlacesFinite ==
  ASSUME depth \in Nat, \A d \in 0 .. depth : unread(d) \in Int
  PROVE  IsFiniteSet(places) /\ outstanding \in Nat
<1> DEFINE f == [d \in 0 .. depth |-> {d} \X (1 .. unread(d))]
           S == {{d} \X (1 .. unread(d)) : d \in 0 .. depth}
<1>1. f \in Surjection(0 .. depth, S)
  BY Zenon DEF Surjection
<1>2. IsFiniteSet(0 .. depth)
  BY FS_Interval
<1>3. IsFiniteSet(S)
  BY <1>1, <1>2, FS_Surjection, Zenon
<1>4. ASSUME NEW d \in 0 .. depth PROVE IsFiniteSet({d} \X (1 .. unread(d)))
  <2>1. IsFiniteSet({d})
    BY FS_Singleton, Zenon
  <2>2. IsFiniteSet(1 .. unread(d))
    BY FS_Interval
  <2> QED
    BY <2>1, <2>2, FS_Product, Zenon
<1>5. \A T \in S : IsFiniteSet(T)
  BY <1>4, Zenon
<1>6. IsFiniteSet(places)
  BY <1>3, <1>5, FS_UNION, Zenon DEF places
<1> QED
  BY <1>6, FS_CardinalityType, Zenon DEF outstanding

\* What the invariant says of them: while the message is not finished, one is
\* missing at the innermost level.
LEMMA UnreadTypes ==
  ASSUME ParserInv, StringInv
  PROVE  /\ depth \in Nat /\ unreads \in [0 .. depth -> Nat]
         /\ ~done => unreads[depth] > 0
         /\ done => places = {}
         /\ places = Cells(unreads, depth) /\ IsFiniteSet(places) /\ outstanding \in Nat
<1>1. /\ depth \in Nat /\ 0 .. depth \subseteq Words /\ sizes \in [Words -> Nat]
      /\ \A d \in 1 .. depth : sizes[d] > 0
      /\ sizes[0] \in {1, 2} /\ (sizes[0] = 1 <=> done) /\ (streaming => depth > 0)
  BY ParserAssumption DEF ParserInv, TypeOK, LevelsAreOpen, StringInv, Words
<1>2. \A d \in 0 .. depth : unread(d) \in Nat
  BY <1>1 DEF unread, missing, done
<1>3. ~done => unread(depth) > 0
  BY <1>1 DEF unread, missing
<1>4. done => depth = 0 /\ unread(0) = 0
  BY <1>1 DEF unread, missing, done
<1>5. unreads \in [0 .. depth -> Nat] /\ unreads[depth] = unread(depth)
  BY <1>1, <1>2 DEF unreads
<1>6. places = Cells(unreads, depth)
  BY <1>1, <1>5, PlacesAreCells, Zenon
<1>7. done => places = {}
  BY <1>4, <1>5, <1>6 DEF Cells
<1>8. IsFiniteSet(places) /\ outstanding \in Nat
  BY <1>1, <1>2, PlacesFinite
<1> QED
  BY <1>1, <1>3, <1>5, <1>6, <1>7, <1>8, Zenon

\* The same of the next state.
LEMMA NextUnreads ==
  ParserInv' /\ StringInv' => unreads' \in [0 .. depth' -> Nat] /\ places' = Cells(unreads', depth')
<1> DEFINE Counted == unreads \in [0 .. depth -> Nat] /\ places = Cells(unreads, depth)
<1>1. ParserInv /\ StringInv => Counted
  BY UnreadTypes, Zenon
<1> HIDE DEF Counted
<1>2. ParserInv' /\ StringInv' => Counted'
  BY <1>1, PTL
<1> QED
  BY <1>2, Zenon DEF Counted

\* One value is outstanding before the message: the message itself.
LEMMA OneAtStart ==
  ASSUME depth = 0, sizes[0] = 2, streaming = FALSE
  PROVE  outstanding = 1
<1>1. unread(0) = 1
  BY DEF unread, missing
<1>2. places = {<<0, 1>>}
  BY <1>1 DEF places
<1> QED
  BY <1>2, FS_Singleton, Zenon DEF outstanding

\* The same of the next state.
LEMMA NextStarts ==
  depth' = 0 /\ sizes'[0] = 2 /\ streaming' = FALSE => outstanding' = 1
<1> DEFINE Start == depth = 0 /\ sizes[0] = 2 /\ streaming = FALSE
           One   == outstanding = 1
<1>1. Start => One
  BY OneAtStart, Zenon
<1> HIDE DEF Start, One
<1>2. Start' => One'
  BY <1>1, PTL
<1> QED
  BY <1>2, Zenon DEF Start, One

\* The message is finished when no value of it is outstanding.
LEMMA DoneIsZero ==
  ASSUME ParserInv, StringInv
  PROVE  outstanding \in Nat /\ (outstanding = 0 <=> done)
<1>1. IsFiniteSet(places) => (Cardinality(places) = 0 <=> places = {})
  BY FS_EmptySet, Zenon
<1>2. ~done => <<depth, unreads[depth]>> \in Cells(unreads, depth)
  BY UnreadTypes DEF Cells
<1> QED
  BY <1>1, <1>2, UnreadTypes, Zenon DEF outstanding

\* Inside a message every level below the innermost one is open.
LEMMA OpenLevels ==
  ASSUME ParserInv, StringInv, ~done
  PROVE  /\ depth \in Nat /\ 0 .. depth \subseteq Words /\ sizes \in [Words -> Nat]
         /\ sizes[0] = 2 /\ \A d \in 1 .. depth : sizes[d] > 0
         /\ streaming => depth > 0
<1>1. depth \in Words /\ sizes \in [Words -> Nat]
  BY Zenon DEF ParserInv, TypeOK
<1>2. depth \in Nat /\ 0 .. depth \subseteq Words
  BY <1>1, ParserAssumption DEF Words
<1>3. sizes[0] = 2 /\ \A d \in 1 .. depth : sizes[d] > 0
  BY Zenon DEF ParserInv, LevelsAreOpen
<1>4. streaming => depth > 0
  BY Zenon DEF StringInv
<1> QED
  BY <1>1, <1>2, <1>3, <1>4, Zenon

\* commit_elem takes one value from the innermost level, whatever levels it
\* leaves: what is left at a level below has been counted there already.
LEMMA CommitTakesOne ==
  ASSUME ParserInv, ParserInv', StringInv, StringInv', ~done,
         NEW sz \in [Words -> Nat], commit_elem(sz), ~streaming',
         \A d \in 0 .. depth : d < depth => sz[d] = sizes[d],
         IF streaming THEN sz[depth] = 1 ELSE sz[depth] = sizes[depth]
  PROVE  outstanding' = outstanding - 1
<1>1. /\ depth \in Nat /\ 0 .. depth \subseteq Words /\ sizes \in [Words -> Nat]
      /\ sizes[0] = 2 /\ \A d \in 1 .. depth : sizes[d] > 0
      /\ streaming => depth > 0
  BY OpenLevels, Zenon
<1>2. /\ unreads \in [0 .. depth -> Nat] /\ unreads[depth] > 0
      /\ places = Cells(unreads, depth) /\ IsFiniteSet(places)
  BY UnreadTypes, Zenon
<1>3. unreads' \in [0 .. depth' -> Nat] /\ places' = Cells(unreads', depth')
  BY NextUnreads, Zenon
<1>4. PICK c \in 0 .. depth :
         /\ sz[c] # 1 /\ \A i \in c + 1 .. depth : sz[i] = 1
         /\ depth' = c
         /\ sizes' = [i \in Words |-> IF i = c THEN sz[i] - 1
                                       ELSE IF c < i /\ i <= depth THEN 0
                                       ELSE sz[i]]
  BY Zenon DEF commit_elem
<1>5. /\ c \in Nat /\ c <= depth
      /\ \A i \in 0 .. c : sizes'[i] = IF i = c THEN sz[i] - 1 ELSE sz[i]
  BY <1>1, <1>4
<1>6. \A i \in 0 .. c : unreads'[i] = IF i = depth THEN unreads[i] - 1 ELSE unreads[i]
  BY <1>1, <1>4, <1>5 DEF unreads, unread, missing
<1>7. \A i \in c + 1 .. depth : unreads[i] = IF i = depth THEN 1 ELSE 0
  BY <1>1, <1>4 DEF unreads, unread, missing
<1>8. /\ <<depth, unreads[depth]>> \in places
      /\ places' = places \ {<<depth, unreads[depth]>>}
  <2>1. unreads' \in [0 .. c -> Nat] /\ places' = Cells(unreads', c)
    BY <1>3, <1>4, Zenon
  <2>2. Takes(unreads, depth, unreads', c)
    BY <1>1, <1>2, <1>6, <1>7, <2>1, Zenon DEF Takes
  <2>3. Taken(unreads, depth, unreads', c)
    BY <2>2, CellsTake, Zenon
  <2> QED
    BY <1>2, <2>1, <2>3, Zenon DEF Taken
<1> QED
  BY <1>2, <1>8, FS_RemoveElement, Zenon DEF outstanding

\* A level that is opened takes one value from the level below and adds its
\* own elements, or the one string that is streamed.
LEMMA OpeningAdds ==
  ASSUME ParserInv, ParserInv', StringInv, StringInv', ~done, ~streaming, NEW n \in Nat,
         depth' = depth + 1, sizes' = [sizes EXCEPT ![depth + 1] = n]
  PROVE  outstanding' = (outstanding - 1) + IF streaming' THEN 1 ELSE n
<1> DEFINE x == <<depth, unreads[depth]>>
           k == IF streaming' THEN 1 ELSE n
           A == {depth + 1} \X (1 .. k)
<1>1. /\ depth \in Nat /\ 0 .. depth + 1 \subseteq Words /\ sizes \in [Words -> Nat]
      /\ sizes[0] = 2 /\ k \in Nat
  BY ParserAssumption DEF ParserInv, TypeOK, LevelsAreOpen, Words, Levels
<1>2. /\ unreads \in [0 .. depth -> Nat] /\ unreads[depth] > 0
      /\ places = Cells(unreads, depth) /\ IsFiniteSet(places) /\ outstanding \in Nat
  BY UnreadTypes, Zenon
<1>3. unreads' \in [0 .. depth + 1 -> Nat] /\ places' = Cells(unreads', depth + 1)
  BY NextUnreads, Zenon
<1>4. \A i \in 0 .. depth : unreads'[i] = IF i = depth THEN unreads[i] - 1 ELSE unreads[i]
  BY <1>1 DEF unreads, unread, missing
<1>5. unreads'[depth + 1] = k
  BY <1>1 DEF unreads, unread, missing
<1> HIDE DEF k
<1>6. Opens(unreads, depth, unreads', k)
  BY <1>1, <1>2, <1>3, <1>4, <1>5, Zenon DEF Opens
<1>7. Opened(unreads, depth, unreads', k)
  BY <1>6, CellsOpen, Zenon
<1>8. x \in places /\ places' = (places \ {x}) \cup A /\ (places \ {x}) \cap A = {}
  BY <1>2, <1>3, <1>7, Zenon DEF Opened
<1>9. IsFiniteSet(A) /\ Cardinality(A) = k
  <2>1. IsFiniteSet({depth + 1}) /\ Cardinality({depth + 1}) = 1
    BY FS_Singleton, Zenon
  <2>2. IsFiniteSet(1 .. k) /\ Cardinality(1 .. k) = k
    <3>1. 1 \in Int /\ k \in Int
      BY <1>1
    <3>2. IsFiniteSet(1 .. k) /\ Cardinality(1 .. k) = IF 1 > k THEN 0 ELSE k - 1 + 1
      BY <3>1, FS_Interval, Zenon
    <3> QED
      BY <1>1, <3>2
  <2>3. IsFiniteSet(A) /\ Cardinality(A) = Cardinality({depth + 1}) * Cardinality(1 .. k)
    BY <2>1, <2>2, FS_Product, Zenon
  <2> HIDE DEF A
  <2> QED
    BY <1>1, <2>1, <2>2, <2>3
<1> HIDE DEF A, x
<1>10. IsFiniteSet(places \ {x}) /\ Cardinality(places \ {x}) = outstanding - 1
  BY <1>2, <1>8, FS_RemoveElement, Zenon DEF outstanding
<1>11. Cardinality((places \ {x}) \cup A)
       = Cardinality(places \ {x}) + Cardinality(A) - Cardinality((places \ {x}) \cap A)
  BY <1>9, <1>10, FS_Union, Zenon
<1>12. Cardinality((places \ {x}) \cap A) = 0
  BY <1>8, FS_EmptySet, Zenon
<1>13. outstanding' = Cardinality((places \ {x}) \cup A)
  BY <1>8, Zenon DEF outstanding
<1> QED
  BY <1>1, <1>2, <1>9, <1>10, <1>11, <1>12, <1>13 DEF k

\* What counts is the stack and whether a string is being streamed.
LEMMA SameOutstanding ==
  ASSUME ParserInv, StringInv, UNCHANGED <<depth, streaming>>,
         \A d \in 0 .. depth : d < depth \/ ~streaming => sizes'[d] = sizes[d]
  PROVE  outstanding' = outstanding
<1>1. depth \in Nat
  BY UnreadTypes, Zenon
<1>2. \A d \in 0 .. depth : unread(d)' = unread(d)
  BY <1>1, Zenon DEF unread, missing
<1>3. {{d} \X (1 .. unread(d)') : d \in 0 .. depth} = {{d} \X (1 .. unread(d)) : d \in 0 .. depth}
  BY <1>2, Zenon
<1> QED
  BY <1>3, Zenon DEF outstanding, places

-------------------------------------------------------------------------------
(* The parser implements Framing.                                            *)

\* While a string is streamed no aggregate has just been announced.
StreamInv == streaming => last = NoAggregate

\* No aggregate begins inside a string that is streamed, whatever the steps.
LEMMA StreamInvariance == Spec => []StreamInv
<1>1. Init => StreamInv
  BY Zenon DEF Init, StreamInv
<1>2. ASSUME StreamInv, [Next]_vars PROVE StreamInv'
  BY <1>2, Zenon DEF StreamInv, Next, vars, consume_simple, consume_bulk_header, consume_bulk,
     consume_streamed_string, consume_last_part, consume_aggregate, consume_invalid,
     reader_op_exits, reset
<1> QED
  BY <1>1, <1>2, PTL DEF Spec

\* Every step of the parser is a step of Framing, or none.
LEMMA FramingStep ==
  ASSUME ParserInv, ParserInv', StringInv, StringInv', StreamInv, [Next]_vars
  PROVE  [F!FNext]_(F!fvars)
<1>1. /\ TypeOK /\ LevelsAreOpen /\ StringInv /\ streaming \in BOOLEAN /\ error \in BOOLEAN
      /\ depth \in Nat /\ 0 .. depth \subseteq Words /\ sizes \in [Words -> Nat]
      /\ ~streaming => depth \in Levels
  BY ParserAssumption DEF ParserInv, TypeOK, Words
<1>2. outstanding \in Nat /\ (outstanding = 0 <=> done)
  BY DoneIsZero, Zenon
<1>3. consuming <=> F!Reading
  BY <1>2 DEF consuming, F!Reading
<1> USE DEF NoAggregate, F!None
<1>4. ASSUME consuming, outstanding' = outstanding - 1, last' = NoAggregate, ~streaming',
             streaming' \in BOOLEAN, UNCHANGED error
      PROVE  F!Value
  BY <1>3, <1>4, Zenon DEF F!Value
<1>5. CASE consume_simple
  <2>1. outstanding' = outstanding - 1
    BY <1>1, <1>5, CommitTakesOne, Zenon DEF consume_simple, consuming
  <2> QED
    BY <1>1, <1>4, <1>5, <2>1, Zenon DEF consume_simple, F!FNext
<1>6. CASE consume_bulk_header
  <2>1. outstanding' = outstanding
    BY <1>6, SameOutstanding, Zenon DEF consume_bulk_header
  <2> QED
    BY <1>6, <2>1, Zenon DEF consume_bulk_header, F!fvars
<1>7. CASE consume_bulk
  <2>1. CASE streaming
    <3>1. /\ last' = NoAggregate /\ UNCHANGED <<depth, streaming, error>>
          /\ \A d \in 0 .. depth : d < depth => sizes'[d] = sizes[d]
      BY <1>7, <2>1, PartStep, Zenon
    <3>2. outstanding' = outstanding
      BY <2>1, <3>1, SameOutstanding, Zenon
    <3> QED
      BY <2>1, <3>1, <3>2, Zenon DEF StreamInv, F!fvars
  <2>2. CASE ~streaming
    <3>1. outstanding' = outstanding - 1
      BY <1>1, <1>7, <2>2, CommitTakesOne, Zenon DEF consume_bulk, consuming, sizes_read
    <3> QED
      BY <1>1, <1>4, <1>7, <2>2, <3>1, Zenon DEF consume_bulk, F!FNext
  <2> QED
    BY <2>1, <2>2, Zenon
<1>8. CASE consume_streamed_string
  <2>1. Unlimited \in Nat
    BY ParserAssumption, Zenon
  <2>2. outstanding' = (outstanding - 1) + IF streaming' THEN 1 ELSE Unlimited
    BY <1>8, <2>1, OpeningAdds, Zenon DEF consume_streamed_string, consuming
  <2>3. outstanding' = outstanding
    BY <1>2, <1>8, <2>2 DEF consume_streamed_string
  <2> QED
    BY <1>3, <1>8, <2>3, Zenon DEF consume_streamed_string, F!StreamBegins, F!FNext
<1>9. CASE consume_last_part
  <2> DEFINE sz == [sizes EXCEPT ![depth] = 1]
  <2>1. /\ sz \in [Words -> Nat] /\ sz[depth] = 1 /\ commit_elem(sz) /\ streaming /\ ~done
        /\ \A d \in 0 .. depth : d < depth => sz[d] = sizes[d]
    BY <1>1, <1>9 DEF consume_last_part, consuming
  <2>2. consuming /\ streaming' = FALSE /\ last' = NoAggregate /\ UNCHANGED error
    BY <1>9, Zenon DEF consume_last_part
  <2> HIDE DEF sz
  <2>3. outstanding' = outstanding - 1
    BY <2>1, <2>2, CommitTakesOne, Zenon
  <2> QED
    BY <1>4, <2>2, <2>3, Zenon DEF F!FNext
<1>10. ASSUME NEW t \in Types, NEW l \in Lengths, consume_aggregate(t, l)
       PROVE  F!FNext
  <2> DEFINE n == l * element_multiplicity(t)
  <2>1. l \in Nat /\ n \in Nat /\ t \in F!Aggregates /\ (n = IF t \in F!Paired THEN 2 * l ELSE l)
    BY ParserAssumption DEF Types, F!Aggregates, F!Paired, element_multiplicity
  <2>2. consuming /\ ~streaming /\ ~done /\ streaming' = FALSE
    BY <1>1, <1>10, Zenon DEF consume_aggregate, consuming
  <2>3. ASSUME outstanding' = (outstanding - 1) + n, last' = <<t, l>>, UNCHANGED error
        PROVE  F!FNext
    <3>1. F!Aggregate(t, l)
      BY <1>1, <1>3, <2>1, <2>2, <2>3, Zenon DEF F!Aggregate
    <3> QED
      BY <2>1, <3>1, Zenon DEF F!FNext
  <2>4. CASE l = 0
    <3>1. commit_elem(sizes) /\ last' = <<t, l>> /\ UNCHANGED error
      BY <1>10, <2>4, Zenon DEF consume_aggregate
    <3>2. outstanding' = outstanding - 1
      BY <1>1, <2>2, <3>1, CommitTakesOne, Zenon
    <3>3. n = 0
      BY <2>4 DEF element_multiplicity
    <3> QED
      BY <1>2, <2>3, <3>1, <3>2, <3>3
  <2>5. CASE l # 0 /\ too_deep
    <3>1. error' = TRUE /\ UNCHANGED <<depth, sizes, last, streaming>>
      BY <1>10, <2>5, Zenon DEF consume_aggregate
    <3>2. outstanding' = outstanding
      BY <3>1, SameOutstanding, Zenon
    <3> QED
      BY <1>3, <2>2, <3>1, <3>2, Zenon DEF F!Reject, F!FNext
  <2>6. CASE l # 0 /\ ~too_deep
    <3>1. /\ depth' = depth + 1 /\ sizes' = [sizes EXCEPT ![depth + 1] = n]
          /\ last' = <<t, l>> /\ UNCHANGED error
      BY <1>10, <2>6, Zenon DEF consume_aggregate
    <3> HIDE DEF n
    <3>2. outstanding' = (outstanding - 1) + IF streaming' THEN 1 ELSE n
      BY <2>1, <2>2, <3>1, OpeningAdds, Zenon
    <3> QED
      BY <2>2, <2>3, <3>1, <3>2, Zenon
  <2> QED
    BY <2>4, <2>5, <2>6, Zenon
<1>11. CASE consume_invalid \/ reader_op_exits
  <2>1. consuming /\ error' = TRUE /\ UNCHANGED <<depth, sizes, last, streaming>>
    BY <1>11, Zenon DEF consume_invalid, reader_op_exits
  <2>2. outstanding' = outstanding
    BY <2>1, SameOutstanding, Zenon
  <2> QED
    BY <1>3, <2>1, <2>2, Zenon DEF F!Reject, F!FNext
<1>12. CASE reset
  <2>1. /\ ~consuming /\ depth' = 0 /\ sizes'[0] = 2
        /\ error' = FALSE /\ streaming' = FALSE /\ last' = NoAggregate
    BY <1>12, ParserAssumption DEF reset, reset_sizes, Words
  <2>2. outstanding' = 1
    BY <2>1, NextStarts, Zenon
  <2> QED
    BY <1>3, <2>1, <2>2, Zenon DEF F!NextMessage, F!FNext
<1>13. CASE UNCHANGED vars
  <2>1. UNCHANGED <<depth, sizes, last, streaming, error>>
    BY <1>13, Zenon DEF vars
  <2>2. outstanding' = outstanding
    BY <2>1, SameOutstanding, Zenon
  <2> QED
    BY <2>1, <2>2, Zenon DEF F!fvars
<1> QED
  BY <1>5, <1>6, <1>7, <1>8, <1>9, <1>10, <1>11, <1>12, <1>13, Zenon DEF Next

\* FindsEndOfMessage (parse, done and commit_elem in parser.ipp): the parser
\* implements Framing.  However messages are nested, to whatever depth, and
\* wherever the data runs out, done() is true exactly when every value that
\* the message has announced has arrived, as long as the server streams no
\* string at the deepest level.
THEOREM ParserFindsEndOfMessage == ASSUME StreamsFit PROVE Spec => FindsEndOfMessage
<1>1. Init => F!FInit
  <2> SUFFICES ASSUME Init PROVE F!FInit
    BY Zenon
  <2>1. depth = 0 /\ sizes[0] = 2 /\ streaming = FALSE /\ last = NoAggregate /\ error = FALSE
    BY ParserAssumption DEF Init, reset_sizes, Words
  <2>2. outstanding = 1
    BY <2>1, OneAtStart, Zenon
  <2> QED
    BY <2>1, <2>2, Zenon DEF F!FInit, NoAggregate, F!None
<1>2. ParserInv /\ ParserInv' /\ StringInv /\ StringInv' /\ StreamInv /\ [Next]_vars
         => [F!FNext]_(F!fvars)
  BY FramingStep, Zenon
<1> QED
  BY <1>1, <1>2, ParserInvariant, StringInvariance, StreamInvariance, PTL DEF Spec, FindsEndOfMessage, F!FSpec
===============================================================================
