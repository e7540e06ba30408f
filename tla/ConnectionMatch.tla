-------------------------- MODULE ConnectionMatch ----------------------------
(*****************************************************************************)
(* What is on its way from the server of module Connection is, in this order,*)
(* what the requests at the front of the queue are owed, and the steps on an *)
(* open connection keep it so.                                               *)
(*****************************************************************************)
EXTENDS ConnectionInv

\* All the responses to the requests in T.
Responses(T, r) ==
    {m \in Execs \X Nat : /\ m[1] \in T
                          /\ 1 <= m[2] /\ m[2] <= get_expected_responses(r[m[1]])}

\* Those that are still to be read for the requests in T, of which x are.
Owed(T, r, x) ==
    {m \in Execs \X Nat : /\ m[1] \in T
                          /\ get_expected_responses(r[m[1]]) - x[m[1]] < m[2]
                          /\ m[2] <= get_expected_responses(r[m[1]])}

\* Those that the server will still give to request e, when it has answered a
\* of its commands, and to the requests in l, of which e is the first.
Remaining(e, r, a) ==
    {m \in Execs \X Nat : /\ m[1] = e
                          /\ Responding(r[e].cmds, a) < m[2]
                          /\ m[2] <= get_expected_responses(r[e])}

Unanswered(l, r, a) ==
    IF l = <<>> THEN {}
    ELSE Remaining(Head(l), r, a) \cup Responses(Elements(Tail(l)), r)

-------------------------------------------------------------------------------
(* The sets of responses.                                                    *)

\* What is owed depends on the requests that owe it.
LEMMA OwedSame ==
  ASSUME NEW T \in SUBSET Execs, NEW r, NEW r2, NEW x, NEW x2,
         \A e \in T : r2[e] = r[e] /\ x2[e] = x[e]
  PROVE  Owed(T, r2, x2) = Owed(T, r, x)
BY Zenon DEF Owed

\* The response m of request e is read; with the last one, e owes nothing.
Taking(T, r, x, e, x2, V, m) ==
    /\ T \subseteq Execs /\ r \in [Execs -> Kinds] /\ x \in [Execs -> Nat]
    /\ e \in T /\ 1 <= x[e] /\ x[e] <= get_expected_responses(r[e])
    /\ x2 = [x EXCEPT ![e] = @ - 1]
    /\ V = IF x[e] = 1 THEN T \ {e} ELSE T
    /\ m = <<e, get_expected_responses(r[e]) - x[e] + 1>>

\* It is one less.
LEMMA OwedTake ==
  ASSUME NEW T, NEW r, NEW x, NEW e, NEW x2, NEW V, NEW w, Taking(T, r, x, e, x2, V, w)
  PROVE  w \in Owed(T, r, x) /\ Owed(V, r, x2) = Owed(T, r, x) \ {w}
<1> USE DEF Taking
<1> DEFINE g == get_expected_responses(r[e])
           m == <<e, g - x[e] + 1>>
<1> g \in Nat /\ x[e] \in Nat /\ e \in Execs
  BY ExpectedType, Zenon
<1>2. x2[e] = x[e] - 1 /\ \A f \in Execs : f # e => x2[f] = x[f]
  BY Zenon
<1>3. \A n \in Execs \X Nat : n \in Owed(V, r, x2) <=> n \in Owed(T, r, x) /\ n # m
  <2> SUFFICES ASSUME NEW n \in Execs \X Nat
               PROVE  n \in Owed(V, r, x2) <=> n \in Owed(T, r, x) /\ n # m
    BY Zenon
  <2> n[1] \in Execs /\ n[2] \in Nat /\ n = <<n[1], n[2]>>
    OBVIOUS
  <2>2. CASE n[1] # e
    <3>1. n # m /\ (n[1] \in V <=> n[1] \in T) /\ x2[n[1]] = x[n[1]]
      BY <1>2, <2>2
    <3> QED
      BY <3>1, Zenon DEF Owed
  <2>3. CASE n[1] = e
    <3>1. n = m <=> n[2] = g - x[e] + 1
      BY <2>3
    <3>2. n \in Owed(T, r, x) <=> g - x[e] < n[2] /\ n[2] <= g
      BY <2>3, Zenon DEF Owed
    <3>3. n \in Owed(V, r, x2) <=> x[e] # 1 /\ g - (x[e] - 1) < n[2] /\ n[2] <= g
      BY <1>2, <2>3, Zenon DEF Owed
    <3> HIDE DEF g, m
    <3> QED
      BY <3>1, <3>2, <3>3
  <2> QED
    BY <2>2, <2>3, Zenon
<1>4. m \in Owed(T, r, x)
  <2>1. m \in Execs \X Nat
    OBVIOUS
  <2>2. m[1] = e /\ m[2] = g - x[e] + 1
    BY Zenon
  <2>3. g - x[e] < m[2] /\ m[2] <= g
    BY <2>2
  <2> QED
    BY <2>1, <2>2, <2>3, Zenon DEF Owed
<1>5. Owed(V, r, x2) \subseteq Execs \X Nat /\ Owed(T, r, x) \subseteq Execs \X Nat
  BY Zenon DEF Owed
<1> HIDE DEF m
<1>6. Owed(V, r, x2) = Owed(T, r, x) \ {m}
  BY <1>3, <1>5, Zenon
<1> QED
  BY <1>4, <1>6, Zenon DEF m

\* Requests that have not been answered at all.
LEMMA OwedMore ==
  ASSUME NEW T \in SUBSET Execs, NEW V \in SUBSET Execs, NEW r \in [Execs -> Kinds],
         NEW x \in [Execs -> Nat], \A e \in V : x[e] = get_expected_responses(r[e])
  PROVE  Owed(T \cup V, r, x) = Owed(T, r, x) \cup Responses(V, r)
<1>1. \A e \in V : get_expected_responses(r[e]) - x[e] = 0
  BY ExpectedType
<1>2. \A m \in Execs \X Nat : m[1] \in V =>
         (m \in Responses(V, r) <=> get_expected_responses(r[m[1]]) - x[m[1]] < m[2]
                                    /\ m[2] <= get_expected_responses(r[m[1]]))
  <2> SUFFICES ASSUME NEW m \in Execs \X Nat, m[1] \in V
               PROVE  (m \in Responses(V, r) <=> get_expected_responses(r[m[1]]) - x[m[1]] < m[2]
                                                 /\ m[2] <= get_expected_responses(r[m[1]]))
    BY Zenon
  <2>1. get_expected_responses(r[m[1]]) - x[m[1]] = 0 /\ m[2] \in Nat
    BY <1>1, Zenon
  <2>2. 0 < m[2] <=> 1 <= m[2]
    BY <2>1
  <2> QED
    BY <2>1, <2>2, Zenon DEF Responses
<1>3. Responses(V, r) \subseteq {m \in Execs \X Nat : m[1] \in V}
  BY Zenon DEF Responses
<1> QED
  BY <1>2, <1>3, Zenon DEF Owed

\* What the server will answer depends on the requests in line.
LEMMA UnansweredSame ==
  ASSUME NEW l \in Seq(Execs), NEW r, NEW r2, NEW a, \A e \in Elements(l) : r2[e] = r[e]
  PROVE  Unanswered(l, r2, a) = Unanswered(l, r, a)
<1>1. CASE l = <<>>
  BY <1>1, Zenon DEF Unanswered
<1>2. CASE l # <<>>
  <2> DEFINE e == Head(l)
             T == Elements(Tail(l))
  <2>1. e \in Elements(l) /\ T \subseteq Elements(l)
    BY <1>2, TailBefore
  <2> HIDE DEF e, T
  <2>2. Remaining(e, r2, a) = Remaining(e, r, a)
    BY <2>1, Zenon DEF Remaining
  <2>3. Responses(T, r2) = Responses(T, r)
    BY <2>1, Zenon DEF Responses
  <2> QED
    BY <1>2, <2>2, <2>3, Zenon DEF Unanswered, e, T
<1> QED
  BY <1>1, <1>2, Zenon

\* The responses to several requests.
LEMMA ResponsesUnion ==
  ASSUME NEW T, NEW V, NEW r
  PROVE  Responses(T \cup V, r) = Responses(T, r) \cup Responses(V, r)
BY Zenon DEF Responses

\* Before the first command is answered, all responses remain.
LEMMA UnansweredFresh ==
  ASSUME NEW l \in Seq(Execs), NEW r
  PROVE  Unanswered(l, r, 0) = Responses(Elements(l), r)
<1>1. CASE l = <<>>
  BY <1>1 DEF Unanswered, Responses, Elements
<1>2. CASE l # <<>>
  <2> DEFINE e == Head(l)
             T == Elements(Tail(l))
  <2>1. Elements(l) = T \cup {e}
    BY <1>2, TailBefore, Zenon
  <2> HIDE DEF e, T
  <2>2. \A m \in Execs \X Nat : 0 < m[2] <=> 1 <= m[2]
    OBVIOUS
  <2>3. Responding(r[e].cmds, 0) = 0
    BY RespondingZero, Zenon
  <2>4. Remaining(e, r, 0) = Responses({e}, r)
    BY <2>2, <2>3, Zenon DEF Remaining, Responses
  <2>5. Responses(Elements(l), r) = Responses(T, r) \cup Responses({e}, r)
    BY <2>1, ResponsesUnion
  <2> QED
    BY <1>2, <2>4, <2>5, Zenon DEF Unanswered, e, T
<1> QED
  BY <1>1, <1>2, Zenon

\* Requests join the line.
LEMMA UnansweredMore ==
  ASSUME NEW l \in Seq(Execs), NEW t \in Seq(Execs), NEW r, NEW a, l = <<>> => a = 0
  PROVE  Unanswered(l \o t, r, a) = Unanswered(l, r, a) \cup Responses(Elements(t), r)
<1>1. CASE l = <<>>
  <2>1. l \o t = t
    BY <1>1
  <2>2. Unanswered(l, r, a) = {}
    BY <1>1, Zenon DEF Unanswered
  <2> QED
    BY <1>1, <2>1, <2>2, UnansweredFresh, Zenon
<1>2. CASE l # <<>>
  <2>1. l \o t # <<>> /\ Head(l \o t) = Head(l) /\ Tail(l \o t) = Tail(l) \o t
    BY <1>2, ConcatHeadTail, Zenon
  <2>2. Tail(l) \in Seq(Execs)
    BY <1>2
  <2>3. Elements(Tail(l) \o t) = Elements(Tail(l)) \cup Elements(t)
    BY ONLY t \in Seq(Execs), <2>2, ConcatElements, ZenonT(30)
  <2>4. Responses(Elements(Tail(l) \o t), r) = Responses(Elements(Tail(l)), r) \cup Responses(Elements(t), r)
    BY <2>3, ResponsesUnion
  <2> QED
    BY <1>2, <2>1, <2>4, Zenon DEF Unanswered
<1> QED
  BY <1>1, <1>2, Zenon

\* The first request leaves the line unanswered.
LEMMA UnansweredTail ==
  ASSUME NEW l \in Seq(Execs), l # <<>>, NEW r
  PROVE  Unanswered(Tail(l), r, 0) \subseteq Unanswered(l, r, 0)
<1>1. Tail(l) \in Seq(Execs)
  OBVIOUS
<1>2. Unanswered(Tail(l), r, 0) = Responses(Elements(Tail(l)), r)
  BY <1>1, UnansweredFresh, Zenon
<1> QED
  BY <1>2, Zenon DEF Unanswered

\* The server, which has answered a commands of request h, the first in l,
\* answers the next one, with x if that has a response.
Replying(l, r, a, h, l2, a2, x) ==
    /\ l \in Seq(Execs) /\ l # <<>> /\ h = Head(l) /\ h \notin Elements(Tail(l))
    /\ r \in [Execs -> Kinds] /\ a \in Nat /\ a < Len(r[h].cmds)
    /\ a + 1 = Len(r[h].cmds) => l2 = Tail(l) /\ a2 = 0
    /\ a + 1 # Len(r[h].cmds) => l2 = l /\ a2 = a + 1
    /\ x = <<h, Responding(r[h].cmds, a + 1)>>

\* x was the first of the responses that remained, or all of them remain.
Replied(l, r, a, h, l2, a2, x) ==
    IF r[h].cmds[a + 1] = "resp"
    THEN /\ x \in Unanswered(l, r, a)
         /\ Unanswered(l2, r, a2) = Unanswered(l, r, a) \ {x}
         /\ \A n \in Unanswered(l, r, a) \ {x} : \/ n[1] = h /\ x[2] < n[2]
                                                \/ n[1] \in Elements(Tail(l))
    ELSE Unanswered(l2, r, a2) = Unanswered(l, r, a)

\* The server answers a command: with a response, the first of those that
\* remain, or with a push.
LEMMA UnansweredReply ==
  ASSUME NEW l, NEW r, NEW a, NEW h, NEW l2, NEW a2, NEW x,
         Replying(l, r, a, h, l2, a2, x)
  PROVE  Replied(l, r, a, h, l2, a2, x)
<1> USE DEF Replying
<1> DEFINE e == Head(l)
           c == r[e].cmds
           T == Elements(Tail(l))
           m == <<e, Responding(c, a + 1)>>
           g == get_expected_responses(r[e])
<1> e \in Execs /\ Tail(l) \in Seq(Execs)
  OBVIOUS
<1>2. r[e] \in Kinds /\ Len(c) \in Nat
  BY ConnectionAssumption DEF Requests
<1> g = Responding(c, Len(c)) /\ g \in Nat
  BY <1>2, RespondingType, Zenon DEF get_expected_responses
<1>   /\ Responding(c, a) \in Nat /\ Responding(c, a + 1) \in Nat
      /\ Responding(c, a + 1) = Responding(c, a) + IF c[a + 1] = "resp" THEN 1 ELSE 0
  <2> HIDE DEF c
  <2>1. a + 1 \in Nat
    OBVIOUS
  <2>2. Responding(c, a) \in Nat /\ Responding(c, a + 1) \in Nat
    BY <2>1, RespondingType, Zenon
  <2>3. Responding(c, a + 1) = Responding(c, a) + IF c[a + 1] = "resp" THEN 1 ELSE 0
    BY RespondingNext, Zenon
  <2> QED
    BY <2>2, <2>3, Zenon
<1>5. Responding(c, a + 1) <= g
  BY <1>2, RespondingMonotone
<1> Unanswered(l, r, a) = Remaining(e, r, a) \cup Responses(T, r)
  BY Zenon DEF Unanswered
<1>7. Unanswered(l2, r, a2) = Remaining(e, r, a + 1) \cup Responses(T, r)
  <2>1. CASE a + 1 = Len(c)
    <3>1. l2 = Tail(l) /\ a2 = 0
      BY <2>1, Zenon
    <3>2. Unanswered(l2, r, a2) = Responses(T, r)
      BY <3>1, UnansweredFresh, Zenon
    <3>3. Responding(c, a + 1) = g
      BY <2>1, Zenon
    <3>4. \A n \in Execs \X Nat : ~(Responding(c, a + 1) < n[2] /\ n[2] <= g)
      <4> HIDE DEF g, c
      <4> QED
        BY <3>3
    <3>5. Remaining(e, r, a + 1) = {}
      BY <3>4, Zenon DEF Remaining
    <3> QED
      BY <3>2, <3>5, Zenon
  <2>2. CASE a + 1 # Len(c)
    BY <2>2, Zenon DEF Unanswered
  <2> QED
    BY <2>1, <2>2, Zenon
<1>8. \A n \in Responses(T, r) : n[1] \in T /\ n[1] # e
  BY Zenon DEF Responses
<1> HIDE DEF T
<1>9. CASE c[a + 1] = "resp"
  <2> Responding(c, a + 1) = Responding(c, a) + 1
    BY <1>9, Zenon
  <2> m \in Execs \X Nat /\ m[1] = e /\ m[2] = Responding(c, a + 1)
    BY Zenon
  <2>3. m \in Remaining(e, r, a) /\ m \notin Responses(T, r)
    <3>1. Responding(c, a) < m[2] /\ m[2] <= g
      BY <1>5
    <3> QED
      BY <1>8, <3>1, Zenon DEF Remaining
  <2>4. \A n \in Remaining(e, r, a) : n # m => n[1] = e /\ m[2] < n[2]
    <3> SUFFICES ASSUME NEW n \in Remaining(e, r, a), n # m PROVE n[1] = e /\ m[2] < n[2]
      BY Zenon
    <3> n \in Execs \X Nat /\ n[1] = e /\ Responding(c, a) < n[2]
      BY Zenon DEF Remaining
    <3>2. n = <<n[1], n[2]>> /\ n[2] \in Nat
      OBVIOUS
    <3>3. n[2] # Responding(c, a + 1)
      BY <3>2, Zenon
    <3> QED
      BY <3>2, <3>3
  <2>5. Remaining(e, r, a + 1) = Remaining(e, r, a) \ {m}
    <3>1. \A n \in Remaining(e, r, a + 1) : n \in Remaining(e, r, a) /\ n # m
      <4> SUFFICES ASSUME NEW n \in Remaining(e, r, a + 1)
                   PROVE  n \in Remaining(e, r, a) /\ n # m
        BY Zenon
      <4>1. n \in Execs \X Nat /\ n[1] = e /\ Responding(c, a + 1) < n[2] /\ n[2] <= g
        BY Zenon DEF Remaining
      <4>2. Responding(c, a) < n[2] /\ n[2] # m[2]
        BY <4>1
      <4> QED
        BY <4>1, <4>2, Zenon DEF Remaining
    <3>2. \A n \in Remaining(e, r, a) : n # m => n \in Remaining(e, r, a + 1)
      <4> SUFFICES ASSUME NEW n \in Remaining(e, r, a), n # m PROVE n \in Remaining(e, r, a + 1)
        BY Zenon
      <4>1. n \in Execs \X Nat /\ n[1] = e /\ n[2] <= g
        BY Zenon DEF Remaining
      <4>2. Responding(c, a + 1) < n[2]
        BY <2>4, Zenon
      <4> QED
        BY <4>1, <4>2, Zenon DEF Remaining
    <3> HIDE DEF m
    <3> QED
      BY <3>1, <3>2, Zenon
  <2>6. Unanswered(l2, r, a2) = Unanswered(l, r, a) \ {m}
    BY <1>7, <2>3, <2>5, Zenon
  <2>7. \A n \in Unanswered(l, r, a) \ {m} : (n[1] = e /\ m[2] < n[2]) \/ n[1] \in T
    BY <1>8, <2>4, Zenon
  <2> QED
    BY <1>9, <2>3, <2>6, <2>7, Zenon DEF T, Replied
<1>10. CASE c[a + 1] # "resp"
  <2>1. Responding(c, a + 1) = Responding(c, a)
    BY <1>10
  <2>2. Remaining(e, r, a + 1) = Remaining(e, r, a)
    BY <2>1, Zenon DEF Remaining
  <2> QED
    BY <1>7, <1>10, <2>2, Zenon DEF Replied
<1> QED
  BY <1>9, <1>10, Zenon
-------------------------------------------------------------------------------
(* The messages on an open connection.                                       *)

\* What is on its way to the reader, and from the writer to the server.
stream == read_buffer \o replies
unsent == SubSeq(write_buffer, handed + 1, Len(write_buffer))
line   == commands \o unsent

\* The requests in line are in the order of the queue, as far as they are in it.
LineInv ==
    /\ \A e \in Elements(line) : op[e] # "idle" /\ (e \in Elements(reqs) => e \in owing)
    /\ \A e, f \in Execs : Before(line, e, f) /\ e \in Elements(reqs) => Before(reqs, e, f)

\* What holds on an open connection.
Linked ==
    /\ Matched(stream, Owed(owing, req, expected_responses),
               Unanswered(line, req, answered), InOrder(reqs), peer)
    /\ LineInv
    /\ IF commands = <<>> THEN answered = 0
                          ELSE peer /\ answered < Len(req[Head(commands)].cmds)
    /\ on_push => read_buffer # <<>> /\ Head(read_buffer) = Push
    /\ wr = "wrote" => handed = Len(write_buffer)

\* The inductive invariant of the requests that are Matchable.
MatchInv ==
    /\ CountInv
    /\ run # "up" => commands = <<>> /\ answered = 0 /\ replies = <<>>
    /\ run = "up" /\ open => Linked

-------------------------------------------------------------------------------
(* The steps on an open connection.                                          *)

\* A push is not a response.
LEMMA PushIsNoResponse == \A m \in Execs \X Nat : m # Push
<1>1. \A e \in Execs, n \in Nat : Len(<<e, n>>) = 2
  BY Zenon
<1>2. Len(Push) = 0
  BY Zenon DEF Push
<1>3. ASSUME NEW m \in Execs \X Nat PROVE Len(m) = 2
  <2>1. m = <<m[1], m[2]>> /\ m[1] \in Execs /\ m[2] \in Nat
    OBVIOUS
  <2> QED
    BY <1>1, <2>1, Zenon
<1> QED
  BY <1>2, <1>3

\* The types of what MatchInv is made of.
LEMMA MatchTypes ==
  ASSUME Inv
  PROVE  /\ reqs \in Seq(Execs) /\ Elements(reqs) \subseteq Execs /\ owing \subseteq Execs
         /\ owing \subseteq Elements(reqs)
         /\ status \in [Execs -> {"waiting", "staged", "written"}]
         /\ req \in [Execs -> Kinds] /\ expected_responses \in [Execs -> Nat]
         /\ Ordered(reqs, status) /\ IsAsymmetric(InOrder(reqs), Execs \X Nat)
         /\ read_buffer \in Seq(Messages) /\ replies \in Seq(Messages)
         /\ stream \in Seq(Messages)
         /\ commands \in Seq(Execs) /\ answered \in Nat
         /\ write_buffer \in Seq(Execs) /\ handed \in 0 .. Len(write_buffer)
         /\ unsent \in Seq(Execs) /\ line \in Seq(Execs)
         /\ Elements(commands) \subseteq Elements(line)
         /\ Elements(unsent) \subseteq Elements(line)
         /\ Elements(line) \subseteq Execs
         /\ \A e \in owing : op[e] # "idle"
<1>   /\ reqs \in Seq(Execs)
      /\ status \in [Execs -> {"waiting", "staged", "written"}]
      /\ req \in [Execs -> Kinds] /\ expected_responses \in [Execs -> Nat]
      /\ Ordered(reqs, status)
      /\ read_buffer \in Seq(Messages) /\ replies \in Seq(Messages)
      /\ commands \in Seq(Execs) /\ answered \in Nat
      /\ write_buffer \in Seq(Execs) /\ handed \in 0 .. Len(write_buffer)
      /\ IdleIsFresh
  BY Zenon DEF Inv, TypeOK, QueueType, ExecType, ReaderType, ServerType, WriterType,
         QueueInv, QueueOrder
<1>2. Elements(reqs) \subseteq Execs /\ owing \subseteq Execs /\ owing \subseteq Elements(reqs)
  BY QueueElements, Zenon DEF owing
<1>3. IsAsymmetric(InOrder(reqs), Execs \X Nat)
  BY InOrderStrict, Zenon
<1>4. stream \in Seq(Messages)
  BY DEF stream
<1>5. unsent \in Seq(Execs)
  BY SplitAt, Zenon DEF unsent
<1>6. line \in Seq(Execs) /\ Elements(line) = Elements(commands) \cup Elements(unsent)
  BY <1>5, ConcatElements DEF line
<1>7. \A e \in owing : op[e] # "idle"
  BY <1>2, Zenon DEF IdleIsFresh
<1>8. Elements(line) \subseteq Execs
  BY <1>6, QueueElements, Zenon
<1> QED
  BY <1>2, <1>3, <1>4, <1>5, <1>6, <1>7, <1>8, Zenon

\* The two orders agree on the responses of requests that are in the same
\* order in both queues.
LEMMA InOrderAgree ==
  ASSUME NEW q, NEW u, NEW T, NEW O \in SUBSET (Execs \X Nat), \A x \in O : x[1] \in T,
         \A e, f \in T : Before(u, e, f) <=> Before(q, e, f)
  PROVE  Agree(InOrder(q), InOrder(u), O)
<1> SUFFICES ASSUME NEW x \in O, NEW y \in O
             PROVE  <<x, y>> \in InOrder(q) <=> <<x, y>> \in InOrder(u)
  BY Zenon DEF Agree
<1> x \in Execs \X Nat /\ y \in Execs \X Nat /\ x[1] \in T /\ y[1] \in T
  BY Zenon
<1>2. Before(u, x[1], y[1]) <=> Before(q, x[1], y[1])
  BY Zenon
<1>3. <<x, y>> \in InOrder(q) <=> Before(q, x[1], y[1]) \/ (x[1] = y[1] /\ x[2] < y[2])
  BY InOrderMember, Zenon
<1>4. <<x, y>> \in InOrder(u) <=> Before(u, x[1], y[1]) \/ (x[1] = y[1] /\ x[2] < y[2])
  BY InOrderMember, Zenon
<1> QED
  BY <1>2, <1>3, <1>4, Zenon

\* What is owed is owed to the requests that it is asked of.
LEMMA OwedMember ==
  ASSUME NEW T, NEW r, NEW x
  PROVE  /\ Owed(T, r, x) \subseteq Execs \X Nat
         /\ \A m \in Owed(T, r, x) : m[1] \in T
         /\ Push \notin Owed(T, r, x)
BY PushIsNoResponse, Zenon DEF Owed

\* A step of somebody else: what is on the way stays, and so do the requests
\* that are owed responses.
LEMMA LinkedFrame ==
  ASSUME Inv, Linked,
         UNCHANGED <<commands, answered, peer, read_buffer, replies, write_buffer, handed>>,
         on_push' => read_buffer # <<>> /\ Head(read_buffer) = Push,
         wr' = "wrote" => wr = "wrote" \/ handed = Len(write_buffer),
         owing' = owing,
         \A e \in Execs : op[e] # "idle" =>
             /\ op'[e] # "idle"
             /\ req'[e] = req[e] /\ expected_responses'[e] = expected_responses[e]
             /\ e \in Elements(reqs') => e \in Elements(reqs),
         \A e, f \in owing : Before(reqs', e, f) <=> Before(reqs, e, f)
  PROVE  Linked'
<1> DEFINE O == Owed(owing, req, expected_responses)
           U == Unanswered(line, req, answered)
           R == InOrder(reqs)
<1>   /\ owing \subseteq Execs /\ line \in Seq(Execs) /\ Elements(line) \subseteq Execs
      /\ commands \in Seq(Execs) /\ Elements(commands) \subseteq Elements(line)
      /\ \A e \in owing : op[e] # "idle"
  BY MatchTypes, Zenon
<1> Matched(stream, O, U, R, peer) /\ LineInv
  BY Zenon DEF Linked
<1> stream' = stream /\ line' = line
  BY Zenon DEF stream, line, unsent
<1>2. Owed(owing', req', expected_responses') = O
  BY OwedSame
<1> \A e \in Elements(line) : req'[e] = req[e] /\ op'[e] # "idle"
  BY Zenon DEF LineInv
<1>4. Unanswered(line', req', answered') = U
  BY UnansweredSame, Zenon
<1>5. Agree(R, InOrder(reqs'), O)
  BY OwedMember, InOrderAgree, Zenon
<1>6. Matched(stream', Owed(owing', req', expected_responses'),
              Unanswered(line', req', answered'), InOrder(reqs'), peer')
  <2> HIDE DEF O, U, R
  <2>1. Matched(stream, O, U, InOrder(reqs'), peer)
    BY <1>5, MatchedLess, Zenon
  <2> QED
    BY <1>2, <1>4, <2>1, Zenon
<1>7. LineInv'
  <2>1. \A e \in Elements(line') :
           op'[e] # "idle" /\ (e \in Elements(reqs') => e \in owing')
    BY Zenon DEF LineInv
  <2>2. ASSUME NEW e \in Execs, NEW f \in Execs, Before(line, e, f), e \in Elements(reqs')
        PROVE  Before(reqs', e, f)
    <3>1. e \in Elements(line) /\ f \in Elements(line)
      BY <2>2 DEF Before, Elements
    <3>2. e \in Elements(reqs) /\ Before(reqs, e, f)
      BY <2>2, <3>1, Zenon DEF LineInv
    <3>3. f \in Elements(reqs)
      BY <3>2 DEF Before, Elements
    <3> QED
      BY <3>1, <3>2, <3>3, Zenon DEF LineInv
  <2> QED
    BY <2>1, <2>2, Zenon DEF LineInv
<1>8. IF commands' = <<>> THEN answered' = 0
                          ELSE peer' /\ answered' < Len(req'[Head(commands')].cmds)
  <2>1. CASE commands = <<>>
    BY <2>1, Zenon DEF Linked
  <2>2. CASE commands # <<>>
    <3>1. Head(commands) \in Elements(line)
      BY <2>2, TailBefore, Zenon
    <3> QED
      BY <2>2, <3>1, Zenon DEF Linked
  <2> QED
    BY <2>1, <2>2, Zenon
<1>9. wr' = "wrote" => handed' = Len(write_buffer')
  BY Zenon DEF Linked
<1> QED
  BY <1>6, <1>7, <1>8, <1>9, Zenon DEF Linked

\* The same for a step that leaves the queue alone.
LEMMA LinkedSame ==
  ASSUME Inv, Linked, UNCHANGED <<req, expected_responses, reqs, status>>,
         UNCHANGED <<commands, answered, peer, read_buffer, replies, write_buffer, handed>>,
         on_push' => read_buffer # <<>> /\ Head(read_buffer) = Push,
         wr' = "wrote" => wr = "wrote" \/ handed = Len(write_buffer),
         \A e \in Execs : op[e] # "idle" => op'[e] # "idle"
  PROVE  Linked'
<1>1. owing' = owing
  BY Zenon DEF owing, waiting
<1> QED
  BY <1>1, LinkedFrame, Zenon

\* A message that is not a push answers the request at the front of the queue.
LEMMA FirstResponse ==
  ASSUME Inv, CountInv, Linked, read_buffer # <<>>, Head(read_buffer) # Push
  PROVE  /\ reqs # <<>> /\ Head(reqs) \in owing /\ 1 <= expected_responses[Head(reqs)]
         /\ Head(read_buffer) = <<Head(reqs), Expect(Head(reqs)) - expected_responses[Head(reqs)] + 1>>
<1> DEFINE O == Owed(owing, req, expected_responses)
           U == Unanswered(line, req, answered)
           R == InOrder(reqs)
           h == Head(reqs)
           x == <<h, Expect(h) - expected_responses[h] + 1>>
<1>   /\ reqs \in Seq(Execs) /\ owing \subseteq Elements(reqs) /\ Ordered(reqs, status)
      /\ status \in [Execs -> {"waiting", "staged", "written"}]
      /\ req \in [Execs -> Kinds] /\ expected_responses \in [Execs -> Nat]
      /\ read_buffer \in Seq(Messages) /\ replies \in Seq(Messages) /\ stream \in Seq(Messages)
      /\ IsAsymmetric(R, Execs \X Nat) /\ Elements(reqs) \subseteq Execs
  BY MatchTypes, Zenon
<1> stream # <<>> /\ Head(stream) = Head(read_buffer)
  BY ConcatHeadTail, Zenon DEF stream
<1>2. Matched(stream, O, U, R, peer)
  BY Zenon DEF Linked
<1> O \subseteq Execs \X Nat /\ \A m \in O : m[1] \in owing
  BY OwedMember, Zenon
<1>3. Head(stream) \in O
  <2>1. 1 \in DOMAIN stream /\ Head(stream) = stream[1]
    OBVIOUS
  <2> HIDE DEF O, U, R
  <2> QED
    BY <1>2, <2>1, Zenon DEF Matched, Push
<1>4. PICK e \in owing : TRUE
  BY <1>3, Zenon
<1>5. reqs # <<>>
  BY <1>4 DEF Elements
<1>   h \in Elements(reqs) /\ h \in Execs /\ Elements(reqs) = Elements(Tail(reqs)) \cup {h}
      /\ \A f \in Elements(Tail(reqs)) : Before(reqs, h, f)
  BY <1>5, TailBefore, Zenon
<1>7. h \in owing
  <2>1. CASE e = h
    BY <1>4, <2>1, Zenon
  <2>2. CASE e # h
    <3>1. Before(reqs, h, e) /\ e \in Execs
      BY <1>4, <2>2, Zenon
    <3>2. status[e] # "waiting"
      BY <1>4, <3>1, Zenon DEF owing, waiting
    <3>3. status[h] # "waiting"
      BY <3>1, <3>2, Zenon DEF Ordered
    <3> QED
      BY <3>3, Zenon DEF owing, waiting
  <2> QED
    BY <2>1, <2>2, Zenon
<1>   /\ expected_responses[h] \in Nat /\ Expect(h) \in Nat
      /\ 1 <= expected_responses[h] /\ expected_responses[h] <= Expect(h)
  BY ExpectedType, Zenon DEF CountInv, Expect
<1> HIDE DEF h
<1> x \in Execs \X Nat /\ x[1] = h /\ x[2] = Expect(h) - expected_responses[h] + 1
  OBVIOUS
<1>10. x \in O
  <2>1. Expect(h) - expected_responses[h] < x[2] /\ x[2] <= Expect(h)
    OBVIOUS
  <2> HIDE DEF x
  <2> QED
    BY <1>7, <2>1, Zenon DEF Owed, Expect
<1>11. ASSUME NEW y \in O \ {x} PROVE <<x, y>> \in R
  <2> y \in Execs \X Nat /\ y[1] \in owing /\ y = <<y[1], y[2]>> /\ y[2] \in Nat
    BY SMTT(30)
  <2>2. CASE y[1] = h
    <3>1. Expect(h) - expected_responses[h] < y[2]
      BY <2>2, Zenon DEF Owed, Expect
    <3>2. y[2] # x[2]
      BY <2>2, <1>11, Zenon
    <3>3. x[2] < y[2]
      BY <3>1, <3>2
    <3> HIDE DEF x
    <3> QED
      BY <2>2, <3>3, InOrderMember, Zenon
  <2>3. CASE y[1] # h
    <3>1. Before(reqs, x[1], y[1])
      BY <2>3, Zenon
    <3> HIDE DEF x
    <3> QED
      BY <3>1, InOrderMember, Zenon
  <2> QED
    BY <2>2, <2>3, Zenon
<1>12. x # Push /\ IsAsymmetric(R, O)
  BY PushIsNoResponse, Zenon DEF IsAsymmetric
<1> HIDE DEF x, O, U, R
<1>13. Head(stream) = x
  BY <1>2, <1>10, <1>11, <1>12, MatchedHead, SMTT(30) DEF Push
<1> QED
  BY <1>5, <1>7, <1>13, Zenon DEF x, h

\* on_read looks at the message as it should.
LEMMA FirstMessage ==
  ASSUME Inv, CountInv, Linked, read_buffer # <<>>
  PROVE  (on_push \/ is_next_push) <=> Head(read_buffer) = Push
<1>1. ASSUME Head(read_buffer) # Push PROVE ~is_next_push
  <2>1. /\ reqs # <<>> /\ Head(reqs) \in owing /\ 1 <= expected_responses[Head(reqs)]
    BY <1>1, FirstResponse, Zenon
  <2> QED
    BY <1>1, <2>1 DEF is_next_push, is_waiting_response, owing
<1> QED
  BY <1>1, Zenon DEF is_next_push, Linked

\* The server is asked for nothing new and the reader takes nothing: the
\* queue stays, and what is left in line was in line.
LEMMA ServerLinks ==
  ASSUME Inv, Linked,
         UNCHANGED <<op, req, expected_responses, reqs, status, on_push, read_buffer>>,
         wr' = "wrote" => wr = "wrote", UNCHANGED <<write_buffer>>, wr = "wrote" => UNCHANGED handed,
         Matched(stream', Owed(owing, req, expected_responses),
                 Unanswered(line', req, answered'), InOrder(reqs), peer'),
         Elements(line') \subseteq Elements(line),
         \A e, f \in Execs : Before(line', e, f) => Before(line, e, f),
         IF commands' = <<>> THEN answered' = 0
                             ELSE peer' /\ answered' < Len(req[Head(commands')].cmds)
  PROVE  Linked'
<1>1. owing' = owing
  BY Zenon DEF owing, waiting
<1>2. LineInv'
  BY <1>1, Zenon DEF Linked, LineInv
<1>3. Matched(stream', Owed(owing', req', expected_responses'),
              Unanswered(line', req', answered'), InOrder(reqs'), peer')
  BY <1>1, Zenon
<1>4. /\ on_push' => read_buffer' # <<>> /\ Head(read_buffer') = Push
      /\ wr' = "wrote" => handed' = Len(write_buffer')
  BY Zenon DEF Linked
<1> QED
  BY <1>2, <1>3, <1>4, Zenon DEF Linked

\* A request has commands.
LEMMA HasCommands ==
  ASSUME Matchable, NEW k \in Kinds
  PROVE  Len(k.cmds) \in Nat /\ 0 < Len(k.cmds) /\ k.cmds # <<>>
<1>1. Len(k.cmds) \in Nat
  BY ConnectionAssumption DEF Requests
<1>2. Len(k.cmds) # 0
  <2> SUFFICES ASSUME Len(k.cmds) = 0 PROVE FALSE
    BY Zenon
  <2>1. get_expected_responses(k) = 0
    BY RespondingZero, Zenon DEF get_expected_responses
  <2> QED
    BY <2>1 DEF Matchable
<1> QED
  BY <1>1, <1>2

\* A message that the server sends joins the end of the stream.
LEMMA StreamGrows ==
  ASSUME NEW x \in Messages, read_buffer \in Seq(Messages), replies \in Seq(Messages),
         read_buffer' = read_buffer, replies' = Append(replies, x)
  PROVE  stream' = Append(stream, x)
<1>1. read_buffer \o Append(replies, x) = Append(read_buffer \o replies, x)
  BY AppendToConcat, SMTT(30)
<1> QED
  BY <1>1, Zenon DEF stream

\* An unsolicited push.
LEMMA PushesLink ==
  ASSUME Inv, Linked, server_pushes
  PROVE  Linked'
<1> DEFINE O == Owed(owing, req, expected_responses)
           U == Unanswered(line, req, answered)
<1>   /\ replies' = Append(replies, Push)
      /\ UNCHANGED <<op, req, expected_responses, reqs, status, on_push, read_buffer,
                     wr, write_buffer, handed, commands, answered, peer>>
  BY Zenon DEF server_pushes, exec_vars, queue_vars, reader_vars, writer_vars
<1>2. read_buffer \in Seq(Messages) /\ replies \in Seq(Messages) /\ stream \in Seq(Messages)
  BY MatchTypes, Zenon
<1>3. Push \in Messages
  BY Zenon DEF Messages
<1>4. stream' = Append(stream, Push)
  BY <1>2, <1>3, StreamGrows, Zenon
<1>5. line' = line
  BY Zenon DEF line, unsent
<1>6. Matched(stream, O, U, InOrder(reqs), peer)
  BY Zenon DEF Linked
<1>7. Push \notin O
  BY OwedMember, Zenon
<1>8. Matched(stream', O, U, InOrder(reqs), peer)
  <2> HIDE DEF O, U
  <2> QED
    BY <1>2, <1>3, <1>4, <1>6, <1>7, MatchedPush, Zenon DEF Push
<1>9. IF commands' = <<>> THEN answered' = 0
                          ELSE peer' /\ answered' < Len(req[Head(commands')].cmds)
  BY Zenon DEF Linked
<1> QED
  BY <1>5, <1>8, <1>9, ServerLinks, Zenon

\* No request is in line twice.
LEMMA LineIsStrict ==
  ASSUME Inv, Linked, Matchable, line # <<>>
  PROVE  Head(line) \notin Elements(Tail(line))
<1> SUFFICES ASSUME Head(line) \in Elements(Tail(line)) PROVE FALSE
  BY Zenon
<1> DEFINE e == Head(line)
           m == <<e, 1>>
<1>   /\ line \in Seq(Execs) /\ req \in [Execs -> Kinds] /\ reqs \in Seq(Execs)
      /\ Ordered(reqs, status) /\ owing \subseteq Elements(reqs)
  BY MatchTypes, Zenon
<1> e \in Execs /\ Before(line, e, e)
  BY TailBefore, Zenon
<1>2. 1 <= get_expected_responses(req[e]) /\ get_expected_responses(req[e]) \in Nat
  BY ExpectedType, Zenon DEF Matchable
<1>3. m \in Execs \X Nat /\ m[1] = e /\ m[2] = 1
  BY Zenon
<1>4. m \in Unanswered(line, req, answered)
  <2>1. m \in Responses(Elements(Tail(line)), req)
    BY <1>2, <1>3 DEF Responses
  <2> QED
    BY <2>1, Zenon DEF Unanswered
<1> HIDE DEF m, e
<1>5. m \in Owed(owing, req, expected_responses)
  BY <1>4, Zenon DEF Linked, Matched, Push
<1>6. e \in owing
  BY <1>3, <1>5, OwedMember, Zenon
<1>7. Before(reqs, e, e)
  BY <1>6, Zenon DEF Linked, LineInv
<1> QED
  BY <1>7, Zenon DEF Ordered

\* The server answers the next command.
LEMMA RepliesLink ==
  ASSUME Inv, Linked, Matchable, server_replies
  PROVE  Linked'
<1> DEFINE O == Owed(owing, req, expected_responses)
           U == Unanswered(line, req, answered)
           V == Unanswered(line', req, answered')
           R == InOrder(reqs)
           e == Head(commands)
           c == req[e].cmds
           m == <<e, Responding(c, answered + 1)>>
<1>1. /\ commands # <<>> /\ peer
      /\ replies' = Append(replies, IF c[answered + 1] = "resp" THEN m ELSE Push)
      /\ IF answered + 1 = Len(c) THEN commands' = Tail(commands) /\ answered' = 0
                                  ELSE answered' = answered + 1 /\ UNCHANGED commands
      /\ UNCHANGED <<op, req, expected_responses, reqs, status, on_push, read_buffer,
                     wr, write_buffer, handed, peer>>
  BY Zenon DEF server_replies, exec_vars, queue_vars, reader_vars, writer_vars
<1>t. /\ read_buffer \in Seq(Messages) /\ replies \in Seq(Messages) /\ stream \in Seq(Messages)
      /\ line \in Seq(Execs) /\ commands \in Seq(Execs) /\ unsent \in Seq(Execs)
      /\ answered \in Nat /\ req \in [Execs -> Kinds] /\ owing \subseteq Elements(reqs)
      /\ IsAsymmetric(R, Execs \X Nat)
  BY MatchTypes, Zenon
<1>2. /\ line # <<>> /\ Head(line) = e /\ Tail(line) = Tail(commands) \o unsent
  BY <1>1, <1>t, ConcatHeadTail, Zenon DEF line
<1>3. unsent' = unsent
  BY <1>1, Zenon DEF unsent
<1>4. IF answered + 1 = Len(c) THEN line' = Tail(line) /\ answered' = 0
                               ELSE line' = line /\ answered' = answered + 1
  BY <1>1, <1>2, <1>3, Zenon DEF line
<1>5. e \notin Elements(Tail(line))
  BY <1>2, LineIsStrict, Zenon
<1>6. answered < Len(c) /\ e \in Execs
  BY <1>1, <1>t DEF Linked
<1>7. IF c[answered + 1] = "resp"
      THEN /\ m \in U /\ V = U \ {m}
           /\ \A n \in U \ {m} : (n[1] = e /\ m[2] < n[2]) \/ n[1] \in Elements(Tail(line))
      ELSE V = U
  <2>1. Replying(line, req, answered, e, line', answered', m)
    BY <1>t, <1>2, <1>4, <1>5, <1>6, Zenon DEF Replying
  <2>2. Replied(line, req, answered, e, line', answered', m)
    BY <2>1, UnansweredReply, Zenon
  <2> QED
    BY <2>2, Zenon DEF Replied
<1>8. Matched(stream, O, U, R, peer)
  BY Zenon DEF Linked
<1>o. O \subseteq Execs \X Nat /\ Push \notin O /\ U \subseteq O /\ \A n \in O : n[1] \in owing
  BY <1>8, OwedMember, Zenon DEF Matched, Push
<1>9. /\ Elements(line') \subseteq Elements(line)
      /\ \A x, y \in Execs : Before(line', x, y) => Before(line, x, y)
  <2>1. line' = line \/ line' = Tail(line)
    BY <1>4, Zenon
  <2>2. /\ Elements(Tail(line)) \subseteq Elements(line)
        /\ \A x, y \in Execs : Before(Tail(line), x, y) => Before(line, x, y)
    BY <1>t, <1>2, TailBefore, Zenon
  <2> QED
    BY <2>1, <2>2, Zenon
<1>10. IF commands' = <<>> THEN answered' = 0
                           ELSE peer' /\ answered' < Len(req[Head(commands')].cmds)
  <2>1. CASE answered + 1 = Len(c)
    <3>1. commands' = Tail(commands) /\ answered' = 0
      BY <1>1, <2>1, Zenon
    <3>2. commands' # <<>> => Head(commands') \in Execs
      <4>1. commands \in Seq(Execs) /\ commands # <<>>
        BY <1>t, <1>1, Zenon
      <4> QED
        BY ONLY <3>1, <4>1
    <3>3. commands' # <<>> => req[Head(commands')] \in Kinds
      BY <1>t, <3>2, Zenon
    <3> QED
      BY <1>1, <3>1, <3>3, HasCommands, Zenon
  <2>2. CASE answered + 1 # Len(c)
    <3>1. req[e] \in Kinds
      BY <1>t, <1>6, Zenon
    <3>2. Len(c) \in Nat
      BY <3>1, HasCommands, Zenon
    <3> QED
      BY <1>t, <1>1, <1>6, <2>2, <3>2
  <2> QED
    BY <2>1, <2>2, Zenon
<1>11. Matched(stream', O, V, R, peer)
  <2>1. CASE c[answered + 1] = "resp"
    <3>1. /\ m \in U /\ V = U \ {m} /\ m \in Execs \X Nat /\ m[1] = e
          /\ \A n \in U \ {m} : (n[1] = e /\ m[2] < n[2]) \/ n[1] \in Elements(Tail(line))
      BY <1>7, <1>o, <2>1, Zenon
    <3>2. replies' = Append(replies, m)
      BY <1>1, <2>1, Zenon
    <3> HIDE DEF m, O, U, V
    <3>3. m \in Messages /\ O \in SUBSET Messages
      BY <1>o, <3>1, Zenon DEF Messages
    <3>4. stream' = Append(stream, m)
      BY <1>1, <1>t, <3>2, <3>3, StreamGrows, Zenon
    <3>5. e \in Elements(reqs)
      BY <1>o, <1>t, <3>1, Zenon
    <3>6. \A n \in U \ {m} : <<m, n>> \in R
      <4> SUFFICES ASSUME NEW n \in U \ {m} PROVE <<m, n>> \in R
        BY Zenon
      <4> n \in Execs \X Nat
        BY <1>o, Zenon
      <4>2. CASE n[1] = e /\ m[2] < n[2]
        BY <3>1, <4>2, InOrderMember, Zenon
      <4>3. CASE n[1] \in Elements(Tail(line))
        <5>1. Before(line, e, n[1])
          BY <1>t, <1>2, <4>3, TailBefore, Zenon
        <5>2. Before(reqs, e, n[1])
          BY <1>6, <3>5, <5>1, Zenon DEF Linked, LineInv
        <5> QED
          BY <3>1, <5>2, InOrderMember, Zenon
      <4> QED
        BY <3>1, <4>2, <4>3, Zenon
    <3>7. IsAsymmetric(R, O)
      BY <1>o, <1>t, Zenon DEF IsAsymmetric
    <3> HIDE DEF R
    <3> QED
      BY <1>t, <1>1, <1>8, <1>o, <3>1, <3>3, <3>4, <3>6, <3>7, MatchedReply, Zenon DEF Push
  <2>2. CASE c[answered + 1] # "resp"
    <3>1. V = U /\ replies' = Append(replies, Push)
      BY <1>1, <1>7, <2>2, Zenon
    <3>2. Push \in Messages
      BY Zenon DEF Messages
    <3>3. stream' = Append(stream, Push)
      BY <1>1, <1>t, <3>1, <3>2, StreamGrows, Zenon
    <3> HIDE DEF O, U, V, R
    <3> QED
      BY <1>t, <1>8, <1>o, <3>1, <3>2, <3>3, MatchedPush, Zenon DEF Push
  <2> QED
    BY <2>1, <2>2, Zenon
<1> QED
  BY <1>1, <1>9, <1>10, <1>11, ServerLinks, Zenon

\* The server goes away, and with it the commands it has received.
LEMMA LeavesLink ==
  ASSUME Inv, Linked, server_leaves
  PROVE  Linked'
<1> DEFINE O == Owed(owing, req, expected_responses)
           U == Unanswered(line, req, answered)
           V == Unanswered(line', req, answered')
           R == InOrder(reqs)
<1>   /\ peer' = FALSE /\ commands' = <<>> /\ answered' = 0
      /\ UNCHANGED <<op, req, expected_responses, reqs, status, on_push, read_buffer,
                     wr, write_buffer, handed, replies>>
  BY Zenon DEF server_leaves, exec_vars, queue_vars, reader_vars, writer_vars
<1>   /\ line \in Seq(Execs) /\ commands \in Seq(Execs) /\ unsent \in Seq(Execs)
      /\ Elements(unsent) \subseteq Elements(line)
  BY MatchTypes, Zenon
<1>2. stream' = stream /\ unsent' = unsent
  BY Zenon DEF stream, unsent
<1>3. line' = unsent
  BY <1>2 DEF line
<1>4. V = Responses(Elements(unsent), req)
  BY <1>3, UnansweredFresh, Zenon
<1>5. U = Unanswered(commands, req, answered) \cup Responses(Elements(unsent), req)
  <2>1. commands = <<>> => answered = 0
    BY Zenon DEF Linked
  <2> QED
    BY <2>1, UnansweredMore DEF line
<1>6. Matched(stream, O, U, R, peer)
  BY Zenon DEF Linked
<1>7. Matched(stream, O, V, R, FALSE)
  <2>1. V \in SUBSET U
    BY <1>4, <1>5, Zenon
  <2>2. Agree(R, R, O)
    BY Zenon DEF Agree
  <2> HIDE DEF O, U, V, R
  <2> QED
    BY <1>6, <2>1, <2>2, MatchedLess, Zenon
<1>8. /\ Elements(line') \subseteq Elements(line)
      /\ \A e, f \in Execs : Before(line', e, f) => Before(line, e, f)
  BY <1>3, ConcatBefore, Zenon DEF line
<1> QED
  BY <1>2, <1>7, <1>8, ServerLinks, Zenon

\* The transport takes a request to the server, or to nowhere.
LEMMA WriteSomeLinks ==
  ASSUME Inv, Linked, Matchable, write_some
  PROVE  Linked'
<1> DEFINE O == Owed(owing, req, expected_responses)
           U == Unanswered(line, req, answered)
           V == Unanswered(line', req, answered')
           R == InOrder(reqs)
           e == write_buffer[handed + 1]
<1>   /\ line \in Seq(Execs) /\ commands \in Seq(Execs) /\ unsent \in Seq(Execs)
      /\ Elements(unsent) \subseteq Elements(line)
      /\ write_buffer \in Seq(Execs) /\ handed \in 0 .. Len(write_buffer)
      /\ req \in [Execs -> Kinds]
  BY MatchTypes, Zenon
<1>   /\ wr = "writing" /\ handed < Len(write_buffer) /\ handed' = handed + 1
      /\ commands' = IF peer /\ req[e].cmds # <<>> THEN Append(commands, e) ELSE commands
      /\ UNCHANGED <<op, req, expected_responses, reqs, status, on_push, read_buffer,
                     wr, write_buffer, replies, peer, answered>>
  BY Zenon DEF write_some, exec_vars, queue_vars, reader_vars
<1> unsent # <<>> /\ Head(unsent) = e /\ Tail(unsent) = SubSeq(write_buffer, handed + 2, Len(write_buffer))
  BY SplitAt, Zenon DEF unsent
<1> e \in Execs
  <2>1. handed + 1 \in 1 .. Len(write_buffer)
    OBVIOUS
  <2> QED
    BY <2>1
<1> unsent' = Tail(unsent)
  <2>1. handed' + 1 = handed + 2 /\ UNCHANGED <<wr, write_buffer>>
    OBVIOUS
  <2>2. unsent' = SubSeq(write_buffer, handed + 2, Len(write_buffer))
    BY <2>1, Zenon DEF unsent
  <2> QED
    BY <2>2, Zenon
<1>4. req[e] \in Kinds
  BY Zenon
<1>5. 0 < Len(req[e].cmds) /\ req[e].cmds # <<>>
  BY <1>4, HasCommands, Zenon
<1>6. stream' = stream
  BY Zenon DEF stream
<1>7. Matched(stream, O, U, R, peer)
  BY Zenon DEF Linked
<1>8. CASE peer
  <2>1. commands' = Append(commands, e)
    BY <1>5, <1>8, Zenon
  <2>2. line' = line
    BY <2>1, ConcatShift, Zenon DEF line
  <2> commands' # <<>> /\ Head(commands') = IF commands = <<>> THEN e ELSE Head(commands)
    BY <2>1, SMTT(30)
  <2>4. answered' < Len(req[Head(commands')].cmds)
    <3>1. CASE commands = <<>>
      BY <1>5, <3>1, Zenon DEF Linked
    <3>2. CASE commands # <<>>
      BY <3>2, Zenon DEF Linked
    <3> QED
      BY <3>1, <3>2, Zenon
  <2>5. Matched(stream', O, V, R, peer')
    BY <1>6, <1>7, <2>2, Zenon
  <2>6. wr # "wrote"
    BY Zenon
  <2> HIDE DEF O, U, V, R
  <2> QED
    BY <1>8, <2>2, <2>4, <2>5, <2>6, ServerLinks, Zenon DEF O, V, R
<1>9. CASE ~peer
  <2> commands = <<>> /\ answered = 0
    BY <1>9, Zenon DEF Linked
  <2>2. commands' = <<>> /\ answered' = 0
    BY <1>9, Zenon
  <2>3. line = unsent /\ line' = Tail(unsent)
    <3>1. Tail(unsent) \in Seq(Execs)
      OBVIOUS
    <3> QED
      BY <2>2, <3>1 DEF line
  <2>4. V \in SUBSET U
    BY <2>3, UnansweredTail, Zenon
  <2>5. Agree(R, R, O)
    BY Zenon DEF Agree
  <2>6. Matched(stream', O, V, R, peer')
    <3> HIDE DEF O, U, V, R
    <3> QED
      BY <1>6, <1>7, <1>9, <2>4, <2>5, MatchedLess, Zenon
  <2>7. /\ Elements(line') \subseteq Elements(line)
        /\ \A f, g \in Execs : Before(line', f, g) => Before(line, f, g)
    BY <2>3, TailBefore, Zenon
  <2>8. wr # "wrote"
    BY Zenon
  <2> HIDE DEF O, U, V, R
  <2> QED
    BY <2>2, <2>6, <2>7, <2>8, ServerLinks, Zenon DEF O, V, R
<1> QED
  BY <1>8, <1>9, Zenon

\* The reader moves messages from the socket to its buffer.
LEMMA AppendSomeLinks ==
  ASSUME Inv, Linked, append_some
  PROVE  Linked'
<1>   /\ UNCHANGED <<op, req, expected_responses, reqs, status, on_push, wr,
                     write_buffer, handed, commands, answered, peer>>
      /\ \E n \in 0 .. Len(replies) :
            /\ read_buffer' = read_buffer \o SubSeq(replies, 1, n)
            /\ replies' = SubSeq(replies, n + 1, Len(replies))
  BY Zenon DEF append_some, exec_vars, queue_vars, writer_vars
<1>2. PICK n \in 0 .. Len(replies) :
         /\ read_buffer' = read_buffer \o SubSeq(replies, 1, n)
         /\ replies' = SubSeq(replies, n + 1, Len(replies))
  BY Zenon
<1> read_buffer \in Seq(Messages) /\ replies \in Seq(Messages)
  BY MatchTypes, Zenon
<1> DEFINE u == SubSeq(replies, 1, n)
           v == SubSeq(replies, n + 1, Len(replies))
<1> u \in Seq(Messages) /\ v \in Seq(Messages) /\ replies = u \o v
  BY SplitAt, Zenon
<1>4. read_buffer' = read_buffer \o u /\ replies' = v
  BY <1>2, Zenon
<1> HIDE DEF u, v
<1>5. (read_buffer \o u) \o v = read_buffer \o (u \o v)
  <2>1. \A a, b, c \in Seq(Messages) : (a \o b) \o c = a \o (b \o c)
    BY ONLY ConcatAssoc, SMTT(30)
  <2> QED
    BY <2>1, ZenonT(30)
<1>6. stream' = stream
  BY <1>4, <1>5, Zenon DEF stream
<1>7. on_push => read_buffer' # <<>> /\ Head(read_buffer') = Push
  BY <1>4, ConcatHeadTail DEF Linked
<1>8. owing' = owing /\ line' = line
  BY Zenon DEF owing, waiting, line, unsent
<1>9. LineInv'
  BY <1>8, Zenon DEF Linked, LineInv
<1> QED
  BY <1>6, <1>7, <1>8, <1>9, Zenon DEF Linked

\* The message at the head of the buffer is the one at the head of the stream.
LEMMA StreamTail ==
  ASSUME Inv, read_buffer # <<>>, read_buffer' = Tail(read_buffer), UNCHANGED replies
  PROVE  stream # <<>> /\ Head(stream) = Head(read_buffer) /\ stream' = Tail(stream)
<1>1. read_buffer \in Seq(Messages) /\ replies \in Seq(Messages)
  BY MatchTypes, Zenon
<1> QED
  BY <1>1, ConcatHeadTail, Zenon DEF stream

\* The reader takes a push.
LEMMA OnReadPushLinks ==
  ASSUME Inv, CountInv, Linked, on_read_push
  PROVE  Linked'
<1> DEFINE O == Owed(owing, req, expected_responses)
           U == Unanswered(line, req, answered)
           R == InOrder(reqs)
<1>   /\ read_buffer # <<>> /\ (on_push \/ is_next_push)
      /\ read_buffer' = Tail(read_buffer) /\ on_push' = FALSE
      /\ UNCHANGED <<op, req, expected_responses, reqs, status, wr,
                     write_buffer, handed, commands, answered, peer, replies>>
  BY Zenon DEF on_read_push, parsing_message, exec_vars, queue_vars, writer_vars, server_vars
<1>2. stream \in Seq(Messages)
  BY MatchTypes, Zenon
<1>3. stream # <<>> /\ Head(stream) = Push /\ stream' = Tail(stream)
  BY FirstMessage, StreamTail, Zenon
<1>4. Matched(stream, O, U, R, peer)
  BY Zenon DEF Linked
<1>5. Push \notin O
  BY OwedMember, Zenon
<1>6. Matched(stream', O, U, R, peer)
  <2> HIDE DEF O, U, R
  <2> QED
    BY <1>2, <1>3, <1>4, <1>5, MatchedTakePush, Zenon DEF Push
<1>7. owing' = owing /\ line' = line
  BY Zenon DEF owing, waiting, line, unsent
<1>8. LineInv'
  BY <1>7, Zenon DEF Linked, LineInv
<1> QED
  BY <1>6, <1>7, <1>8, Zenon DEF Linked

\* The reader takes a response.
LEMMA OnReadRespLinks ==
  ASSUME Inv, CountInv, Linked, on_read_resp
  PROVE  Linked'
<1> DEFINE O == Owed(owing, req, expected_responses)
           P == Owed(owing', req', expected_responses')
           U == Unanswered(line, req, answered)
           R == InOrder(reqs)
           h == Head(reqs)
           x == <<h, Expect(h) - expected_responses[h] + 1>>
<1>   /\ read_buffer # <<>> /\ ~on_push /\ ~is_next_push
      /\ read_buffer' = Tail(read_buffer)
      /\ expected_responses' = [expected_responses EXCEPT ![h] = @ - 1]
      /\ reqs' = IF expected_responses[h] = 1 THEN Tail(reqs) ELSE reqs
      /\ UNCHANGED <<op, req, status, wr, on_push,
                     write_buffer, handed, commands, answered, peer, replies>>
  BY Zenon DEF on_read_resp, parsing_message, writer_vars, server_vars
<1>   /\ reqs \in Seq(Execs) /\ owing \subseteq Execs /\ owing \subseteq Elements(reqs)
      /\ stream \in Seq(Messages) /\ QueueOrder
      /\ req \in [Execs -> Kinds] /\ expected_responses \in [Execs -> Nat]
      /\ IsAsymmetric(R, Execs \X Nat)
  BY MatchTypes, Zenon DEF QueueOrder
<1>2. Head(read_buffer) # Push
  BY Zenon DEF is_next_push
<1>   /\ reqs # <<>> /\ h \in owing /\ 1 <= expected_responses[h]
      /\ Head(read_buffer) = x
  BY <1>2, FirstResponse, Zenon
<1>4. stream # <<>> /\ Head(stream) = x /\ Head(stream) # Push /\ stream' = Tail(stream)
  BY <1>2, StreamTail, Zenon
<1>5. Matched(stream, O, U, R, peer)
  BY Zenon DEF Linked
<1>   /\ Elements(Tail(reqs)) = Elements(reqs) \ {h}
      /\ \A e, f : Before(Tail(reqs), e, f) => Before(reqs, e, f)
      /\ \A e, f : Before(reqs, e, f) => Before(Tail(reqs), e, f) \/ e = h
  BY TailElements, TailBefore, Zenon
<1> owing' = IF expected_responses[h] = 1 THEN owing \ {h} ELSE owing
  BY Zenon DEF owing, waiting
<1>8. expected_responses[h] <= Expect(h)
  BY Zenon DEF CountInv
<1>9. P = O \ {x}
  <2>1. Taking(owing, req, expected_responses, h, expected_responses', owing', x)
    BY <1>8, Zenon DEF Taking, Expect
  <2>2. req' = req
    BY Zenon
  <2> HIDE DEF x, h
  <2> QED
    BY <2>1, <2>2, OwedTake
<1>o. O \subseteq Execs \X Nat /\ \A m \in O : m[1] \in owing
  BY OwedMember, Zenon
<1>p. P \subseteq Execs \X Nat /\ \A m \in P : m[1] \in owing'
  BY OwedMember, Zenon
<1>10. \A e, f \in owing' : Before(reqs', e, f) <=> Before(reqs, e, f)
  <2>1. CASE expected_responses[h] = 1
    BY <2>1, Zenon
  <2>2. CASE expected_responses[h] # 1
    BY <2>2, Zenon
  <2> QED
    BY <2>1, <2>2, Zenon
<1>11. Agree(R, InOrder(reqs'), P)
  BY <1>p, <1>10, InOrderAgree, Zenon
<1>12. IsAsymmetric(R, O)
  BY <1>o, Zenon DEF IsAsymmetric
<1>13. Matched(stream', P, U, InOrder(reqs'), peer)
  <2> HIDE DEF O, P, U, R, x, h
  <2> QED
    BY <1>4, <1>5, <1>9, <1>11, <1>12, MatchedTake, Zenon DEF Push
<1>14. line' = line
  BY Zenon DEF line, unsent
<1>15. LineInv'
  <2>1. Elements(reqs') \subseteq Elements(reqs)
    BY Zenon
  <2>2. \A e \in Elements(line) : op[e] # "idle" /\ (e \in Elements(reqs') => e \in owing')
    <3>1. CASE expected_responses[h] = 1
      BY <3>1, Zenon DEF Linked, LineInv
    <3>2. CASE expected_responses[h] # 1
      BY <3>2, Zenon DEF Linked, LineInv
    <3> QED
      BY <3>1, <3>2, Zenon
  <2>3. \A e, f \in Execs : Before(line, e, f) /\ e \in Elements(reqs') => Before(reqs', e, f)
    <3>1. CASE expected_responses[h] = 1
      BY <3>1, Zenon DEF Linked, LineInv
    <3>2. CASE expected_responses[h] # 1
      BY <3>2, Zenon DEF Linked, LineInv
    <3> QED
      BY <3>1, <3>2, Zenon
  <2> QED
    BY <1>14, <2>2, <2>3, Zenon DEF LineInv
<1>16. Unanswered(line', req', answered') = U
  BY <1>14, Zenon
<1>17. IF commands' = <<>> THEN answered' = 0
                           ELSE peer' /\ answered' < Len(req'[Head(commands')].cmds)
  BY Zenon DEF Linked
<1>18. wr' = "wrote" => handed' = Len(write_buffer')
  BY Zenon DEF Linked
<1> HIDE DEF U
<1> QED
  BY <1>13, <1>15, <1>16, <1>17, <1>18, Zenon DEF Linked

\* coalesce_requests is called with the queue q and the status st that
\* on_write has left.
Staging(q, st) ==
    /\ q \in Seq(Execs) /\ st \in [Execs -> {"waiting", "staged", "written"}]
    /\ Ordered(q, st)
    /\ Elements(q) = Elements(reqs)
    /\ \A e, f \in Execs : Before(q, e, f) <=> Before(reqs, e, f)
    /\ \A e \in Execs : st[e] = "waiting" <=> status[e] = "waiting"
    /\ coalesce_requests(q, st, <<>>)

\* What holds of the requests that the server has received.
Received ==
    /\ \A e \in Elements(commands) : op[e] # "idle" /\ (e \in Elements(reqs) => e \in owing)
    /\ \A e, f \in Execs : Before(commands, e, f) /\ e \in Elements(reqs) => Before(reqs, e, f)
    /\ IF commands = <<>> THEN answered = 0
                          ELSE peer /\ answered < Len(req[Head(commands)].cmds)

\* coalesce_requests puts the waiting requests in line, behind those that the
\* server has received.
LEMMA StagingLinks ==
  ASSUME Inv, CountInv, NEW q, NEW st, Staging(q, st), Received,
         UNCHANGED <<op, req, expected_responses, peer, commands, answered>>,
         Matched(stream', Owed(owing, req, expected_responses),
                 Unanswered(commands, req, answered), InOrder(reqs), peer),
         on_push' => read_buffer' # <<>> /\ Head(read_buffer') = Push
  PROVE  Linked'
<1> DEFINE T == {e \in Execs : st[e] # "waiting"}
           n == PartitionPoint(q, T)
           staged == SubSeq(q, n + 1, Len(q))
           S == Elements(staged)
           N == Responses(S, req)
           O == Owed(owing, req, expected_responses)
           U == Unanswered(commands, req, answered)
<1>t. /\ reqs \in Seq(Execs) /\ Elements(reqs) \subseteq Execs /\ owing \subseteq Execs
      /\ owing \subseteq Elements(reqs)
      /\ req \in [Execs -> Kinds] /\ expected_responses \in [Execs -> Nat]
      /\ commands \in Seq(Execs) /\ IdleIsFresh
  BY MatchTypes, Zenon DEF Inv, QueueInv
<1>q. q \in Seq(Execs) /\ st \in [Execs -> {"waiting", "staged", "written"}] /\ Ordered(q, st)
  BY Zenon DEF Staging
<1>1. IsPartitioned(q, T)
  BY <1>q, OrderedIsPartitioned, Zenon
<1>2. n \in 0 .. Len(q)
  BY <1>q, <1>1, PartitionSplit, Zenon
<1>3. staged \in Seq(Execs) /\ S = Elements(q) \ T
  BY <1>q, <1>1, PartitionTail, Zenon
<1>4. \A e, f : Before(staged, e, f) => Before(q, e, f)
  <2> HIDE DEF n
  <2> DEFINE u == SubSeq(q, 1, n)
  <2>1. u \in Seq(Execs) /\ q = u \o staged
    BY <1>q, <1>2, SplitAt, Zenon
  <2> HIDE DEF u, staged
  <2> QED
    BY <1>3, <2>1, ConcatBefore, Zenon
<1>   /\ reqs' = q /\ write_buffer' = <<>> \o staged /\ handed' = 0
      /\ wr' \in {"writing", "timer"}
      /\ status' = [e \in Execs |-> IF e \in S THEN "staged" ELSE st[e]]
  BY Zenon DEF Staging, coalesce_requests
<1> HIDE DEF staged
<1>6. write_buffer' = staged /\ unsent' = staged
  <2>1. write_buffer' = staged
    BY <1>3
  <2>2. SubSeq(staged, 1, Len(staged)) = staged
    BY <1>3
  <2> QED
    BY <2>1, <2>2 DEF unsent
<1>7. line' = commands \o staged
  BY <1>6, Zenon DEF line
<1>8. S \subseteq Execs /\ S = Elements(reqs) \cap waiting
  BY <1>t, <1>3, Zenon DEF Staging, waiting
<1>9. owing' = owing \cup S
  BY <1>t, <1>8, Zenon DEF Staging, owing, waiting
<1>10. Owed(owing', req', expected_responses') = O \cup N
  <2>1. \A e \in S : expected_responses[e] = get_expected_responses(req[e])
    BY <1>8, Zenon DEF CountInv, Expect
  <2> HIDE DEF S
  <2> QED
    <3>1. Owed(owing \cup S, req, expected_responses) = O \cup N
      <4> DEFINE W == owing
                 r == req
                 x == expected_responses
      <4>1. /\ W \subseteq Execs /\ S \subseteq Execs
            /\ r \in [Execs -> Kinds] /\ x \in [Execs -> Nat]
            /\ \A e \in S : x[e] = get_expected_responses(r[e])
        BY <1>t, <1>8, <2>1, Zenon
      <4> HIDE DEF W, r, x
      <4>2. Owed(W \cup S, r, x) = Owed(W, r, x) \cup Responses(S, r)
        BY <4>1, OwedMore
      <4> QED
        BY <4>2, Zenon DEF W, r, x
    <3> QED
      BY <1>9, <3>1, Zenon
<1>11. Unanswered(line', req', answered') = U \cup N
  <2>1. commands = <<>> => answered = 0
    BY Zenon DEF Received
  <2>2. Unanswered(commands \o staged, req, answered) = U \cup N
    <3> DEFINE c == commands
               a == answered
               r == req
    <3>1. c \in Seq(Execs) /\ staged \in Seq(Execs) /\ (c = <<>> => a = 0)
      BY <1>t, <1>3, <2>1, Zenon
    <3> HIDE DEF c, a, r
    <3>2. Unanswered(c \o staged, r, a) = Unanswered(c, r, a) \cup Responses(Elements(staged), r)
      BY <3>1, UnansweredMore
    <3> QED
      BY <3>2, Zenon DEF c, a, r
  <2> QED
    BY <1>7, <2>2, Zenon
<1> O \subseteq Execs \X Nat /\ \A m \in O : m[1] \in owing
  BY OwedMember, Zenon
<1> N \subseteq Execs \X Nat /\ \A m \in N : m[1] \in S
  BY Zenon DEF Responses
<1>12. ASSUME NEW e \in owing, NEW f \in S PROVE Before(q, e, f)
  <2>1. e \in Elements(q) /\ f \in Elements(q) /\ e \in Execs /\ f \in Execs
        /\ st[e] # "waiting" /\ st[f] = "waiting"
    BY <1>t, <1>8, Zenon DEF Staging, owing, waiting
  <2>2. Before(q, e, f) \/ Before(q, f, e)
    BY <1>q, <2>1, BeforeTotal, Zenon
  <2>3. ~Before(q, f, e)
    BY <1>q, <2>1, Zenon DEF Ordered
  <2> QED
    BY <2>2, <2>3, Zenon
<1> HIDE DEF S, N, O
<1>13. \A x \in O, y \in N : <<x, y>> \in InOrder(q)
  <2> SUFFICES ASSUME NEW x \in O, NEW y \in N PROVE <<x, y>> \in InOrder(q)
    BY Zenon
  <2>1. x \in Execs \X Nat /\ y \in Execs \X Nat
    BY Zenon
  <2>2. Before(q, x[1], y[1])
    BY <1>12, Zenon
  <2> QED
    BY <2>1, <2>2, InOrderMember, Zenon
<1>14. Agree(InOrder(reqs), InOrder(q), O)
  BY <1>t, InOrderAgree, Zenon DEF Staging
<1>15. IsAsymmetric(InOrder(q), O \cup N) /\ Push \notin N
  <2>1. IsAsymmetric(InOrder(q), Execs \X Nat)
    BY <1>q, InOrderStrict, Zenon
  <2>2. O \cup N \subseteq Execs \X Nat
    BY Zenon
  <2> QED
    BY <2>1, <2>2, PushIsNoResponse, Zenon DEF IsAsymmetric
<1>16. Matched(stream', O \cup N, U \cup N, InOrder(q), peer)
  <2> DEFINE s == stream'
  <2>1. Matched(s, O, U, InOrder(reqs), peer)
    BY Zenon DEF O
  <2> HIDE DEF U, s
  <2>2. Matched(s, O \cup N, U \cup N, InOrder(q), peer)
    BY <1>13, <1>14, <1>15, <2>1, MatchedMore, Zenon DEF Push
  <2> QED
    BY <2>2, Zenon DEF s
<1>17. LineInv'
  <2>1. Elements(line') = Elements(commands) \cup S
    BY <1>t, <1>3, <1>7, ConcatElements DEF S
  <2>2. \A e \in Elements(line') : op[e] # "idle" /\ (e \in Elements(q) => e \in owing')
    BY <1>t, <1>8, <1>9, <2>1, Zenon DEF IdleIsFresh, Staging, Received
  <2>3. ASSUME NEW e \in Execs, NEW f \in Execs, Before(line', e, f), e \in Elements(q)
        PROVE  Before(q, e, f)
    <3>1. Before(commands, e, f) \/ Before(staged, e, f) \/ (e \in Elements(commands) /\ f \in S)
      BY <1>t, <1>3, <1>7, <2>3, ConcatBefore, Zenon DEF S
    <3>2. CASE Before(commands, e, f)
      BY <2>3, <3>2, Zenon DEF Staging, Received
    <3>3. CASE Before(staged, e, f)
      BY <1>4, <3>3, Zenon
    <3>4. CASE e \in Elements(commands) /\ f \in S
      BY <1>12, <2>3, <3>4, Zenon DEF Staging, Received
    <3> QED
      BY <3>1, <3>2, <3>3, <3>4, Zenon
  <2> QED
    BY <2>2, <2>3, Zenon DEF LineInv
<1>18. Matched(stream', Owed(owing', req', expected_responses'),
               Unanswered(line', req', answered'), InOrder(reqs'), peer')
  BY <1>10, <1>11, <1>16, Zenon
<1>19. wr' = "wrote" => handed' = Len(write_buffer')
  BY Zenon
<1> QED
  BY <1>17, <1>18, <1>19, Zenon DEF Linked, Received

==============================================================================
