--------------------------- MODULE ConnectionInv -----------------------------
(*****************************************************************************)
(* The inductive invariant of module Connection, what the operators that the *)
(* actions share do to it, and that the steps of exec_op, writer_op and      *)
(* reader_op keep it: the queue stays in order and no request is lost.       *)
(*****************************************************************************)
EXTENDS Connection, DequeTheorems

\* An async_exec that has not been called has no trace in the queue.
IdleIsFresh ==
    \A e \in Execs : op[e] = "idle" =>
        status[e] = "waiting" /\ e \notin stopped /\ e \notin Elements(reqs)

\* A suspended exec whose request is waiting, and not stopped, is queued.
WaitingAreQueued ==
    \A e \in Execs : op[e] = "waiting" /\ e \notin stopped /\ status[e] = "waiting"
                     => e \in Elements(reqs)

\* What holds of the queue.
QueueInv == QueueOrder /\ SuspendedAreQueued /\ IdleIsFresh /\ WaitingAreQueued

\* What holds of the writer.
WriterInv ==
    /\ NoLostWakeup
    /\ wr \in {"timer", "woken"} => write_buffer = <<>>
    /\ run # "up" => wr = "off"

\* The inductive invariant.
Inv == TypeOK /\ QueueInv /\ WriterInv

\* What OrderIsStable says of a step.
OrderKept ==
    \A e, f \in Elements(reqs) \cap Elements(reqs') :
        Before(reqs, e, f) => Before(reqs', e, f)

\* No exec starts in this step, or becomes suspended.
NoneStarts ==
    \A e \in Execs : op'[e] \in {"idle", "waiting"} => op'[e] = op[e]

\* The number of responses that a request expects is a natural number.
LEMMA RespondingType ==
  ASSUME NEW cmds, NEW n \in Nat
  PROVE  Responding(cmds, n) \in Nat
<1>1. IsFiniteSet(1 .. n)
  BY FS_Interval
<1>2. IsFiniteSet({i \in 1 .. n : cmds[i] = "resp"})
  BY <1>1, FS_Subset, Zenon
<1> QED
  BY <1>2, FS_CardinalityType, Zenon DEF Responding

\* The same for the function of the code.
LEMMA ExpectedType ==
  ASSUME NEW k \in Kinds
  PROVE  get_expected_responses(k) \in Nat
<1>1. Len(k.cmds) \in Nat
  BY ConnectionAssumption DEF Requests
<1> QED
  BY <1>1, RespondingType, Zenon DEF get_expected_responses

\* The elements of the queue are execs.
LEMMA QueueElements ==
  ASSUME NEW q \in Seq(Execs)
  PROVE  Elements(q) \subseteq Execs
BY DEF Elements

\* An ordered queue is partitioned as std::partition_point requires.
LEMMA OrderedIsPartitioned ==
  ASSUME NEW q \in Seq(Execs), NEW st, Ordered(q, st),
         st \in [Execs -> {"waiting", "staged", "written"}]
  PROVE  IsPartitioned(q, {e \in Execs : st[e] # "waiting"})
<1> SUFFICES ASSUME NEW i \in DOMAIN q, NEW j \in DOMAIN q, i < j,
                    q[j] \in {e \in Execs : st[e] # "waiting"}
             PROVE  q[i] \in {e \in Execs : st[e] # "waiting"}
  BY Zenon DEF IsPartitioned
<1>1. q[i] \in Execs /\ q[j] \in Execs
  OBVIOUS
<1>2. Before(q, q[i], q[j])
  BY Zenon DEF Before
<1>3. st[q[j]] \in {"staged", "written"}
  BY <1>1, Zenon
<1> QED
  BY <1>1, <1>2, <1>3, Zenon DEF Ordered

\* Removing the requests in S from the queue.
LEMMA KeepQueue ==
  ASSUME reqs \in Seq(Execs), NEW S, reqs' = Keep(reqs, Execs \ S)
  PROVE  /\ reqs' \in Seq(Execs)
         /\ Elements(reqs') = Elements(reqs) \ S
         /\ \A e, f \in Execs : Before(reqs', e, f) => Before(reqs, e, f)
         /\ OrderKept
<1>1. reqs' \in Seq(Execs)
  BY KeepElements, Zenon
<1>2. Elements(reqs') = Elements(reqs) \cap (Execs \ S)
  BY KeepElements, Zenon
<1>3. Elements(reqs) \subseteq Execs
  BY QueueElements, Zenon
<1>4. \A e, f : Before(reqs', e, f) <=> Before(reqs, e, f) /\ e \in Execs \ S /\ f \in Execs \ S
  BY KeepBefore, Zenon
<1>5. OrderKept
  BY <1>2, <1>4, Zenon DEF OrderKept
<1> QED
  BY <1>1, <1>2, <1>3, <1>4, <1>5, Zenon

\* The queue invariant survives a step that removes the requests in S, when
\* each of them is stopped, or is told to proceed and was not waiting, or
\* belongs to an exec that completes in the step.
LEMMA RemovalKeepsQueueInv ==
  ASSUME QueueType, QueueInv, NoneStarts, NEW S,
         reqs' = Keep(reqs, Execs \ S),
         status' \in [Execs -> {"waiting", "staged", "written"}],
         \A e \in Execs : status'[e] # status[e] => e \in Elements(reqs'),
         Ordered(reqs', status'),
         notified \subseteq notified', stopped \subseteq stopped',
         stopped' \subseteq stopped \cup (S \cap Elements(reqs)),
         \A e \in S \cap Elements(reqs) :
             \/ e \in notified' /\ (e \in stopped' \/ status[e] # "waiting")
             \/ op'[e] \notin {"idle", "waiting"}
  PROVE  QueueInv' /\ OrderKept
<1>   /\ Elements(reqs') = Elements(reqs) \ S
      /\ OrderKept
  BY KeepQueue, Zenon DEF QueueType
<1>2. SuspendedAreQueued'
  BY Zenon DEF SuspendedAreQueued, QueueInv, NoneStarts
<1>3. WaitingAreQueued'
  BY Zenon DEF WaitingAreQueued, QueueInv, NoneStarts
<1>4. IdleIsFresh'
  BY Zenon DEF IdleIsFresh, QueueInv, NoneStarts
<1> QED
  BY <1>2, <1>3, <1>4, Zenon DEF QueueInv, QueueOrder

\* The variables that a step leaves alone keep their types.
LEMMA SameTypes ==
  /\ ExecType   /\ UNCHANGED exec_vars   => ExecType'
  /\ QueueType  /\ UNCHANGED queue_vars  => QueueType'
  /\ WriterType /\ UNCHANGED writer_vars => WriterType'
  /\ ReaderType /\ UNCHANGED reader_vars => ReaderType'
  /\ ConnType   /\ UNCHANGED conn_vars /\ UNCHANGED chan_vars => ConnType'
  /\ ServerType /\ UNCHANGED server_vars => ServerType'
<1>1. ExecType /\ UNCHANGED exec_vars => ExecType'
  BY Zenon DEF ExecType, exec_vars
<1>2. QueueType /\ UNCHANGED queue_vars => QueueType'
  BY Zenon DEF QueueType, queue_vars
<1>3. WriterType /\ UNCHANGED writer_vars => WriterType'
  BY Zenon DEF WriterType, writer_vars
<1>4. ReaderType /\ UNCHANGED reader_vars => ReaderType'
  BY Zenon DEF ReaderType, reader_vars
<1>5. ConnType /\ UNCHANGED conn_vars /\ UNCHANGED chan_vars => ConnType'
  BY Zenon DEF ConnType, conn_vars, chan_vars
<1>6. ServerType /\ UNCHANGED server_vars => ServerType'
  BY Zenon DEF ServerType, server_vars
<1> QED
  BY <1>1, <1>2, <1>3, <1>4, <1>5, <1>6, Zenon

\* A step that leaves the queue alone.
LEMMA SameQueue ==
  ASSUME QueueInv, NoneStarts, notified \subseteq notified',
         UNCHANGED <<reqs, status, stopped>>
  PROVE  QueueInv' /\ OrderKept
<1>1. SuspendedAreQueued' /\ WaitingAreQueued' /\ IdleIsFresh'
  BY Zenon DEF QueueInv, SuspendedAreQueued, WaitingAreQueued, IdleIsFresh, NoneStarts
<1>2. QueueOrder' /\ OrderKept
  BY DEF QueueInv, QueueOrder, Ordered, Before, OrderKept
<1> QED
  BY <1>1, <1>2, Zenon DEF QueueInv

\* Removing requests and leaving the status of the others alone.
LEMMA StopKeepsQueueInv ==
  ASSUME QueueType, QueueInv, NoneStarts, NEW S \in SUBSET Elements(reqs),
         NEW W \in SUBSET Execs, stop_requests(S, W), UNCHANGED status
  PROVE  /\ QueueInv' /\ OrderKept
         /\ reqs' \in Seq(Execs) /\ notified' \subseteq Execs /\ stopped' \subseteq Execs
         /\ Elements(reqs') = Elements(reqs) \ S
<1>1. /\ reqs' \in Seq(Execs) /\ Elements(reqs') = Elements(reqs) \ S
      /\ \A e, f \in Execs : Before(reqs', e, f) => Before(reqs, e, f)
  BY KeepQueue, Zenon DEF stop_requests, QueueType
<1>2. Elements(reqs) \subseteq Execs
  BY QueueElements, Zenon DEF QueueType
<1>3. Ordered(reqs', status')
  BY <1>1, Zenon DEF QueueInv, QueueOrder, Ordered
<1>4. notified' \subseteq Execs /\ stopped' \subseteq Execs
  BY <1>2, Zenon DEF stop_requests, QueueType
<1>5. QueueInv' /\ OrderKept
  <2>1. /\ reqs' = Keep(reqs, Execs \ S)
        /\ status' \in [Execs -> {"waiting", "staged", "written"}]
        /\ notified \subseteq notified' /\ stopped \subseteq stopped'
        /\ stopped' \subseteq stopped \cup (S \cap Elements(reqs))
        /\ \A e \in S : e \in notified' /\ e \in stopped'
    BY Zenon DEF stop_requests, QueueType
  <2> QED
    BY <1>3, <2>1, RemovalKeepsQueueInv, Zenon
<1> QED
  BY <1>1, <1>4, <1>5, Zenon

\* cancel_on_conn_lost, and the same step with more requests removed
\* (operation::all): those that stay are all waiting.
LEMMA LossKeepsQueueInv ==
  ASSUME QueueType, QueueInv, NoneStarts, NEW S \in SUBSET Elements(reqs), lost \subseteq S,
         NEW W \in SUBSET Execs, stop_requests(S, W),
         status' = [e \in Execs |-> IF e \in Elements(reqs) \ lost
                                    THEN "waiting" ELSE status[e]],
         S = lost \/ S = Elements(reqs)
  PROVE  /\ QueueInv' /\ OrderKept
         /\ reqs' \in Seq(Execs) /\ notified' \subseteq Execs /\ stopped' \subseteq Execs
         /\ status' \in [Execs -> {"waiting", "staged", "written"}]
<1>   /\ reqs' \in Seq(Execs) /\ Elements(reqs') = Elements(reqs) \ S /\ OrderKept
      /\ \A e, f \in Execs : Before(reqs', e, f) => Before(reqs, e, f)
  BY KeepQueue, Zenon DEF stop_requests, QueueType
<1>2. Elements(reqs) \subseteq Execs
  BY QueueElements, Zenon DEF QueueType
<1>3. /\ notified' \subseteq Execs /\ stopped' \subseteq Execs
      /\ status' \in [Execs -> {"waiting", "staged", "written"}]
  BY <1>2, Zenon DEF stop_requests, QueueType
<1>4. \A e \in Elements(reqs') : e \in Execs /\ status'[e] = "waiting"
  BY <1>2, Zenon
<1>5. \A e, f \in Execs : Before(reqs', e, f) => e \in Elements(reqs') /\ f \in Elements(reqs')
  BY Zenon DEF Before, Elements
<1>6. QueueOrder'
  BY <1>4, <1>5, Zenon DEF QueueInv, QueueOrder, Ordered
<1>7. /\ stopped' = stopped \cup S /\ notified' = notified \cup S \cup W
      /\ \A e \in Execs \ S : status'[e] = "waiting" \/ status'[e] = status[e]
      /\ \A e \in Execs \ Elements(reqs) : status'[e] = status[e]
  BY Zenon DEF stop_requests
<1>8. SuspendedAreQueued' /\ WaitingAreQueued'
  BY <1>7, Zenon DEF QueueInv, SuspendedAreQueued, WaitingAreQueued, NoneStarts
<1>9. IdleIsFresh'
  BY <1>7, Zenon DEF QueueInv, IdleIsFresh, NoneStarts
<1> QED
  BY <1>3, <1>6, <1>8, <1>9, Zenon DEF QueueInv

\* cancel_impl(operation::run).
LEMMA CancelRunKeepsQueueInv ==
  ASSUME QueueType, ConnType, QueueInv, NoneStarts, NEW W \in SUBSET Execs, cancel_run(W)
  PROVE  /\ QueueInv' /\ OrderKept
         /\ reqs' \in Seq(Execs) /\ notified' \subseteq Execs /\ stopped' \subseteq Execs
         /\ status' \in [Execs -> {"waiting", "staged", "written"}]
         /\ open' \in BOOLEAN /\ cancel_run_called' \in BOOLEAN /\ receiver' \in BOOLEAN
         /\ open' => cancel_run_called /\ UNCHANGED <<open, reqs, status>>
<1>1. CASE cancel_run_called
  <2>1. /\ UNCHANGED <<cancel_run_called, open, receiver, reqs, status, stopped>>
        /\ notified' = notified \cup W
    BY <1>1, Zenon DEF cancel_run
  <2>2. QueueInv' /\ OrderKept
    BY <2>1, SameQueue, Zenon
  <2> QED
    BY <1>1, <2>1, <2>2, Zenon DEF QueueType, ConnType
<1>2. CASE ~cancel_run_called
  <2>1. /\ cancel_run_called' = TRUE /\ open' = FALSE /\ receiver' = FALSE
        /\ stop_requests(lost, W)
        /\ status' = [e \in Execs |-> IF e \in Elements(reqs) \ lost
                                      THEN "waiting" ELSE status[e]]
    BY <1>2, Zenon DEF cancel_run, cancel_on_conn_lost
  <2>2. lost \in SUBSET Elements(reqs)
    BY Zenon DEF lost
  <2>3. /\ QueueInv' /\ OrderKept
        /\ reqs' \in Seq(Execs) /\ notified' \subseteq Execs /\ stopped' \subseteq Execs
        /\ status' \in [Execs -> {"waiting", "staged", "written"}]
    BY <2>1, <2>2, LossKeepsQueueInv, Zenon
  <2> QED
    BY <2>1, <2>3, Zenon
<1> QED
  BY <1>1, <1>2, Zenon

\* coalesce_requests stages exactly the waiting requests of an ordered queue
\* and leaves it ordered; the writer goes to sleep only with nothing staged.
LEMMA CoalesceStages ==
  ASSUME NEW q \in Seq(Execs), NEW st \in [Execs -> {"waiting", "staged", "written"}],
         Ordered(q, st), NEW b \in Seq(Execs), coalesce_requests(q, st, b)
  PROVE  /\ reqs' = q
         /\ status' = [e \in Execs |-> IF e \in Elements(q) /\ st[e] = "waiting"
                                       THEN "staged" ELSE st[e]]
         /\ Ordered(q, status')
         /\ write_buffer' \in Seq(Execs) /\ handed' \in 0 .. Len(write_buffer')
         /\ wr' \in {"writing", "timer"}
         /\ wr' = "timer" => write_buffer' = b
<1> DEFINE T == {e \in Execs : st[e] # "waiting"}
           staged == SubSeq(q, PartitionPoint(q, T) + 1, Len(q))
<1>1. IsPartitioned(q, T)
  BY OrderedIsPartitioned, Zenon
<1>2. staged \in Seq(Execs) /\ Elements(staged) = Elements(q) \ T
  BY <1>1, PartitionTail, Zenon
<1>   /\ reqs' = q
      /\ status' = [e \in Execs |-> IF e \in Elements(staged) THEN "staged" ELSE st[e]]
      /\ write_buffer' = b \o staged
      /\ handed' = 0
      /\ wr' = IF staged # <<>> THEN "writing" ELSE "timer"
  BY Zenon DEF coalesce_requests
<1> HIDE DEF staged
<1>4. Elements(q) \subseteq Execs
  BY QueueElements, Zenon
<1>5. status' = [e \in Execs |-> IF e \in Elements(q) /\ st[e] = "waiting"
                                 THEN "staged" ELSE st[e]]
  BY <1>2, Zenon
<1>6. Ordered(q, status')
  <2>1. \A e, f \in Execs : Before(q, e, f) => e \in Elements(q) /\ f \in Elements(q)
    BY Zenon DEF Before, Elements
  <2> QED
    BY <1>5, <2>1, Zenon DEF Ordered
<1>7. write_buffer' \in Seq(Execs) /\ handed' \in 0 .. Len(write_buffer')
  <2>1. b \o staged \in Seq(Execs)
    BY <1>2
  <2> QED
    BY <2>1
<1>8. wr' = "timer" => write_buffer' = b
  OBVIOUS
<1> QED
  BY <1>5, <1>6, <1>7, <1>8, Zenon

\* The writer stages the requests of the queue as it is.
LEMMA StagingKeepsQueueInv ==
  ASSUME QueueType, QueueInv, NoneStarts, NEW b \in Seq(Execs),
         coalesce_requests(reqs, status, b), UNCHANGED <<notified, stopped>>
  PROVE  /\ QueueInv' /\ OrderKept /\ reqs' = reqs
         /\ status' \in [Execs -> {"waiting", "staged", "written"}]
         /\ \A e \in Elements(reqs') : status'[e] # "waiting"
<1>   /\ reqs \in Seq(Execs) /\ status \in [Execs -> {"waiting", "staged", "written"}]
      /\ Ordered(reqs, status)
  BY Zenon DEF QueueType, QueueInv, QueueOrder
<1>   /\ reqs' = reqs
      /\ status' = [e \in Execs |-> IF e \in Elements(reqs) /\ status[e] = "waiting"
                                    THEN "staged" ELSE status[e]]
      /\ Ordered(reqs, status')
  BY CoalesceStages, Zenon
<1>3. QueueOrder' /\ OrderKept
  BY Zenon DEF QueueOrder, OrderKept
<1>4. SuspendedAreQueued' /\ WaitingAreQueued' /\ IdleIsFresh'
  BY Zenon DEF QueueInv, SuspendedAreQueued, WaitingAreQueued, IdleIsFresh, NoneStarts
<1>5. \A e \in Elements(reqs') : status'[e] # "waiting"
  BY QueueElements, Zenon
<1>6. status' \in [Execs -> {"waiting", "staged", "written"}]
  BY Zenon
<1> QED
  BY <1>3, <1>4, <1>5, <1>6, Zenon DEF QueueInv

-------------------------------------------------------------------------------
(* The requests in the queue, and the order of their responses.              *)

\* Requests that have been staged or written.
owing == Elements(reqs) \ waiting

\* The responses that a request expects when it is made.
Expect(e) == get_expected_responses(req[e])

\* Every request expects a response, and one that may be written again
\* expects only one: cancel_on_conn_lost does not reset expected_responses_.
Matchable ==
    /\ "cancel_run_op" \notin Env
    /\ \A k \in Kinds :
          /\ get_expected_responses(k) >= 1
          /\ k.cancel_if_unresponded \/ get_expected_responses(k) = 1

\* A request in the queue expects a response, a waiting one expects them all.
CountInv ==
    \A e \in Elements(reqs) : /\ 1 <= expected_responses[e] /\ expected_responses[e] <= Expect(e)
                              /\ e \in waiting => expected_responses[e] = Expect(e)

\* The order of the responses to the requests in the queue q.
InOrder(q) ==
    {p \in (Execs \X Nat) \X (Execs \X Nat) :
        \/ Before(q, p[1][1], p[2][1])
        \/ p[1][1] = p[2][1] /\ p[1][2] < p[2][2]}

\* The request at the front leaves the queue and is not in the rest of it.
LEMMA TailElements ==
  ASSUME reqs \in Seq(Execs), QueueOrder, reqs # <<>>
  PROVE  /\ Head(reqs) \in Elements(reqs)
         /\ Elements(Tail(reqs)) = Elements(reqs) \ {Head(reqs)}
<1>1. /\ Head(reqs) \in Execs /\ Elements(reqs) = Elements(Tail(reqs)) \cup {Head(reqs)}
      /\ \A x \in Elements(Tail(reqs)) : Before(reqs, Head(reqs), x)
  BY TailBefore, Zenon
<1>2. Elements(reqs) \subseteq Execs
  BY QueueElements, Zenon
<1>3. Head(reqs) \notin Elements(Tail(reqs))
  BY <1>1, Zenon DEF QueueOrder, Ordered
<1> QED
  BY <1>1, <1>3, Zenon

\* The types of the queue and of the requests in it.
LEMMA QueueTypes ==
  ASSUME Inv
  PROVE  /\ reqs \in Seq(Execs) /\ Elements(reqs) \subseteq Execs /\ Ordered(reqs, status)
         /\ status \in [Execs -> {"waiting", "staged", "written"}]
         /\ req \in [Execs -> Kinds] /\ expected_responses \in [Execs -> Nat]
<1>1. /\ reqs \in Seq(Execs) /\ Ordered(reqs, status)
      /\ status \in [Execs -> {"waiting", "staged", "written"}]
      /\ req \in [Execs -> Kinds] /\ expected_responses \in [Execs -> Nat]
  BY Zenon DEF Inv, TypeOK, QueueType, ExecType, QueueInv, QueueOrder
<1> QED
  BY <1>1, QueueElements, Zenon

\* No command, no response.
LEMMA RespondingZero ==
  ASSUME NEW c
  PROVE  Responding(c, 0) = 0
<1>1. {i \in 1 .. 0 : c[i] = "resp"} = {}
  OBVIOUS
<1> QED
  BY <1>1, FS_EmptySet, Zenon DEF Responding

\* One more command.
LEMMA RespondingNext ==
  ASSUME NEW c, NEW n \in Nat
  PROVE  Responding(c, n + 1) = Responding(c, n) + IF c[n + 1] = "resp" THEN 1 ELSE 0
<1> DEFINE A == {i \in 1 .. n : c[i] = "resp"}
           B == {i \in 1 .. n + 1 : c[i] = "resp"}
<1>1. IsFiniteSet(A) /\ n + 1 \notin A
  <2>1. A \in SUBSET (1 .. n) /\ n + 1 \notin A
    OBVIOUS
  <2>2. IsFiniteSet(A)
    BY <2>1, PositionsFinite, Zenon
  <2> QED
    BY <2>1, <2>2, Zenon
<1>2. CASE c[n + 1] = "resp"
  <2>1. B = A \cup {n + 1}
    BY <1>2
  <2>2. Cardinality(A \cup {n + 1}) = Cardinality(A) + 1
    BY <1>1, FS_AddElement, Zenon
  <2> QED
    BY <1>2, <2>1, <2>2, Zenon DEF Responding
<1>3. CASE c[n + 1] # "resp"
  <2>1. B = A
    BY <1>3
  <2>2. Responding(c, n) \in Nat
    BY RespondingType, Zenon
  <2> QED
    BY <1>3, <2>1, <2>2 DEF Responding
<1> QED
  BY <1>2, <1>3, Zenon

\* More commands, no fewer responses.
LEMMA RespondingMonotone ==
  ASSUME NEW c, NEW n \in Nat, NEW m \in Nat, n <= m
  PROVE  Responding(c, n) <= Responding(c, m)
<1> DEFINE A == {i \in 1 .. n : c[i] = "resp"}
           B == {i \in 1 .. m : c[i] = "resp"}
<1>1. IsFiniteSet(B)
  BY PositionsFinite, Zenon
<1>2. A \in SUBSET B
  OBVIOUS
<1>3. Cardinality(A) <= Cardinality(B)
  BY <1>1, <1>2, FS_Subset, Zenon
<1> QED
  BY <1>3, Zenon DEF Responding

\* Of two requests in a queue one comes before the other.
LEMMA BeforeTotal ==
  ASSUME NEW q \in Seq(Execs), NEW e \in Elements(q), NEW f \in Elements(q), e # f
  PROVE  Before(q, e, f) \/ Before(q, f, e)
<1>1. PICK i \in DOMAIN q, j \in DOMAIN q : q[i] = e /\ q[j] = f
  BY Zenon DEF Elements
<1>2. i \in Nat /\ j \in Nat /\ i # j
  BY <1>1
<1>3. i < j \/ j < i
  BY <1>2
<1> QED
  BY <1>1, <1>3, Zenon DEF Before

\* And not both, as no request is twice in it.
LEMMA BeforeStrict ==
  ASSUME NEW q \in Seq(Execs), NEW st, Ordered(q, st), NEW e, NEW f, Before(q, e, f)
  PROVE  e \in Execs /\ f \in Execs /\ e # f /\ ~Before(q, f, e)
<1>1. PICK i \in DOMAIN q, j \in DOMAIN q : i < j /\ q[i] = e /\ q[j] = f
  BY Zenon DEF Before
<1>2. e \in Execs /\ f \in Execs /\ e # f
  BY <1>1 DEF Ordered
<1>3. ASSUME Before(q, f, e) PROVE FALSE
  <2>1. PICK k \in DOMAIN q, l \in DOMAIN q : k < l /\ q[k] = f /\ q[l] = e
    BY <1>3, Zenon DEF Before
  <2>2. ~(i < l) /\ ~(k < j)
    BY <1>1, <1>2, <2>1, Zenon DEF Ordered, Before
  <2> QED
    BY <1>1, <2>1, <2>2
<1> QED
  BY <1>2, <1>3, Zenon

\* Membership in InOrder.
LEMMA InOrderMember ==
  ASSUME NEW q, NEW x \in Execs \X Nat, NEW y \in Execs \X Nat
  PROVE  <<x, y>> \in InOrder(q) <=> \/ Before(q, x[1], y[1])
                                     \/ x[1] = y[1] /\ x[2] < y[2]
BY Zenon DEF InOrder

\* The order of the responses is strict.
LEMMA InOrderStrict ==
  ASSUME NEW q \in Seq(Execs), NEW st, Ordered(q, st)
  PROVE  IsAsymmetric(InOrder(q), Execs \X Nat)
<1> SUFFICES ASSUME NEW x \in Execs \X Nat, NEW y \in Execs \X Nat,
                    <<x, y>> \in InOrder(q), <<y, x>> \in InOrder(q)
             PROVE  FALSE
  BY Zenon DEF IsAsymmetric
<1>1. Before(q, x[1], y[1]) \/ (x[1] = y[1] /\ x[2] < y[2])
  BY InOrderMember, Zenon
<1>2. Before(q, y[1], x[1]) \/ (y[1] = x[1] /\ y[2] < x[2])
  BY InOrderMember, Zenon
<1>3. x[2] \in Nat /\ y[2] \in Nat
  BY Zenon
<1> QED
  BY <1>1, <1>2, <1>3, BeforeStrict

-------------------------------------------------------------------------------
(* exec_op and the cancellation of requests.                                 *)

\* exec_op: the call, its cancellation, its completions.
LEMMA AsyncExecStep ==
  ASSUME Inv, NEW e \in Execs, NEW k \in Kinds, async_exec(e, k)
  PROVE  Inv' /\ OrderKept
<1> USE DEF async_exec, exec_vars, queue_vars, writer_vars, reader_vars, conn_vars,
            chan_vars, server_vars
<1>1. get_expected_responses(k) \in Nat
  BY ExpectedType, Zenon
<1>   /\ ExecType /\ QueueType /\ WriterType /\ ReaderType /\ ConnType /\ ServerType
      /\ QueueInv /\ WriterInv
  BY Zenon DEF Inv, TypeOK
<1>3. CASE k.cancel_if_not_connected /\ ~open
  <2>1. TypeOK'
    <3>1. ExecType'
      BY <1>1, <1>3, Zenon DEF ExecType
    <3>2. QueueType' /\ WriterType' /\ ReaderType' /\ ConnType' /\ ServerType'
      BY <1>3 DEF QueueType, WriterType, ReaderType, ConnType, ServerType
    <3> QED
      BY <3>1, <3>2, Zenon DEF TypeOK
  <2>2. NoneStarts
    BY <1>3, Zenon DEF ExecType, NoneStarts
  <2>3. QueueInv' /\ OrderKept
    BY <1>3, <2>2, SameQueue, Zenon
  <2>4. WriterInv'
    BY <1>3, Zenon DEF WriterInv, NoLostWakeup, waiting
  <2> QED
    BY <2>1, <2>3, <2>4, Zenon DEF Inv
<1>4. CASE ~(k.cancel_if_not_connected /\ ~open)
  <2> add_request_info(e, k) /\ op' = [op EXCEPT ![e] = "waiting"]
    BY <1>4, Zenon
  <2> reqs \in Seq(Execs) /\ Elements(reqs) \subseteq Execs
    BY QueueElements, Zenon DEF QueueType
  <2>3. e \notin Elements(reqs) /\ e \notin stopped /\ status[e] = "waiting"
    BY Zenon DEF QueueInv, IdleIsFresh
  <2> DEFINE T == Execs \ waiting
  <2>   /\ reqs' \in Seq(Execs) /\ Elements(reqs') = Elements(reqs) \cup {e}
        /\ OrderKept
        /\ \A x, y : Before(reqs', x, y) =>
              \/ Before(reqs, x, y)
              \/ y = e /\ x \in Elements(reqs)
              \/ x = e /\ y \in Elements(reqs) \ T
    <3>1. CASE k.has_hello_priority
      <4>1. T = {x \in Execs : status[x] # "waiting"}
        BY Zenon DEF waiting
      <4> IsPartitioned(reqs, T)
        <5>1. Ordered(reqs, status) /\ status \in [Execs -> {"waiting", "staged", "written"}]
          BY Zenon DEF QueueType, QueueInv, QueueOrder
        <5>2. IsPartitioned(reqs, {x \in Execs : status[x] # "waiting"})
          BY <5>1, OrderedIsPartitioned, Zenon
        <5> QED
          BY <4>1, <5>2, Zenon
      <4> reqs' = InsertAfter(reqs, PartitionPoint(reqs, T), e)
        BY <3>1, Zenon DEF add_request_info, hello_point
      <4> HIDE DEF T
      <4>4. reqs' \in Seq(Execs) /\ Elements(reqs') = Elements(reqs) \cup {e}
        BY InsertAtPoint
      <4>5. \A x, y : Before(reqs, x, y) => Before(reqs', x, y)
        BY InsertAtPoint
      <4>6. \A x, y : Before(reqs', x, y) =>
               \/ Before(reqs, x, y)
               \/ y = e /\ x \in Elements(reqs) \cap T
               \/ x = e /\ y \in Elements(reqs) \ T
        BY InsertAtPoint
      <4> QED
        BY <4>4, <4>5, <4>6, Zenon DEF OrderKept
    <3>2. CASE ~k.has_hello_priority
      <4>1. reqs' = Append(reqs, e)
        BY <3>2, Zenon DEF add_request_info
      <4> HIDE DEF T
      <4> QED
        BY <4>1, AppendBefore, Zenon DEF OrderKept
    <3> QED
      BY <3>1, <3>2, Zenon
  <2> wr' \in {wr, timer_cancelled} /\ (open /\ ~is_writing => wr' = timer_cancelled)
    BY Zenon DEF add_request_info
  <2>6. TypeOK'
    <3>1. ExecType'
      BY <1>1, Zenon DEF ExecType
    <3>2. QueueType' /\ WriterType'
      BY Zenon DEF QueueType, WriterType, timer_cancelled
    <3>3. ReaderType' /\ ConnType' /\ ServerType'
      BY DEF ReaderType, ConnType, ServerType
    <3> QED
      BY <3>1, <3>2, <3>3, Zenon DEF TypeOK
  <2>7. QueueOrder'
    <3> SUFFICES ASSUME NEW x \in Execs, NEW y \in Execs, Before(reqs', x, y)
                 PROVE  /\ x # y
                        /\ status[y] = "written" => status[x] = "written"
                        /\ status[y] = "staged"  => status[x] # "waiting"
      BY Zenon DEF QueueOrder, Ordered
    <3>1. CASE Before(reqs, x, y)
      BY <3>1, Zenon DEF QueueInv, QueueOrder, Ordered
    <3>2. CASE y = e /\ x \in Elements(reqs)
      BY <2>3, <3>2, Zenon
    <3>3. CASE x = e /\ y \in Elements(reqs) \ T
      BY <2>3, <3>3, Zenon DEF waiting
    <3> QED
      BY <3>1, <3>2, <3>3, Zenon
  <2>8. SuspendedAreQueued' /\ WaitingAreQueued' /\ IdleIsFresh'
    BY Zenon DEF ExecType, QueueInv, SuspendedAreQueued, WaitingAreQueued, IdleIsFresh
  <2>9. WriterInv'
    <3>1. wr = "timer" => ~is_writing
      BY DEF WriterInv, is_writing
    <3>2. open => wr' # "timer"
      BY <3>1, Zenon DEF timer_cancelled
    <3> QED
      BY <3>2, Zenon DEF WriterInv, NoLostWakeup, timer_cancelled
  <2> QED
    BY <2>6, <2>7, <2>8, <2>9, Zenon DEF Inv, QueueInv
<1> QED
  BY <1>3, <1>4, Zenon

\* exec_op completes at once with not_connected.
LEMMA ExecOpNotConnectedStep ==
  ASSUME Inv, NEW e \in Execs, exec_op_not_connected(e)
  PROVE  Inv' /\ OrderKept
<1> USE DEF exec_vars, queue_vars, writer_vars, reader_vars, conn_vars, chan_vars, server_vars
<1>   /\ ExecType /\ QueueType /\ WriterType /\ ReaderType /\ ConnType /\ ServerType
      /\ QueueInv /\ WriterInv
  BY Zenon DEF Inv, TypeOK
<1> USE DEF exec_op_not_connected
<1>1. ExecType'
  BY Zenon DEF ExecType, Results
<1>2. QueueType' /\ WriterType' /\ ReaderType' /\ ConnType' /\ ServerType'
  BY SameTypes, Zenon
<1>3. NoneStarts /\ notified \subseteq notified' /\ UNCHANGED <<reqs, status, stopped>>
  BY Zenon DEF ExecType, NoneStarts
<1>4. WriterInv'
  BY Zenon DEF WriterInv, NoLostWakeup, waiting
<1> QED
  BY <1>1, <1>2, <1>3, <1>4, SameQueue, Zenon DEF Inv, TypeOK

\* exec_op resumes after proceed() or stop() and completes.
LEMMA ExecOpCompletesStep ==
  ASSUME Inv, NEW e \in Execs, exec_op_completes(e)
  PROVE  Inv' /\ OrderKept
<1> USE DEF exec_vars, queue_vars, writer_vars, reader_vars, conn_vars, chan_vars, server_vars
<1>   /\ ExecType /\ QueueType /\ WriterType /\ ReaderType /\ ConnType /\ ServerType
      /\ QueueInv /\ WriterInv
  BY Zenon DEF Inv, TypeOK
<1> USE DEF exec_op_completes
<1>1. ExecType'
  BY Zenon DEF ExecType, Results, complete
<1>2. QueueType' /\ WriterType' /\ ReaderType' /\ ConnType' /\ ServerType'
  BY SameTypes, Zenon
<1>3. NoneStarts /\ notified \subseteq notified' /\ UNCHANGED <<reqs, status, stopped>>
  BY Zenon DEF ExecType, NoneStarts, complete, Results
<1>4. WriterInv'
  BY Zenon DEF WriterInv, NoLostWakeup, waiting
<1> QED
  BY <1>1, <1>2, <1>3, <1>4, SameQueue, Zenon DEF Inv, TypeOK

\* A cancellation signal reaches a suspended exec_op.
LEMMA CancelExecOpStep ==
  ASSUME Inv, NEW e \in Execs, cancel_exec_op(e)
  PROVE  Inv' /\ OrderKept
<1> USE DEF exec_vars, queue_vars, writer_vars, reader_vars, conn_vars, chan_vars, server_vars
<1>   /\ ExecType /\ QueueType /\ WriterType /\ ReaderType /\ ConnType /\ ServerType
      /\ QueueInv /\ WriterInv
  BY Zenon DEF Inv, TypeOK
<1> USE DEF cancel_exec_op
<1>1. ExecType'
  BY Zenon DEF ExecType
<1>2. QueueType'
  BY Zenon DEF QueueType
<1>3. WriterType' /\ ReaderType' /\ ConnType' /\ ServerType'
  BY SameTypes, Zenon
<1>4. NoneStarts /\ notified \subseteq notified' /\ UNCHANGED <<reqs, status, stopped>>
  BY Zenon DEF ExecType, NoneStarts
<1>5. WriterInv'
  BY Zenon DEF WriterInv, NoLostWakeup, waiting
<1> QED
  BY <1>1, <1>2, <1>3, <1>4, <1>5, SameQueue, Zenon DEF Inv, TypeOK

\* exec_op has been cancelled: it removes its request, or ends the run.
LEMMA ExecCancelledStep ==
  ASSUME Inv, NEW e \in Execs, exec_op_cancelled(e)
  PROVE  Inv' /\ OrderKept
<1> USE DEF exec_vars, queue_vars, writer_vars, reader_vars, conn_vars, chan_vars, server_vars
<1>   /\ ExecType /\ QueueType /\ WriterType /\ ReaderType /\ ConnType /\ ServerType
      /\ QueueInv /\ WriterInv
  BY Zenon DEF Inv, TypeOK
<1> USE DEF exec_op_cancelled, remove_request
<1>2. op' = [op EXCEPT ![e] = "aborted"]
  BY Zenon DEF complete
<1> NoneStarts /\ op'[e] \notin {"idle", "waiting"}
  BY <1>2, Zenon DEF ExecType, NoneStarts
<1>4. ExecType' /\ ServerType'
  BY <1>2, Zenon DEF ExecType, ServerType, Results
<1>5. CASE e \in waiting
  <2>   /\ reqs' = Keep(reqs, Execs \ {e})
        /\ UNCHANGED <<status, notified, stopped, open, cancel_run_called, receiver, wr, rd>>
    BY <1>5, Zenon
  <2>   /\ reqs' \in Seq(Execs) /\ Elements(reqs') = Elements(reqs) \ {e}
        /\ \A x, y \in Execs : Before(reqs', x, y) => Before(reqs, x, y)
    BY KeepQueue, Zenon DEF QueueType
  <2>3. Ordered(reqs', status')
    BY Zenon DEF QueueInv, QueueOrder, Ordered
  <2>4. QueueInv' /\ OrderKept
    <3>1. /\ status' \in [Execs -> {"waiting", "staged", "written"}]
          /\ \A x \in Execs : status'[x] # status[x] => x \in Elements(reqs')
          /\ notified \subseteq notified' /\ stopped \subseteq stopped'
          /\ stopped' \subseteq stopped \cup ({e} \cap Elements(reqs))
      BY Zenon DEF QueueType
    <3>2. \A x \in {e} \cap Elements(reqs) :
             \/ x \in notified' /\ (x \in stopped' \/ status[x] # "waiting")
             \/ op'[x] \notin {"idle", "waiting"}
      BY Zenon
    <3>3. reqs' = Keep(reqs, Execs \ {e})
      BY Zenon
    <3> QED
      BY <2>3, <3>1, <3>2, <3>3, RemovalKeepsQueueInv, Zenon
  <2>5. QueueType' /\ WriterType' /\ ReaderType' /\ ConnType'
    <3>1. QueueType'
      BY Zenon DEF QueueType
    <3>2. WriterType' /\ ReaderType' /\ ConnType'
      BY SameTypes, Zenon
    <3> QED
      BY <3>1, <3>2, Zenon
  <2>6. WriterInv'
    BY Zenon DEF WriterInv, NoLostWakeup, waiting
  <2> QED
    BY <1>4, <2>4, <2>5, <2>6, Zenon DEF Inv, TypeOK
<1>6. CASE e \notin waiting
  <2> cancel_run_and_wake
    BY <1>6, Zenon
  <2>   /\ QueueInv' /\ OrderKept /\ QueueType'
        /\ open' \in BOOLEAN /\ cancel_run_called' \in BOOLEAN /\ receiver' \in BOOLEAN
        /\ open' => cancel_run_called /\ UNCHANGED <<open, reqs, status>>
    BY CancelRunKeepsQueueInv, Zenon DEF QueueType, cancel_run_and_wake
  <2>3. WriterType' /\ ReaderType'
    BY Zenon DEF WriterType, ReaderType, cancel_run_and_wake, timer_cancelled, send_cancelled
  <2>4. ConnType'
    BY Zenon DEF ConnType
  <2>5. WriterInv'
    BY Zenon DEF WriterInv, NoLostWakeup, waiting, cancel_run_and_wake, timer_cancelled
  <2> QED
    BY <1>4, <2>3, <2>4, <2>5, Zenon DEF Inv, TypeOK
<1> QED
  BY <1>5, <1>6, Zenon

\* cancel(operation::exec) and cancel(operation::all).
LEMMA CancelExecSteps ==
  ASSUME Inv, user_cancel_exec \/ user_cancel_all
  PROVE  Inv' /\ OrderKept
<1> USE DEF exec_vars, queue_vars, writer_vars, reader_vars, conn_vars, chan_vars, server_vars
<1>   /\ ExecType /\ QueueType /\ WriterType /\ ReaderType /\ ConnType /\ ServerType
      /\ QueueInv /\ WriterInv
  BY Zenon DEF Inv, TypeOK
<1>2. NoneStarts
  BY Zenon DEF user_cancel_exec, user_cancel_all, NoneStarts
<1>3. ASSUME cancel_unwritten_requests
      PROVE  /\ QueueInv' /\ OrderKept /\ QueueType' /\ UNCHANGED status
             /\ Elements(reqs') \subseteq Elements(reqs)
  <2> DEFINE S == Elements(reqs) \cap waiting
  <2>1. S \in SUBSET Elements(reqs) /\ stop_requests(S, {}) /\ UNCHANGED status
    BY <1>3, Zenon DEF cancel_unwritten_requests
  <2> HIDE DEF S
  <2>2. /\ QueueInv' /\ OrderKept /\ reqs' \in Seq(Execs)
        /\ notified' \subseteq Execs /\ stopped' \subseteq Execs
        /\ Elements(reqs') = Elements(reqs) \ S
    BY <1>2, <2>1, StopKeepsQueueInv, Zenon
  <2> QED
    BY <2>1, <2>2, Zenon DEF QueueType
<1>4. CASE user_cancel_exec
  <2>1. /\ QueueInv' /\ OrderKept /\ QueueType' /\ UNCHANGED status
        /\ Elements(reqs') \subseteq Elements(reqs)
    BY <1>3, <1>4, Zenon DEF user_cancel_exec
  <2>2. ExecType' /\ WriterType' /\ ReaderType' /\ ConnType' /\ ServerType'
    BY <1>4, SameTypes, Zenon DEF user_cancel_exec
  <2>3. WriterInv'
    BY <1>4, <2>1, Zenon DEF user_cancel_exec, WriterInv, NoLostWakeup, waiting
  <2> QED
    BY <2>1, <2>2, <2>3, Zenon DEF Inv, TypeOK
<1>5. CASE user_cancel_all
  <2> USE DEF user_cancel_all
  <2>3. ExecType' /\ ReaderType' /\ ConnType' /\ ServerType'
    <3>1. ExecType' /\ ServerType'
      BY <1>5, SameTypes, Zenon
    <3>2. ReaderType'
      BY <1>5, Zenon DEF ReaderType, send_cancelled
    <3>3. ConnType'
      BY <1>5, Zenon DEF ConnType
    <3> QED
      BY <3>1, <3>2, <3>3, Zenon
  <2>1. CASE cancel_run_called
    <3>1. /\ QueueInv' /\ OrderKept /\ QueueType' /\ UNCHANGED status
          /\ Elements(reqs') \subseteq Elements(reqs)
      BY <1>3, <1>5, <2>1, Zenon
    <3>2. WriterInv'
      BY <1>5, <2>1, <3>1, Zenon DEF WriterInv, NoLostWakeup, waiting
    <3>3. WriterType'
      BY <1>5, <2>1, Zenon DEF WriterType
    <3> QED
      BY <2>3, <3>1, <3>2, <3>3, Zenon DEF Inv, TypeOK
  <2>2. CASE ~cancel_run_called
    <3>1. /\ stop_requests(Elements(reqs), {})
          /\ status' = [e \in Execs |-> IF e \in Elements(reqs) \ lost
                                        THEN "waiting" ELSE status[e]]
          /\ wr' = timer_cancelled
      BY <1>5, <2>2, Zenon
    <3>2. lost \subseteq Elements(reqs)
      BY Zenon DEF lost
    <3>3. /\ QueueInv' /\ OrderKept
          /\ reqs' \in Seq(Execs) /\ notified' \subseteq Execs /\ stopped' \subseteq Execs
          /\ status' \in [Execs -> {"waiting", "staged", "written"}]
      BY <1>2, <3>1, <3>2, LossKeepsQueueInv, Zenon
    <3>4. WriterInv' /\ WriterType'
      BY <1>5, <2>2, <3>1, Zenon DEF WriterInv, NoLostWakeup, timer_cancelled, WriterType
    <3> QED
      BY <2>3, <3>3, <3>4, Zenon DEF Inv, TypeOK, QueueType
  <2> QED
    BY <2>1, <2>2, Zenon
<1> QED
  BY <1>4, <1>5, Zenon

-------------------------------------------------------------------------------
(* writer_op.                                                                *)

\* The transport takes a part of the write buffer.
LEMMA WriteSomeStep ==
  ASSUME Inv, write_some
  PROVE  Inv' /\ OrderKept
<1> USE DEF exec_vars, queue_vars, writer_vars, reader_vars, conn_vars, chan_vars, server_vars
<1>t. /\ ExecType /\ QueueType /\ WriterType /\ ReaderType /\ ConnType /\ ServerType
      /\ QueueInv /\ WriterInv
  BY Zenon DEF Inv, TypeOK
<1> DEFINE e == write_buffer[handed + 1]
<1>e. /\ handed' = handed + 1 /\ handed < Len(write_buffer)
      /\ sent' = [sent EXCEPT ![e] = @ + 1]
      /\ commands' = commands \/ commands' = Append(commands, e)
      /\ UNCHANGED <<wr, wr_cancelled, write_buffer>>
  BY Zenon DEF write_some
<1>f. handed \in 0 .. Len(write_buffer) /\ Len(write_buffer) \in Nat /\ write_buffer \in Seq(Execs)
  BY <1>t DEF WriterType
<1>g. e \in Execs
  BY <1>e, <1>f
<1> HIDE DEF e
<1>1. WriterType'
  <2>1. sent' \in [Execs -> Nat]
    BY <1>t, <1>e, <1>g DEF WriterType
  <2>2. handed' \in 0 .. Len(write_buffer')
    BY <1>e, <1>f
  <2> QED
    BY <1>t, <1>e, <2>1, <2>2, Zenon DEF WriterType
<1>c. commands' \in Seq(Execs)
  BY <1>t, <1>e, <1>g, SMTT(30) DEF ServerType
<1> USE DEF write_some
<1>2. ServerType'
  <2>1. peer' \in BOOLEAN
    BY <1>t, Zenon DEF ServerType
  <2>2. answered' \in Nat
    BY <1>t, Zenon DEF ServerType
  <2>3. replies' \in Seq(Messages)
    BY <1>t, Zenon DEF ServerType, Messages
  <2>4. pushes' \in 0 .. MaxPushes
    BY <1>t, Zenon DEF ServerType
  <2> QED
    BY <1>c, <2>1, <2>2, <2>3, <2>4, Zenon DEF ServerType
<1>3. ExecType' /\ QueueType' /\ ReaderType' /\ ConnType'
  BY <1>t, SameTypes, Zenon
<1>4. NoneStarts /\ notified \subseteq notified' /\ UNCHANGED <<reqs, status, stopped>>
  BY <1>t, Zenon DEF ExecType, NoneStarts
<1>5. WriterInv'
  BY <1>t, Zenon DEF WriterInv, NoLostWakeup, waiting
<1> QED
  BY <1>t, <1>1, <1>2, <1>3, <1>4, <1>5, SameQueue, Zenon DEF Inv, TypeOK

\* async_write has handed over the whole write buffer.
LEMMA AsyncWriteDoneStep ==
  ASSUME Inv, async_write_done
  PROVE  Inv' /\ OrderKept
<1> USE DEF exec_vars, queue_vars, writer_vars, reader_vars, conn_vars, chan_vars, server_vars
<1>   /\ ExecType /\ QueueType /\ WriterType /\ ReaderType /\ ConnType /\ ServerType
      /\ QueueInv /\ WriterInv
  BY Zenon DEF Inv, TypeOK
<1> USE DEF async_write_done
<1>1. WriterType'
  BY Zenon DEF WriterType
<1>2. ExecType' /\ QueueType' /\ ReaderType' /\ ConnType' /\ ServerType'
  BY SameTypes, Zenon
<1>3. NoneStarts /\ notified \subseteq notified' /\ UNCHANGED <<reqs, status, stopped>>
  BY Zenon DEF ExecType, NoneStarts
<1>4. WriterInv'
  BY Zenon DEF WriterInv, NoLostWakeup, waiting
<1> QED
  BY <1>1, <1>2, <1>3, <1>4, SameQueue, Zenon DEF Inv, TypeOK

\* writer_op finds the socket closed or its wait cancelled, and ends.
LEMMA WriterOpCancelledStep ==
  ASSUME Inv, writer_op_cancelled
  PROVE  Inv' /\ OrderKept
<1> USE DEF exec_vars, queue_vars, writer_vars, reader_vars, conn_vars, chan_vars, server_vars
<1>   /\ ExecType /\ QueueType /\ WriterType /\ ReaderType /\ ConnType /\ ServerType
      /\ QueueInv /\ WriterInv
  BY Zenon DEF Inv, TypeOK
<1> USE DEF writer_op_cancelled
<1>1. WriterType'
  BY Zenon DEF WriterType, writer_exits
<1>2. ReaderType'
  BY Zenon DEF ReaderType, writer_exits, send_cancelled
<1>3. ExecType' /\ QueueType' /\ ConnType' /\ ServerType'
  BY SameTypes, Zenon
<1>4. NoneStarts /\ notified \subseteq notified' /\ UNCHANGED <<reqs, status, stopped>>
  BY Zenon DEF ExecType, NoneStarts
<1>5. WriterInv'
  BY Zenon DEF WriterInv, NoLostWakeup, waiting, writer_exits
<1> QED
  BY <1>1, <1>2, <1>3, <1>4, <1>5, SameQueue, Zenon DEF Inv, TypeOK

\* A failed write ends the run.
LEMMA WriterOpErrorStep ==
  ASSUME Inv, writer_op_error
  PROVE  Inv' /\ OrderKept
<1> USE DEF exec_vars, queue_vars, writer_vars, reader_vars, conn_vars, chan_vars, server_vars
<1>   /\ ExecType /\ QueueType /\ WriterType /\ ReaderType /\ ConnType /\ ServerType
      /\ QueueInv /\ WriterInv
  BY Zenon DEF Inv, TypeOK
<1> USE DEF writer_op_error
<1>1. NoneStarts
  BY Zenon DEF ExecType, NoneStarts
<1>   /\ QueueInv' /\ OrderKept /\ QueueType'
      /\ open' \in BOOLEAN /\ cancel_run_called' \in BOOLEAN /\ receiver' \in BOOLEAN
      /\ open' => cancel_run_called /\ UNCHANGED <<open, reqs, status>>
  BY <1>1, CancelRunKeepsQueueInv, Zenon DEF QueueType
<1>3. WriterType' /\ ReaderType'
  <2>1. WriterType'
    BY Zenon DEF WriterType, writer_exits, send_cancelled
  <2>2. ReaderType'
    BY Zenon DEF ReaderType, writer_exits, send_cancelled
  <2> QED
    BY <2>1, <2>2, Zenon
<1>4. ExecType' /\ ServerType'
  BY SameTypes, Zenon
<1>5. ConnType'
  BY Zenon DEF ConnType
<1>6. WriterInv'
  BY Zenon DEF WriterInv, NoLostWakeup, waiting, writer_exits, send_cancelled
<1> QED
  BY <1>3, <1>4, <1>5, <1>6, Zenon DEF Inv, TypeOK

\* The writer is woken, and run_op starts: both stage what is waiting.
LEMMA StagingSteps ==
  ASSUME Inv, writer_op_woken \/ run_op_starts
  PROVE  Inv' /\ OrderKept
<1> USE DEF exec_vars, queue_vars, writer_vars, reader_vars, conn_vars, chan_vars, server_vars
<1>   /\ ExecType /\ QueueType /\ WriterType /\ ReaderType /\ ConnType /\ ServerType
      /\ QueueInv /\ WriterInv
  BY Zenon DEF Inv, TypeOK
<1>2. NoneStarts
  BY Zenon DEF writer_op_woken, run_op_starts, NoneStarts
<1>3. ASSUME coalesce_requests(reqs, status, <<>>), UNCHANGED <<notified, stopped>>
      PROVE  /\ QueueInv' /\ OrderKept /\ QueueType'
             /\ \A e \in Elements(reqs') : status'[e] # "waiting"
             /\ write_buffer' \in Seq(Execs) /\ handed' \in 0 .. Len(write_buffer')
             /\ wr' \in {"writing", "timer"}
             /\ wr' = "timer" => write_buffer' = <<>>
  <2>1. <<>> \in Seq(Execs)
    OBVIOUS
  <2>2. /\ QueueInv' /\ OrderKept /\ reqs' = reqs
        /\ status' \in [Execs -> {"waiting", "staged", "written"}]
        /\ \A e \in Elements(reqs') : status'[e] # "waiting"
    BY <1>2, <1>3, <2>1, StagingKeepsQueueInv, Zenon
  <2>3. reqs \in Seq(Execs) /\ status \in [Execs -> {"waiting", "staged", "written"}]
        /\ Ordered(reqs, status)
    BY Zenon DEF QueueType, QueueInv, QueueOrder
  <2>4. /\ write_buffer' \in Seq(Execs) /\ handed' \in 0 .. Len(write_buffer')
        /\ wr' \in {"writing", "timer"}
        /\ wr' = "timer" => write_buffer' = <<>>
    BY <1>3, <2>1, <2>3, CoalesceStages, Zenon
  <2> QED
    BY <1>3, <2>2, <2>4, Zenon DEF QueueType
<1>4. CASE writer_op_woken
  <2> USE DEF writer_op_woken
  <2>1. write_buffer = <<>>
    BY <1>4, Zenon DEF WriterInv
  <2>   /\ QueueInv' /\ OrderKept /\ QueueType'
        /\ \A e \in Elements(reqs') : status'[e] # "waiting"
        /\ write_buffer' \in Seq(Execs) /\ handed' \in 0 .. Len(write_buffer')
        /\ wr' \in {"writing", "timer"}
        /\ wr' = "timer" => write_buffer' = <<>>
    BY <1>3, <1>4, <2>1, Zenon
  <2>3. WriterType'
    BY <1>4, Zenon DEF WriterType
  <2>4. ExecType' /\ ReaderType' /\ ConnType' /\ ServerType'
    BY <1>4 DEF ExecType, ReaderType, ConnType, ServerType
  <2>5. WriterInv'
    BY <1>4, Zenon DEF WriterInv, NoLostWakeup, waiting
  <2> QED
    BY <2>3, <2>4, <2>5, Zenon DEF Inv, TypeOK
<1>5. CASE run_op_starts
  <2> USE DEF run_op_starts, reset
  <2>   /\ QueueInv' /\ OrderKept /\ QueueType'
        /\ \A e \in Elements(reqs') : status'[e] # "waiting"
        /\ write_buffer' \in Seq(Execs) /\ handed' \in 0 .. Len(write_buffer')
        /\ wr' \in {"writing", "timer"}
        /\ wr' = "timer" => write_buffer' = <<>>
    BY <1>3, <1>5, Zenon
  <2>3. WriterType' /\ ReaderType'
    <3>1. WriterType'
      BY <1>5, Zenon DEF WriterType
    <3>2. read_buffer' \in Seq(Messages) /\ rd' = "reading"
      BY <1>5
    <3>3. partial' \in BOOLEAN /\ on_push' \in BOOLEAN /\ rd_cancelled' \in BOOLEAN
      BY <1>5, Zenon DEF ReaderType
    <3> QED
      BY <3>1, <3>2, <3>3, Zenon DEF ReaderType
  <2>4. ExecType' /\ ConnType' /\ ServerType'
    BY <1>5, Zenon DEF ExecType, ConnType, ServerType
  <2>5. WriterInv'
    BY <1>5, Zenon DEF WriterInv, NoLostWakeup, waiting
  <2> QED
    BY <2>3, <2>4, <2>5, Zenon DEF Inv, TypeOK
<1> QED
  BY <1>4, <1>5, Zenon

\* on_write completes the staged requests without a response, marks the other
\* staged ones as written, and the writer goes on or ends.
LEMMA OnWriteStep ==
  ASSUME Inv, writer_op_on_write
  PROVE  Inv' /\ OrderKept
<1> USE DEF exec_vars, queue_vars, writer_vars, reader_vars, conn_vars, chan_vars, server_vars
<1>   /\ ExecType /\ QueueType /\ WriterType /\ ReaderType /\ ConnType /\ ServerType
      /\ QueueInv /\ WriterInv
  BY Zenon DEF Inv, TypeOK
<1> DEFINE q  == Keep(reqs, Execs \ push_requests)
           st == [e \in Execs |-> IF e \in Elements(q) /\ status[e] = "staged"
                                  THEN "written" ELSE status[e]]
<1>   /\ notified' = notified \cup push_requests
      /\ \/ open /\ coalesce_requests(q, st, <<>>) /\ UNCHANGED <<rd, rd_cancelled>>
         \/ /\ ~open /\ reqs' = q /\ status' = st
            /\ write_buffer' = <<>> /\ handed' = 0 /\ writer_exits
      /\ UNCHANGED <<exec_vars, stopped, wr_cancelled, sent, read_buffer, partial,
                     on_push, conn_vars, chan_vars, server_vars>>
  BY Zenon DEF writer_op_on_write, on_write_status
<1>3. NoneStarts
  BY Zenon DEF NoneStarts
<1>   push_requests \subseteq Elements(reqs) /\ Elements(reqs) \subseteq Execs
      /\ \A e \in push_requests : status[e] = "staged"
  BY QueueElements, Zenon DEF push_requests, QueueType
<1>   /\ q \in Seq(Execs) /\ Elements(q) = Elements(reqs) \ push_requests
      /\ \A e, f : Before(q, e, f) => Before(reqs, e, f)
  <2>1. reqs \in Seq(Execs)
    BY Zenon DEF QueueType
  <2>2. q \in Seq(Execs) /\ Elements(q) = Elements(reqs) \cap (Execs \ push_requests)
    BY <2>1, KeepElements, Zenon
  <2>3. \A e, f : Before(q, e, f) => Before(reqs, e, f)
    BY <2>1, KeepBefore, Zenon
  <2> HIDE DEF q
  <2> QED
    BY <2>2, <2>3, Zenon
<1>6. \A e, f \in Execs : Before(q, e, f) => e \in Elements(q) /\ f \in Elements(q)
  <2> HIDE DEF q
  <2> QED
    BY Zenon DEF Before, Elements
<1>7. q = Keep(reqs, Execs \ push_requests)
  BY Zenon
<1> HIDE DEF q
<1> st \in [Execs -> {"waiting", "staged", "written"}]
  BY Zenon DEF QueueType
<1>9. Ordered(q, st)
  BY <1>6, Zenon DEF QueueInv, QueueOrder, Ordered, QueueType
<1>10. \A e \in Execs : /\ st[e] # status[e] => e \in Elements(q)
                        /\ st[e] = "waiting" <=> status[e] = "waiting"
  BY Zenon
<1> HIDE DEF st
<1>11. <<>> \in Seq(Execs)
  OBVIOUS
<1>    /\ reqs' = q /\ Ordered(q, status')
       /\ status' \in [Execs -> {"waiting", "staged", "written"}]
       /\ \A e \in Execs : status'[e] # status[e] => e \in Elements(q)
       /\ write_buffer' \in Seq(Execs) /\ handed' \in 0 .. Len(write_buffer')
       /\ wr' \in {"writing", "timer", "exited"}
       /\ wr' = "timer" => /\ write_buffer' = <<>>
                           /\ \A e \in Elements(q) : status'[e] # "waiting"
  <2>1. CASE open
    <3>1. coalesce_requests(q, st, <<>>)
      BY <2>1, Zenon
    <3>   /\ reqs' = q /\ Ordered(q, status')
          /\ status' = [e \in Execs |-> IF e \in Elements(q) /\ st[e] = "waiting"
                                        THEN "staged" ELSE st[e]]
          /\ write_buffer' \in Seq(Execs) /\ handed' \in 0 .. Len(write_buffer')
          /\ wr' \in {"writing", "timer"}
          /\ wr' = "timer" => write_buffer' = <<>>
      BY <1>9, <1>11, <3>1, CoalesceStages, Zenon
    <3>3. \A e \in Elements(q) : e \in Execs /\ status'[e] # "waiting"
      BY Zenon
    <3>4. /\ status' \in [Execs -> {"waiting", "staged", "written"}]
          /\ \A e \in Execs : status'[e] # status[e] => e \in Elements(q)
      BY <1>10, Zenon
    <3> QED
      BY <3>3, <3>4, Zenon
  <2>2. CASE ~open
    <3>   /\ reqs' = q /\ status' = st
          /\ write_buffer' = <<>> /\ handed' = 0 /\ wr' = "exited"
      BY <2>2, Zenon DEF writer_exits
    <3>2. write_buffer' \in Seq(Execs) /\ handed' \in 0 .. Len(write_buffer')
      BY <1>11
    <3>3. Ordered(q, status')
      BY <1>9, Zenon
    <3>4. /\ status' \in [Execs -> {"waiting", "staged", "written"}]
          /\ \A e \in Execs : status'[e] # status[e] => e \in Elements(q)
      BY <1>10, Zenon
    <3> QED
      BY <3>2, <3>3, <3>4, Zenon
  <2> QED
    BY <2>1, <2>2, Zenon
<1>13. QueueInv' /\ OrderKept
  <2>1. /\ reqs' = Keep(reqs, Execs \ push_requests)
        /\ Ordered(reqs', status')
        /\ \A e \in Execs : status'[e] # status[e] => e \in Elements(reqs')
    BY <1>7, Zenon
  <2>2. /\ notified \subseteq notified' /\ stopped \subseteq stopped'
        /\ stopped' \subseteq stopped \cup (push_requests \cap Elements(reqs))
        /\ \A e \in push_requests : e \in notified' /\ status[e] # "waiting"
    BY Zenon
  <2> QED
    BY <1>3, <2>1, <2>2, RemovalKeepsQueueInv, Zenon
<1>14. QueueType' /\ WriterType'
  BY Zenon DEF QueueType, WriterType
<1>15. ReaderType'
  BY Zenon DEF ReaderType, writer_exits, send_cancelled
<1>16. ExecType' /\ ConnType' /\ ServerType'
  BY Zenon DEF ExecType, ConnType, ServerType
<1>17. WriterInv'
  <2>1. run = "up"
    BY Zenon DEF WriterInv, writer_op_on_write
  <2> QED
    BY <2>1, Zenon DEF WriterInv, NoLostWakeup, waiting
<1> QED
  BY <1>13, <1>14, <1>15, <1>16, <1>17, Zenon DEF Inv, TypeOK

-------------------------------------------------------------------------------
(* reader_op and receive_channel_.                                           *)

\* The read buffer grows by what has arrived.
LEMMA AppendSomeStep ==
  ASSUME Inv, append_some
  PROVE  Inv' /\ OrderKept
<1> USE DEF exec_vars, queue_vars, writer_vars, reader_vars, conn_vars, chan_vars, server_vars
<1>   /\ ExecType /\ QueueType /\ WriterType /\ ReaderType /\ ConnType /\ ServerType
      /\ QueueInv /\ WriterInv
  BY Zenon DEF Inv, TypeOK
<1> USE DEF append_some
<1>1. ReaderType'
  <2>1. rd' \in {"off", "reading", "read", "read_err", "parsing",
             "sending", "sent", "send_err", "exited"}
    BY Zenon DEF ReaderType
  <2>2. rd_cancelled' \in BOOLEAN /\ partial' \in BOOLEAN /\ on_push' \in BOOLEAN
    BY Zenon DEF ReaderType
  <2>3. read_buffer' \in Seq(Messages)
    <3>1. PICK n \in 0 .. Len(replies) : read_buffer' = read_buffer \o SubSeq(replies, 1, n)
      BY Zenon
    <3> replies \in Seq(Messages) /\ read_buffer \in Seq(Messages)
      BY Zenon DEF ReaderType, ServerType
    <3>3. SubSeq(replies, 1, n) \in Seq(Messages)
      <4>1. \A i \in 1 .. n : replies[i] \in Messages
        OBVIOUS
      <4> QED
        BY <4>1
    <3>4. read_buffer \o SubSeq(replies, 1, n) \in Seq(Messages)
      BY <3>3
    <3> QED
      BY <3>1, <3>4, Zenon
  <2> QED
    BY <2>1, <2>2, <2>3, Zenon DEF ReaderType
<1>2. ServerType'
  BY DEF ServerType
<1>3. ExecType' /\ QueueType' /\ WriterType' /\ ConnType'
  BY SameTypes, Zenon
<1>4. NoneStarts /\ notified \subseteq notified' /\ UNCHANGED <<reqs, status, stopped>>
  BY Zenon DEF ExecType, NoneStarts
<1>5. WriterInv'
  BY Zenon DEF WriterInv, NoLostWakeup, waiting
<1> QED
  BY <1>1, <1>2, <1>3, <1>4, <1>5, SameQueue, Zenon DEF Inv, TypeOK

\* The read fails.
LEMMA AppendSomeFailsStep ==
  ASSUME Inv, append_some_fails
  PROVE  Inv' /\ OrderKept
<1> USE DEF exec_vars, queue_vars, writer_vars, reader_vars, conn_vars, chan_vars, server_vars
<1>   /\ ExecType /\ QueueType /\ WriterType /\ ReaderType /\ ConnType /\ ServerType
      /\ QueueInv /\ WriterInv
  BY Zenon DEF Inv, TypeOK
<1> USE DEF append_some_fails
<1>1. ReaderType'
  BY Zenon DEF ReaderType
<1>2. ExecType' /\ QueueType' /\ WriterType' /\ ConnType' /\ ServerType'
  BY SameTypes, Zenon
<1>3. NoneStarts /\ notified \subseteq notified' /\ UNCHANGED <<reqs, status, stopped>>
  BY Zenon DEF ExecType, NoneStarts
<1>4. WriterInv'
  BY Zenon DEF WriterInv, NoLostWakeup, waiting
<1> QED
  BY <1>1, <1>2, <1>3, <1>4, SameQueue, Zenon DEF Inv, TypeOK

\* reader_op goes on after the channel has taken a push, or after a read.
LEMMA ReaderOpResumesStep ==
  ASSUME Inv, reader_op_resumes
  PROVE  Inv' /\ OrderKept
<1> USE DEF exec_vars, queue_vars, writer_vars, reader_vars, conn_vars, chan_vars, server_vars
<1>   /\ ExecType /\ QueueType /\ WriterType /\ ReaderType /\ ConnType /\ ServerType
      /\ QueueInv /\ WriterInv
  BY Zenon DEF Inv, TypeOK
<1> USE DEF reader_op_resumes
<1>1. ReaderType'
  BY Zenon DEF ReaderType, reader_exits, timer_cancelled
<1>2. WriterType'
  BY Zenon DEF WriterType, reader_exits, timer_cancelled
<1>3. ExecType' /\ QueueType' /\ ConnType' /\ ServerType'
  BY SameTypes, Zenon
<1>4. NoneStarts /\ notified \subseteq notified' /\ UNCHANGED <<reqs, status, stopped>>
  BY Zenon DEF ExecType, NoneStarts
<1>5. WriterInv'
  BY Zenon DEF WriterInv, NoLostWakeup, waiting, reader_exits, timer_cancelled
<1> QED
  BY <1>1, <1>2, <1>3, <1>4, <1>5, SameQueue, Zenon DEF Inv, TypeOK

\* A failed read ends the run.
LEMMA ReaderOpErrorStep ==
  ASSUME Inv, reader_op_error
  PROVE  Inv' /\ OrderKept
<1> USE DEF exec_vars, queue_vars, writer_vars, reader_vars, conn_vars, chan_vars, server_vars
<1>   /\ ExecType /\ QueueType /\ WriterType /\ ReaderType /\ ConnType /\ ServerType
      /\ QueueInv /\ WriterInv
  BY Zenon DEF Inv, TypeOK
<1> USE DEF reader_op_error
<1>1. NoneStarts
  BY Zenon DEF ExecType, NoneStarts
<1>   /\ QueueInv' /\ OrderKept /\ QueueType'
      /\ open' \in BOOLEAN /\ cancel_run_called' \in BOOLEAN /\ receiver' \in BOOLEAN
      /\ open' => cancel_run_called /\ UNCHANGED <<open, reqs, status>>
  BY <1>1, CancelRunKeepsQueueInv, Zenon DEF QueueType
<1>3. WriterType' /\ ReaderType'
  <2>1. WriterType'
    BY Zenon DEF WriterType, reader_exits, timer_cancelled
  <2>2. ReaderType'
    BY Zenon DEF ReaderType, reader_exits, timer_cancelled
  <2> QED
    BY <2>1, <2>2, Zenon
<1>4. ExecType' /\ ServerType'
  BY SameTypes, Zenon
<1>5. ConnType'
  BY Zenon DEF ConnType
<1>6. WriterInv'
  BY Zenon DEF WriterInv, NoLostWakeup, waiting, reader_exits, timer_cancelled
<1> QED
  BY <1>3, <1>4, <1>5, <1>6, Zenon DEF Inv, TypeOK

\* on_read needs more bytes than the buffer holds.
LEMMA OnReadNeedsMoreStep ==
  ASSUME Inv, on_read_needs_more
  PROVE  Inv' /\ OrderKept
<1> USE DEF exec_vars, queue_vars, writer_vars, reader_vars, conn_vars, chan_vars, server_vars
<1>   /\ ExecType /\ QueueType /\ WriterType /\ ReaderType /\ ConnType /\ ServerType
      /\ QueueInv /\ WriterInv
  BY Zenon DEF Inv, TypeOK
<1> USE DEF on_read_needs_more
<1>1. ReaderType'
  BY Zenon DEF ReaderType
<1>2. ExecType' /\ QueueType' /\ WriterType' /\ ConnType' /\ ServerType'
  BY SameTypes, Zenon
<1>3. NoneStarts /\ notified \subseteq notified' /\ UNCHANGED <<reqs, status, stopped>>
  BY Zenon DEF ExecType, NoneStarts
<1>4. WriterInv'
  BY Zenon DEF WriterInv, NoLostWakeup, waiting
<1> QED
  BY <1>1, <1>2, <1>3, <1>4, SameQueue, Zenon DEF Inv, TypeOK

\* on_read has parsed a push and offers it to the channel.
LEMMA OnReadPushStep ==
  ASSUME Inv, on_read_push
  PROVE  Inv' /\ OrderKept
<1> USE DEF exec_vars, queue_vars, writer_vars, reader_vars, conn_vars, chan_vars, server_vars
<1>   /\ ExecType /\ QueueType /\ WriterType /\ ReaderType /\ ConnType /\ ServerType
      /\ QueueInv /\ WriterInv
  BY Zenon DEF Inv, TypeOK
<1> USE DEF on_read_push
<1>1. ReaderType'
  <2>1. rd' \in {"off", "reading", "read", "read_err", "parsing",
             "sending", "sent", "send_err", "exited"}
    BY Zenon DEF ReaderType, parsing_message
  <2>2. rd_cancelled' \in BOOLEAN /\ partial' \in BOOLEAN /\ on_push' \in BOOLEAN
    BY Zenon DEF ReaderType, parsing_message
  <2>3. read_buffer' \in Seq(Messages)
    BY DEF ReaderType, parsing_message, Messages
  <2> QED
    BY <2>1, <2>2, <2>3, Zenon DEF ReaderType
<1>2. ConnType'
  <2>1. open' \in BOOLEAN /\ cancel_run_called' \in BOOLEAN /\ receiver' \in BOOLEAN
    BY Zenon DEF ConnType
  <2>2. run' \in {"off", "connecting", "up"}
    BY Zenon DEF ConnType
  <2>3. runs' \in 0 .. MaxRuns
    BY Zenon DEF ConnType
  <2>4. channel' \in 0 .. Capacity
    BY ConnectionAssumption DEF ConnType
  <2> QED
    BY <2>1, <2>2, <2>3, <2>4, Zenon DEF ConnType
<1>3. ExecType' /\ QueueType' /\ WriterType' /\ ServerType'
  BY SameTypes, Zenon
<1>4. NoneStarts /\ notified \subseteq notified' /\ UNCHANGED <<reqs, status, stopped>>
  BY Zenon DEF ExecType, NoneStarts
<1>5. WriterInv'
  BY Zenon DEF WriterInv, NoLostWakeup, waiting
<1> QED
  BY <1>1, <1>2, <1>3, <1>4, <1>5, SameQueue, Zenon DEF Inv, TypeOK

\* A response has been read; with the last one its request leaves the queue.
LEMMA OnReadRespStep ==
  ASSUME Inv, on_read_resp
  PROVE  Inv' /\ OrderKept
<1> USE DEF exec_vars, queue_vars, writer_vars, reader_vars, conn_vars, chan_vars, server_vars
<1>   /\ ExecType /\ QueueType /\ WriterType /\ ReaderType /\ ConnType /\ ServerType
      /\ QueueInv /\ WriterInv
  BY Zenon DEF Inv, TypeOK
<1> USE DEF on_read_resp
<1> DEFINE h == Head(reqs)
<1>   reqs # <<>> /\ reqs \in Seq(Execs) /\ h \in Execs
      /\ status[h] # "waiting" /\ expected_responses[h] # 0
  BY DEF QueueType, is_next_push, is_waiting_response, waiting
<1>3. NoneStarts
  BY Zenon DEF NoneStarts
<1>4. ExecType'
  BY DEF ExecType
<1>5. ReaderType'
  <2>1. read_buffer' \in Seq(Messages)
    BY DEF ReaderType, parsing_message
  <2> QED
    BY <2>1, Zenon DEF ReaderType
<1>6. WriterType' /\ ConnType' /\ ServerType'
  BY Zenon DEF WriterType, ConnType, ServerType
<1>7. CASE expected_responses[h] = 1
  <2>   /\ reqs' = Tail(reqs) /\ notified' = notified \cup {h}
        /\ UNCHANGED <<op, status, stopped>>
    BY <1>7, Zenon
  <2> HIDE DEF h
  <2>   /\ reqs' \in Seq(Execs)
        /\ Elements(reqs) = Elements(reqs') \cup {h}
        /\ \A x, y : Before(reqs', x, y) => Before(reqs, x, y)
        /\ \A x, y : Before(reqs, x, y) => Before(reqs', x, y) \/ x = h
        /\ \A x \in Elements(reqs') : Before(reqs, h, x)
    <3>1. reqs' = Tail(reqs) /\ h = Head(reqs)
      BY Zenon DEF h
    <3> QED
      BY <3>1, TailBefore
  <2>3. h \notin Elements(reqs')
    BY Zenon DEF QueueInv, QueueOrder, Ordered
  <2>4. OrderKept
    BY <2>3, Zenon DEF OrderKept
  <2>5. QueueOrder'
    BY Zenon DEF QueueInv, QueueOrder, Ordered
  <2>6. SuspendedAreQueued' /\ WaitingAreQueued' /\ IdleIsFresh'
    BY Zenon DEF QueueInv, SuspendedAreQueued, WaitingAreQueued, IdleIsFresh
  <2>7. QueueType'
    BY Zenon DEF QueueType
  <2>8. WriterInv'
    BY Zenon DEF WriterInv, NoLostWakeup, waiting
  <2> QED
    BY <1>4, <1>5, <1>6, <2>4, <2>5, <2>6, <2>7, <2>8, Zenon DEF Inv, TypeOK, QueueInv
<1>8. CASE expected_responses[h] # 1
  <2>1. UNCHANGED <<reqs, notified, status, stopped>>
    BY <1>8, Zenon
  <2>2. QueueInv' /\ OrderKept
    BY <1>3, <2>1, SameQueue, Zenon
  <2>3. QueueType' /\ WriterInv'
    BY <2>1, Zenon DEF QueueType, WriterInv, NoLostWakeup, waiting
  <2> QED
    BY <1>4, <1>5, <1>6, <2>2, <2>3, Zenon DEF Inv, TypeOK
<1> QED
  BY <1>7, <1>8, Zenon

\* A response the adapter rejects ends the run.
LEMMA OnReadErrorStep ==
  ASSUME Inv, on_read_error
  PROVE  Inv' /\ OrderKept
<1> USE DEF exec_vars, queue_vars, writer_vars, reader_vars, conn_vars, chan_vars, server_vars
<1>   /\ ExecType /\ QueueType /\ WriterType /\ ReaderType /\ ConnType /\ ServerType
      /\ QueueInv /\ WriterInv
  BY Zenon DEF Inv, TypeOK
<1> USE DEF on_read_error
<1> DEFINE rejected == IF on_push \/ is_next_push THEN {} ELSE {Head(reqs)}
<1>1. NoneStarts
  BY Zenon DEF ExecType, NoneStarts
<1>2. rejected \in SUBSET Execs
  BY DEF QueueType, is_next_push, is_waiting_response
<1>3. cancel_run(rejected) /\ failed' = failed \cup rejected
  BY Zenon
<1> HIDE DEF rejected
<1>   /\ QueueInv' /\ OrderKept /\ QueueType'
      /\ open' \in BOOLEAN /\ cancel_run_called' \in BOOLEAN /\ receiver' \in BOOLEAN
      /\ open' => cancel_run_called /\ UNCHANGED <<open, reqs, status>>
  BY <1>1, <1>2, <1>3, CancelRunKeepsQueueInv, Zenon DEF QueueType
<1>5. WriterType' /\ ReaderType'
  <2>1. (on_push \/ is_next_push) \in BOOLEAN
    BY Zenon DEF ReaderType, is_next_push
  <2> QED
    BY <2>1, Zenon DEF WriterType, ReaderType, reader_exits, timer_cancelled
<1>6. ExecType' /\ ServerType'
  <2>1. ExecType'
    BY <1>2, <1>3, Zenon DEF ExecType
  <2>2. ServerType'
    BY SameTypes, Zenon
  <2> QED
    BY <2>1, <2>2, Zenon
<1>7. ConnType'
  BY Zenon DEF ConnType
<1>8. WriterInv'
  BY Zenon DEF WriterInv, NoLostWakeup, waiting, reader_exits, timer_cancelled
<1> QED
  BY <1>5, <1>6, <1>7, <1>8, Zenon DEF Inv, TypeOK

\* The user takes a push, and a reader waiting for room goes on.
LEMMA ReceiveStep ==
  ASSUME Inv, receive
  PROVE  Inv' /\ OrderKept
<1> USE DEF exec_vars, queue_vars, writer_vars, reader_vars, conn_vars, chan_vars, server_vars
<1>   /\ ExecType /\ QueueType /\ WriterType /\ ReaderType /\ ConnType /\ ServerType
      /\ QueueInv /\ WriterInv
  BY Zenon DEF Inv, TypeOK
<1> USE DEF receive
<1>1. ReaderType'
  BY Zenon DEF ReaderType
<1>2. ConnType'
  <2>1. open' \in BOOLEAN /\ cancel_run_called' \in BOOLEAN /\ receiver' \in BOOLEAN
    BY Zenon DEF ConnType
  <2>2. run' \in {"off", "connecting", "up"}
    BY Zenon DEF ConnType
  <2>3. runs' \in 0 .. MaxRuns
    BY Zenon DEF ConnType
  <2>4. channel' \in 0 .. Capacity
    BY ConnectionAssumption DEF ConnType
  <2> QED
    BY <2>1, <2>2, <2>3, <2>4, Zenon DEF ConnType
<1>3. ExecType' /\ QueueType' /\ WriterType' /\ ServerType'
  BY SameTypes, Zenon
<1>4. NoneStarts /\ notified \subseteq notified' /\ UNCHANGED <<reqs, status, stopped>>
  BY Zenon DEF ExecType, NoneStarts
<1>5. WriterInv'
  BY Zenon DEF WriterInv, NoLostWakeup, waiting
<1> QED
  BY <1>1, <1>2, <1>3, <1>4, <1>5, SameQueue, Zenon DEF Inv, TypeOK

\* async_receive waits on an empty channel.
LEMMA AsyncReceiveWaitsStep ==
  ASSUME Inv, async_receive_waits
  PROVE  Inv' /\ OrderKept
<1> USE DEF exec_vars, queue_vars, writer_vars, reader_vars, conn_vars, chan_vars, server_vars
<1>   /\ ExecType /\ QueueType /\ WriterType /\ ReaderType /\ ConnType /\ ServerType
      /\ QueueInv /\ WriterInv
  BY Zenon DEF Inv, TypeOK
<1> USE DEF async_receive_waits
<1>1. ConnType'
  BY Zenon DEF ConnType
<1>2. ExecType' /\ QueueType' /\ WriterType' /\ ReaderType' /\ ServerType'
  BY SameTypes, Zenon
<1>3. NoneStarts /\ notified \subseteq notified' /\ UNCHANGED <<reqs, status, stopped>>
  BY Zenon DEF ExecType, NoneStarts
<1>4. WriterInv'
  BY Zenon DEF WriterInv, NoLostWakeup, waiting
<1> QED
  BY <1>1, <1>2, <1>3, <1>4, SameQueue, Zenon DEF Inv, TypeOK

\* cancel(operation::receive).
LEMMA UserCancelReceiveStep ==
  ASSUME Inv, user_cancel_receive
  PROVE  Inv' /\ OrderKept
<1> USE DEF exec_vars, queue_vars, writer_vars, reader_vars, conn_vars, chan_vars, server_vars
<1>   /\ ExecType /\ QueueType /\ WriterType /\ ReaderType /\ ConnType /\ ServerType
      /\ QueueInv /\ WriterInv
  BY Zenon DEF Inv, TypeOK
<1> USE DEF user_cancel_receive
<1>1. ReaderType'
  BY Zenon DEF ReaderType, send_cancelled
<1>2. ConnType'
  BY Zenon DEF ConnType
<1>3. ExecType' /\ QueueType' /\ WriterType' /\ ServerType'
  BY SameTypes, Zenon
<1>4. NoneStarts /\ notified \subseteq notified' /\ UNCHANGED <<reqs, status, stopped>>
  BY Zenon DEF ExecType, NoneStarts
<1>5. WriterInv'
  BY Zenon DEF WriterInv, NoLostWakeup, waiting
<1> QED
  BY <1>1, <1>2, <1>3, <1>4, <1>5, SameQueue, Zenon DEF Inv, TypeOK

==============================================================================
