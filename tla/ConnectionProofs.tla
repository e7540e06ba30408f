-------------------------- MODULE ConnectionProofs ---------------------------
(*****************************************************************************)
(* The safety of the request queue of module Connection, for any number of   *)
(* execs, any requests, any number of runs and pushes and any behaviour of   *)
(* the environment: the steps of the run and of the server keep the          *)
(* invariant, and so does every step.                                        *)
(*****************************************************************************)
EXTENDS ConnectionInv

\* A connection has been made, and the run starts.
LEMMA AsyncConnectStep ==
  ASSUME Inv, async_connect
  PROVE  Inv' /\ OrderKept
<1> USE DEF exec_vars, queue_vars, writer_vars, reader_vars, conn_vars, chan_vars, server_vars
<1>   /\ ExecType /\ QueueType /\ WriterType /\ ReaderType /\ ConnType /\ ServerType
      /\ QueueInv /\ WriterInv
  BY Zenon DEF Inv, TypeOK
<1> USE DEF async_connect
<1>1. ConnType'
  <2>1. open' \in BOOLEAN /\ cancel_run_called' \in BOOLEAN /\ receiver' \in BOOLEAN
    BY Zenon DEF ConnType
  <2>2. run' \in {"off", "connecting", "up"}
    BY Zenon DEF ConnType
  <2>3. runs' \in 0 .. MaxRuns
    BY ConnectionAssumption DEF ConnType
  <2>4. channel' \in 0 .. Capacity
    BY Zenon DEF ConnType
  <2> QED
    BY <2>1, <2>2, <2>3, <2>4, Zenon DEF ConnType
<1>2. ServerType'
  BY DEF ServerType
<1>3. ExecType' /\ QueueType' /\ WriterType' /\ ReaderType'
  BY SameTypes, Zenon
<1>4. NoneStarts /\ notified \subseteq notified' /\ UNCHANGED <<reqs, status, stopped>>
  BY Zenon DEF ExecType, NoneStarts
<1>5. WriterInv'
  BY Zenon DEF WriterInv, NoLostWakeup, waiting
<1> QED
  BY <1>1, <1>2, <1>3, <1>4, <1>5, SameQueue, Zenon DEF Inv, TypeOK

\* A cancellation signal reaches the run.
LEMMA CancelRunOpStep ==
  ASSUME Inv, cancel_run_op
  PROVE  Inv' /\ OrderKept
<1> USE DEF exec_vars, queue_vars, writer_vars, reader_vars, conn_vars, chan_vars, server_vars
<1>   /\ ExecType /\ QueueType /\ WriterType /\ ReaderType /\ ConnType /\ ServerType
      /\ QueueInv /\ WriterInv
  BY Zenon DEF Inv, TypeOK
<1> USE DEF cancel_run_op
<1>1. WriterType'
  BY Zenon DEF WriterType, timer_cancelled
<1>2. ReaderType'
  BY Zenon DEF ReaderType, send_cancelled
<1>3. ExecType' /\ QueueType' /\ ConnType' /\ ServerType'
  BY SameTypes, Zenon
<1>4. NoneStarts /\ notified \subseteq notified' /\ UNCHANGED <<reqs, status, stopped>>
  BY Zenon DEF ExecType, NoneStarts
<1>5. WriterInv'
  BY Zenon DEF WriterInv, NoLostWakeup, waiting, timer_cancelled
<1> QED
  BY <1>1, <1>2, <1>3, <1>4, <1>5, SameQueue, Zenon DEF Inv, TypeOK

\* cancel(operation::run), called by the user.
LEMMA UserCancelRunStep ==
  ASSUME Inv, user_cancel_run
  PROVE  Inv' /\ OrderKept
<1> USE DEF exec_vars, queue_vars, writer_vars, reader_vars, conn_vars, chan_vars, server_vars
<1>   /\ ExecType /\ QueueType /\ WriterType /\ ReaderType /\ ConnType /\ ServerType
      /\ QueueInv /\ WriterInv
  BY Zenon DEF Inv, TypeOK
<1> USE DEF user_cancel_run
<1>1. NoneStarts
  BY Zenon DEF ExecType, NoneStarts
<1>   /\ QueueInv' /\ OrderKept /\ QueueType'
      /\ open' \in BOOLEAN /\ cancel_run_called' \in BOOLEAN /\ receiver' \in BOOLEAN
      /\ open' => cancel_run_called /\ UNCHANGED <<open, reqs, status>>
  BY <1>1, CancelRunKeepsQueueInv, Zenon DEF QueueType, cancel_run_and_wake
<1>3. WriterType' /\ ReaderType'
  <2>1. WriterType'
    BY Zenon DEF WriterType, cancel_run_and_wake, timer_cancelled, send_cancelled
  <2>2. ReaderType'
    BY Zenon DEF ReaderType, cancel_run_and_wake, timer_cancelled, send_cancelled
  <2> QED
    BY <2>1, <2>2, Zenon
<1>4. ExecType' /\ ServerType'
  BY SameTypes, Zenon
<1>5. ConnType'
  BY Zenon DEF ConnType
<1>6. WriterInv'
  BY Zenon DEF WriterInv, NoLostWakeup, waiting, cancel_run_and_wake, timer_cancelled,
                    send_cancelled
<1> QED
  BY <1>3, <1>4, <1>5, <1>6, Zenon DEF Inv, TypeOK

\* A failed operation of run_all_op ends the run.
LEMMA RunAllOpFailsStep ==
  ASSUME Inv, run_all_op_fails
  PROVE  Inv' /\ OrderKept
<1> USE DEF exec_vars, queue_vars, writer_vars, reader_vars, conn_vars, chan_vars, server_vars
<1>   /\ ExecType /\ QueueType /\ WriterType /\ ReaderType /\ ConnType /\ ServerType
      /\ QueueInv /\ WriterInv
  BY Zenon DEF Inv, TypeOK
<1> USE DEF run_all_op_fails
<1>1. NoneStarts
  BY Zenon DEF ExecType, NoneStarts
<1>   /\ QueueInv' /\ OrderKept /\ QueueType'
      /\ open' \in BOOLEAN /\ cancel_run_called' \in BOOLEAN /\ receiver' \in BOOLEAN
      /\ open' => cancel_run_called /\ UNCHANGED <<open, reqs, status>>
  BY <1>1, CancelRunKeepsQueueInv, Zenon DEF QueueType
<1>3. WriterType' /\ ReaderType'
  BY SameTypes, Zenon
<1>4. ExecType' /\ ServerType'
  BY SameTypes, Zenon
<1>5. ConnType'
  BY Zenon DEF ConnType
<1>6. WriterInv'
  BY Zenon DEF WriterInv, NoLostWakeup, waiting
<1> QED
  BY <1>3, <1>4, <1>5, <1>6, Zenon DEF Inv, TypeOK

\* Reader and writer have ended, and run_op completes.
LEMMA RunOpCompletesStep ==
  ASSUME Inv, run_op_completes
  PROVE  Inv' /\ OrderKept
<1> USE DEF exec_vars, queue_vars, writer_vars, reader_vars, conn_vars, chan_vars, server_vars
<1>   /\ ExecType /\ QueueType /\ WriterType /\ ReaderType /\ ConnType /\ ServerType
      /\ QueueInv /\ WriterInv
  BY Zenon DEF Inv, TypeOK
<1> USE DEF run_op_completes
<1>1. WriterType'
  BY Zenon DEF WriterType
<1>2. ReaderType'
  BY Zenon DEF ReaderType
<1>3. ConnType'
  BY Zenon DEF ConnType
<1>4. ServerType'
  <2>1. peer' \in BOOLEAN
    BY Zenon DEF ServerType
  <2>2. answered' \in Nat
    BY Zenon DEF ServerType
  <2>3. commands' \in Seq(Execs)
    BY DEF ServerType
  <2>4. replies' \in Seq(Messages)
    BY DEF ServerType, Messages
  <2>5. pushes' \in 0 .. MaxPushes
    BY Zenon DEF ServerType
  <2> QED
    BY <2>1, <2>2, <2>3, <2>4, <2>5, Zenon DEF ServerType
<1>5. ExecType' /\ QueueType'
  BY SameTypes, Zenon
<1>6. NoneStarts /\ notified \subseteq notified' /\ UNCHANGED <<reqs, status, stopped>>
  BY Zenon DEF ExecType, NoneStarts
<1>7. WriterInv'
  BY Zenon DEF WriterInv, NoLostWakeup, waiting
<1> QED
  BY <1>1, <1>2, <1>3, <1>4, <1>5, <1>6, <1>7, SameQueue, Zenon DEF Inv, TypeOK

\* The server answers a command.
LEMMA ServerRepliesStep ==
  ASSUME Inv, server_replies
  PROVE  Inv' /\ OrderKept
<1> USE DEF exec_vars, queue_vars, writer_vars, reader_vars, conn_vars, chan_vars, server_vars
<1>   /\ ExecType /\ QueueType /\ WriterType /\ ReaderType /\ ConnType /\ ServerType
      /\ QueueInv /\ WriterInv
  BY Zenon DEF Inv, TypeOK
<1> USE DEF server_replies
<1>1. ServerType'
  <2>1. peer' \in BOOLEAN
    BY Zenon DEF ServerType
  <2>2. answered' \in Nat
    BY DEF ServerType
  <2>3. commands' \in Seq(Execs)
    <3>1. commands' = commands \/ commands' = Tail(commands)
      BY Zenon
    <3>2. commands \in Seq(Execs) /\ commands # <<>>
      BY Zenon DEF ServerType
    <3> HIDE DEF server_replies
    <3> QED
      BY <3>1, <3>2
  <2>4. replies' \in Seq(Messages)
    <3> DEFINE c == Head(commands)
               cmds == req[c].cmds
               n == answered + 1
    <3>1. n \in Nat /\ c \in Execs
      BY DEF ServerType
    <3>2. Responding(cmds, n) \in Nat
      BY <3>1, RespondingType, Zenon
    <3>3. (IF cmds[n] = "resp" THEN <<c, Responding(cmds, n)>> ELSE Push) \in Messages
      BY <3>1, <3>2, Zenon DEF Messages
    <3>4. replies' = Append(replies, IF cmds[n] = "resp"
                                     THEN <<c, Responding(cmds, n)>> ELSE Push)
      BY Zenon
    <3> HIDE DEF cmds, c, n
    <3> QED
      BY <3>3, <3>4 DEF ServerType
  <2>5. pushes' \in 0 .. MaxPushes
    BY Zenon DEF ServerType
  <2> QED
    BY <2>1, <2>2, <2>3, <2>4, <2>5, Zenon DEF ServerType
<1>2. ExecType' /\ QueueType' /\ WriterType' /\ ReaderType' /\ ConnType'
  BY SameTypes, Zenon
<1>3. NoneStarts /\ notified \subseteq notified' /\ UNCHANGED <<reqs, status, stopped>>
  BY Zenon DEF ExecType, NoneStarts
<1>4. WriterInv'
  BY Zenon DEF WriterInv, NoLostWakeup, waiting
<1> QED
  BY <1>1, <1>2, <1>3, <1>4, SameQueue, Zenon DEF Inv, TypeOK

\* The server sends a push.
LEMMA ServerPushesStep ==
  ASSUME Inv, server_pushes
  PROVE  Inv' /\ OrderKept
<1> USE DEF exec_vars, queue_vars, writer_vars, reader_vars, conn_vars, chan_vars, server_vars
<1>   /\ ExecType /\ QueueType /\ WriterType /\ ReaderType /\ ConnType /\ ServerType
      /\ QueueInv /\ WriterInv
  BY Zenon DEF Inv, TypeOK
<1> USE DEF server_pushes
<1>1. ServerType'
  <2>1. peer' \in BOOLEAN
    BY Zenon DEF ServerType, Messages
  <2>2. answered' \in Nat
    BY Zenon DEF ServerType, Messages
  <2>3. commands' \in Seq(Execs)
    BY Zenon DEF ServerType, Messages
  <2>4. replies' \in Seq(Messages)
    BY DEF ServerType, Messages
  <2>5. pushes' \in 0 .. MaxPushes
    BY ConnectionAssumption DEF ServerType
  <2> QED
    BY <2>1, <2>2, <2>3, <2>4, <2>5, Zenon DEF ServerType
<1>2. ExecType' /\ QueueType' /\ WriterType' /\ ReaderType' /\ ConnType'
  BY SameTypes, Zenon
<1>3. NoneStarts /\ notified \subseteq notified' /\ UNCHANGED <<reqs, status, stopped>>
  BY Zenon DEF ExecType, NoneStarts
<1>4. WriterInv'
  BY Zenon DEF WriterInv, NoLostWakeup, waiting
<1> QED
  BY <1>1, <1>2, <1>3, <1>4, SameQueue, Zenon DEF Inv, TypeOK

\* The server closes the connection.
LEMMA ServerLeavesStep ==
  ASSUME Inv, server_leaves
  PROVE  Inv' /\ OrderKept
<1> USE DEF exec_vars, queue_vars, writer_vars, reader_vars, conn_vars, chan_vars, server_vars
<1>   /\ ExecType /\ QueueType /\ WriterType /\ ReaderType /\ ConnType /\ ServerType
      /\ QueueInv /\ WriterInv
  BY Zenon DEF Inv, TypeOK
<1> USE DEF server_leaves
<1>1. ServerType'
  <2>1. peer' \in BOOLEAN
    BY Zenon DEF ServerType
  <2>2. answered' \in Nat
    BY Zenon DEF ServerType
  <2>3. commands' \in Seq(Execs)
    BY DEF ServerType
  <2>4. replies' \in Seq(Messages)
    BY Zenon DEF ServerType, Messages
  <2>5. pushes' \in 0 .. MaxPushes
    BY Zenon DEF ServerType
  <2> QED
    BY <2>1, <2>2, <2>3, <2>4, <2>5, Zenon DEF ServerType
<1>2. ExecType' /\ QueueType' /\ WriterType' /\ ReaderType' /\ ConnType'
  BY SameTypes, Zenon
<1>3. NoneStarts /\ notified \subseteq notified' /\ UNCHANGED <<reqs, status, stopped>>
  BY Zenon DEF ExecType, NoneStarts
<1>4. WriterInv'
  BY Zenon DEF WriterInv, NoLostWakeup, waiting
<1> QED
  BY <1>1, <1>2, <1>3, <1>4, SameQueue, Zenon DEF Inv, TypeOK

\* The invariant holds initially.
LEMMA InitInv ==
  Init => Inv
<1> SUFFICES ASSUME Init PROVE Inv
  BY Zenon
<1>1. (CHOOSE k \in Kinds : TRUE) \in Kinds
  BY ConnectionAssumption, Zenon
<1>2. Elements(reqs) = {} /\ \A x, y : ~Before(reqs, x, y)
  BY DEF Init, Elements, Before
<1>3. ExecType /\ QueueType
  BY <1>1 DEF Init, ExecType, QueueType
<1>4. WriterType /\ ReaderType
  <2>1. write_buffer \in Seq(Execs) /\ handed \in 0 .. Len(write_buffer)
    BY DEF Init
  <2>2. read_buffer \in Seq(Messages)
    BY DEF Init
  <2>3. wr = "off" /\ rd = "off" /\ sent \in [Execs -> Nat]
    BY Zenon DEF Init
  <2>4. /\ wr_cancelled \in BOOLEAN /\ rd_cancelled \in BOOLEAN
        /\ partial \in BOOLEAN /\ on_push \in BOOLEAN
    BY Zenon DEF Init
  <2> QED
    BY <2>1, <2>2, <2>3, <2>4, Zenon DEF WriterType, ReaderType
<1>5. ConnType /\ ServerType
  <2>1. commands \in Seq(Execs) /\ replies \in Seq(Messages) /\ answered \in Nat
    BY DEF Init
  <2>2. runs \in 0 .. MaxRuns /\ pushes \in 0 .. MaxPushes /\ channel \in 0 .. Capacity
    BY ConnectionAssumption DEF Init
  <2>3. /\ open \in BOOLEAN /\ cancel_run_called \in BOOLEAN
        /\ receiver \in BOOLEAN /\ peer \in BOOLEAN /\ run = "off"
    BY Zenon DEF Init
  <2> QED
    BY <2>1, <2>2, <2>3, Zenon DEF ConnType, ServerType
<1>6. QueueInv
  BY <1>2, Zenon DEF Init, QueueInv, QueueOrder, Ordered, SuspendedAreQueued, IdleIsFresh, WaitingAreQueued
<1>7. WriterInv
  BY <1>2, Zenon DEF Init, WriterInv, NoLostWakeup
<1> QED
  BY <1>3, <1>4, <1>5, <1>6, <1>7, Zenon DEF Inv, TypeOK

\* Every step keeps the invariant, and the order of the queue.
LEMMA StepInv ==
  Inv /\ [Next]_vars => Inv' /\ OrderKept
<1> SUFFICES ASSUME Inv, [Next]_vars PROVE Inv' /\ OrderKept
  BY Zenon
<1> CASE UNCHANGED vars
  <2> USE DEF vars, exec_vars, queue_vars, writer_vars, reader_vars, conn_vars,
              chan_vars, server_vars
  <2>1. TypeOK'
    BY SameTypes, Zenon DEF Inv, TypeOK
  <2>2. QueueInv' /\ OrderKept
    BY SameQueue, Zenon DEF Inv, NoneStarts
  <2>3. WriterInv'
    BY Zenon DEF Inv, WriterInv, NoLostWakeup, waiting
  <2> QED
    BY <2>1, <2>2, <2>3, Zenon DEF Inv
<1> CASE \E e \in Execs : ExecNext(e)
  BY ExecOpNotConnectedStep, ExecOpCompletesStep, ExecCancelledStep, Zenon DEF ExecNext
<1> CASE WriterNext
  BY WriteSomeStep, AsyncWriteDoneStep, WriterOpErrorStep, OnWriteStep, StagingSteps, WriterOpCancelledStep, Zenon
     DEF WriterNext
<1> CASE ReaderNext
  BY AppendSomeStep, AppendSomeFailsStep, ReaderOpErrorStep, ReaderOpResumesStep, OnReadNeedsMoreStep, OnReadPushStep, OnReadRespStep, OnReadErrorStep, Zenon
     DEF ReaderNext
<1> CASE RunNext
  BY AsyncConnectStep, RunAllOpFailsStep, StagingSteps, RunOpCompletesStep, Zenon DEF RunNext
<1> CASE UserNext
  BY AsyncExecStep, CancelExecOpStep, UserCancelRunStep, CancelExecSteps, UserCancelReceiveStep, CancelRunOpStep, AsyncReceiveWaitsStep, Zenon
     DEF UserNext
<1> CASE receive
  BY ReceiveStep, Zenon
<1> CASE server_replies \/ server_pushes \/ server_leaves
  BY ServerRepliesStep, ServerPushesStep, ServerLeavesStep, Zenon
<1> QED
  BY Zenon DEF Next

\* The inductive invariant is an invariant.
THEOREM Invariance == Spec => []Inv
<1>1. Inv /\ [Next]_vars => Inv'
  BY StepInv, Zenon
<1> QED
  BY InitInv, <1>1, PTL DEF Spec

\* The variables keep their types: expected_responses_ never wraps below zero
\* in on_read, the writer never hands over more than write_buffer_ holds, and
\* receive_channel_ stays within its capacity.
THEOREM TypeCorrect == Spec => []TypeOK
<1>1. Inv => TypeOK
  BY Zenon DEF Inv
<1> QED
  BY Invariance, <1>1, PTL

\* The queue is always in the order that std::partition_point in
\* coalesce_requests and add_request_info requires, and has no duplicates.
THEOREM QueueIsOrdered == Spec => []QueueOrder
<1>1. Inv => QueueOrder
  BY Zenon DEF Inv, QueueInv
<1> QED
  BY Invariance, <1>1, PTL

\* A suspended exec_op without a pending wakeup is always in the queue, where
\* proceed() and stop() find it.
THEOREM SuspendedStayQueued == Spec => []SuspendedAreQueued
<1>1. Inv => SuspendedAreQueued
  BY Zenon DEF Inv, QueueInv
<1> QED
  BY Invariance, <1>1, PTL

\* remove_request never calls erase with end().
THEOREM RemoveIsDefined == Spec => []RemoveFindsRequest
<1>1. Inv => RemoveFindsRequest
  BY Zenon DEF Inv, QueueInv, WaitingAreQueued, RemoveFindsRequest
<1> QED
  BY Invariance, <1>1, PTL

\* The writer never sleeps on writer_timer_ while a request waits on an open
\* socket.
THEOREM WakeupsAreNotLost == Spec => []NoLostWakeup
<1>1. Inv => NoLostWakeup
  BY Zenon DEF Inv, WriterInv
<1> QED
  BY Invariance, <1>1, PTL

\* No step of any operation reorders requests that stay in the queue.
THEOREM OrderNeverChanges == Spec => OrderIsStable
<1>1. Inv /\ [Next]_vars =>
        [\A e, f \in Elements(reqs) \cap Elements(reqs') :
           Before(reqs, e, f) => Before(reqs', e, f)]_vars
  BY StepInv, Zenon DEF OrderKept
<1> QED
  BY Invariance, <1>1, PTL DEF Spec, OrderIsStable

-------------------------------------------------------------------------------
(* AtMostOnce.                                                               *)

Once(e) == req[e].cancel_if_unresponded

\* A request that may be handed over once has not been while it waits, nor
\* while it has its place in write_buffer_ before it, which it has only once.
SentInv ==
    /\ \A e \in Execs : op[e] = "idle" => sent[e] = 0
    /\ \A e \in Execs : Once(e) => sent[e] <= 1 /\ (status[e] = "waiting" => sent[e] = 0)
    /\ \A i \in DOMAIN write_buffer :
          LET e == write_buffer[i]
          IN  /\ op[e] # "idle"
              /\ Once(e) => status[e] # "waiting" /\ (i > handed => sent[e] = 0)
    /\ \A i, j \in DOMAIN write_buffer : write_buffer[i] = write_buffer[j] => i = j

\* No request that may be handed over once becomes waiting again.
StatusKept == \A e \in Execs : Once(e) /\ status'[e] = "waiting" => status[e] = "waiting"

\* A step that leaves the writer's buffer alone.
LEMMA SentFrame ==
  ASSUME SentInv, WriterType, UNCHANGED <<req, write_buffer, handed, sent>>, StatusKept,
         \A e \in Execs : op'[e] = "idle" => op[e] = "idle"
  PROVE  SentInv'
<1>1. \A i \in DOMAIN write_buffer : write_buffer[i] \in Execs
  BY DEF WriterType
<1> QED
  BY <1>1, Zenon DEF SentInv, StatusKept, Once

\* cancel_on_conn_lost makes no request wait again that may be sent once.
LEMMA LossKeepsStatus ==
  ASSUME QueueType, NEW W, cancel_run(W)
  PROVE  StatusKept
<1>1. CASE cancel_run_called
  BY <1>1, Zenon DEF cancel_run, StatusKept
<1>2. CASE ~cancel_run_called
  <2>1. status' = [e \in Execs |-> IF e \in Elements(reqs) \ lost
                                   THEN "waiting" ELSE status[e]]
    BY <1>2, Zenon DEF cancel_run, cancel_on_conn_lost
  <2> QED
    BY <2>1, Zenon DEF StatusKept, Once, lost, waiting
<1> QED
  BY <1>1, <1>2, Zenon

\* coalesce_requests puts every waiting request once into an empty buffer.
LEMMA StagingKeepsSentInv ==
  ASSUME Inv, SentInv, NEW q \in Seq(Execs), NEW st \in [Execs -> {"waiting", "staged", "written"}],
         Ordered(q, st), coalesce_requests(q, st, <<>>), Elements(q) \subseteq Elements(reqs),
         \A e \in Execs : st[e] = "waiting" <=> status[e] = "waiting",
         UNCHANGED <<op, req, sent>>
  PROVE  SentInv'
<1> DEFINE T == {e \in Execs : st[e] # "waiting"}
           n == PartitionPoint(q, T)
           staged == SubSeq(q, n + 1, Len(q))
<1>1. IsPartitioned(q, T)
  BY OrderedIsPartitioned, Zenon
<1> staged \in Seq(Execs) /\ Elements(staged) = Elements(q) \ T
  BY <1>1, PartitionTail, Zenon
<1> n \in 0 .. Len(q)
  BY <1>1, PartitionSplit, Zenon
<1>   /\ status' = [e \in Execs |-> IF e \in Elements(staged) THEN "staged" ELSE st[e]]
      /\ write_buffer' = <<>> \o staged /\ handed' = 0
  BY Zenon DEF coalesce_requests
<1> HIDE DEF n
<1>5. \A i, j \in DOMAIN staged : staged[i] = staged[j] => i = j
  <2> Len(q) \in Nat /\ DOMAIN q = 1 .. Len(q)
    OBVIOUS
  <2> DOMAIN staged = 1 .. Len(q) - n /\ \A i \in DOMAIN staged : staged[i] = q[n + i]
    OBVIOUS
  <2> HIDE DEF staged
  <2>3. \A i, j \in DOMAIN staged : i < j => staged[i] # staged[j]
    <3> SUFFICES ASSUME NEW i \in DOMAIN staged, NEW j \in DOMAIN staged, i < j
                 PROVE  staged[i] # staged[j]
      BY Zenon
    <3>1. n + i \in DOMAIN q /\ n + j \in DOMAIN q /\ n + i < n + j
      OBVIOUS
    <3>2. Before(q, q[n + i], q[n + j])
      BY <3>1, Zenon DEF Before
    <3>3. q[n + i] \in Execs /\ q[n + j] \in Execs
      BY <3>1
    <3> QED
      BY <3>2, <3>3, Zenon DEF Ordered
  <2> QED
    BY <2>3
<1> HIDE DEF staged
<1>6. write_buffer' = staged
  OBVIOUS
<1>7. \A i \in DOMAIN staged : /\ staged[i] \in Execs /\ staged[i] \in Elements(staged)
                               /\ staged[i] \in Elements(reqs)
                               /\ status[staged[i]] = "waiting"
  <2> SUFFICES ASSUME NEW i \in DOMAIN staged
               PROVE  /\ staged[i] \in Execs /\ staged[i] \in Elements(staged)
                      /\ staged[i] \in Elements(reqs) /\ status[staged[i]] = "waiting"
    BY Zenon
  <2>1. staged[i] \in Execs
    OBVIOUS
  <2>2. staged[i] \in Elements(staged)
    BY Zenon DEF Elements
  <2> QED
    BY <2>1, <2>2, Zenon
<1>8. \A e \in Execs : status'[e] = "waiting" => status[e] = "waiting"
  BY Zenon
<1>9. \A i \in DOMAIN staged : status'[staged[i]] = "staged" /\ op[staged[i]] # "idle"
  BY <1>7, Zenon DEF Inv, QueueInv, IdleIsFresh
<1>10. \A i \in DOMAIN staged : Once(staged[i]) => sent[staged[i]] = 0
  BY <1>7, Zenon DEF SentInv
<1>11. /\ \A e \in Execs : op'[e] = "idle" => sent'[e] = 0
       /\ \A e \in Execs : Once(e)' => sent'[e] <= 1 /\ (status'[e] = "waiting" => sent'[e] = 0)
  BY <1>8, Zenon DEF SentInv, Once
<1> QED
  BY <1>5, <1>6, <1>9, <1>10, <1>11, ZenonT(30) DEF SentInv, Once

\* The four steps that call coalesce_requests, or empty the buffer.
LEMMA StagingStepsSent ==
  ASSUME Inv, SentInv, writer_op_woken \/ run_op_starts \/ writer_op_on_write
  PROVE  SentInv'
<1> USE DEF exec_vars
<1>   /\ reqs \in Seq(Execs) /\ status \in [Execs -> {"waiting", "staged", "written"}]
      /\ Ordered(reqs, status)
  BY Zenon DEF Inv, TypeOK, QueueType, QueueInv, QueueOrder
<1> CASE writer_op_woken \/ run_op_starts
  <2> CASE writer_op_woken
    <3>1. write_buffer = <<>>
      BY Zenon DEF Inv, WriterInv, writer_op_woken
    <3>2. coalesce_requests(reqs, status, write_buffer) /\ UNCHANGED <<op, req, sent>>
      BY Zenon DEF writer_op_woken
    <3> QED
      BY <3>1, <3>2, StagingKeepsSentInv, Zenon
  <2> CASE run_op_starts
    <3>1. coalesce_requests(reqs, status, <<>>) /\ UNCHANGED <<op, req, sent>>
      BY Zenon DEF run_op_starts
    <3> QED
      BY <3>1, StagingKeepsSentInv, Zenon
  <2> QED
    BY Zenon
<1> CASE writer_op_on_write
  <2> DEFINE q  == Keep(reqs, Execs \ push_requests)
             st == on_write_status(q)
  <2>   /\ \/ coalesce_requests(q, st, <<>>)
           \/ status' = st /\ write_buffer' = <<>> /\ handed' = 0
        /\ UNCHANGED <<op, req, sent>>
    BY Zenon DEF writer_op_on_write
  <2>2. /\ q \in Seq(Execs) /\ Elements(q) \subseteq Elements(reqs)
        /\ \A e, f : Before(q, e, f) => Before(reqs, e, f)
    <3>1. q \in Seq(Execs) /\ Elements(q) = Elements(reqs) \cap (Execs \ push_requests)
      BY KeepElements, Zenon
    <3>2. \A e, f : Before(q, e, f) => Before(reqs, e, f)
      BY KeepBefore, Zenon
    <3> HIDE DEF q
    <3> QED
      BY <3>1, <3>2, Zenon
  <2>3. \A e, f \in Execs : Before(q, e, f) => e \in Elements(q) /\ f \in Elements(q)
    <3> HIDE DEF q
    <3> QED
      BY Zenon DEF Before, Elements
  <2> HIDE DEF q
  <2>4. st \in [Execs -> {"waiting", "staged", "written"}]
    BY Zenon DEF on_write_status
  <2>5. Ordered(q, st)
    BY <2>2, <2>3, Zenon DEF Ordered, on_write_status
  <2>6. \A e \in Execs : st[e] = "waiting" <=> status[e] = "waiting"
    BY Zenon DEF on_write_status
  <2> HIDE DEF st
  <2> CASE coalesce_requests(q, st, <<>>)
    BY <2>2, <2>4, <2>5, <2>6, StagingKeepsSentInv, Zenon
  <2> CASE status' = st /\ write_buffer' = <<>> /\ handed' = 0
    BY <2>6 DEF SentInv, Once
  <2> QED
    BY Zenon
<1> QED
  BY Zenon

\* The transport accepts a request: it is not behind handed any more.
LEMMA WriteSomeSent ==
  ASSUME Inv, SentInv, write_some
  PROVE  SentInv'
<1> DEFINE e == write_buffer[handed + 1]
<1>1. /\ handed \in Nat /\ handed + 1 \in DOMAIN write_buffer /\ e \in Execs
      /\ DOMAIN write_buffer = 1 .. Len(write_buffer) /\ Len(write_buffer) \in Nat
      /\ \A i \in DOMAIN write_buffer : write_buffer[i] \in Execs
      /\ sent \in [Execs -> Nat]
  BY DEF Inv, TypeOK, WriterType, write_some
<1>2. /\ handed' = handed + 1 /\ sent' = [sent EXCEPT ![e] = @ + 1]
      /\ UNCHANGED <<op, req, status, write_buffer>>
  BY Zenon DEF write_some, exec_vars, queue_vars
<1>3. op[e] # "idle" /\ (Once(e) => status[e] # "waiting" /\ sent[e] = 0)
  BY <1>1 DEF SentInv
<1>4. \A i \in DOMAIN write_buffer : i > handed + 1 => write_buffer[i] # e
  BY <1>1 DEF SentInv
<1> HIDE DEF e
<1>5. \A f \in Execs : op'[f] = "idle" => sent'[f] = 0
  BY <1>1, <1>2, <1>3, Zenon DEF SentInv
<1>6. \A f \in Execs : Once(f)' => sent'[f] <= 1 /\ (status'[f] = "waiting" => sent'[f] = 0)
  BY <1>1, <1>2, <1>3 DEF SentInv, Once
<1>7. \A i \in DOMAIN write_buffer :
         /\ op[write_buffer[i]] # "idle"
         /\ Once(write_buffer[i]) => /\ status[write_buffer[i]] # "waiting"
                                     /\ i > handed' => sent'[write_buffer[i]] = 0
  BY <1>1, <1>2, <1>4 DEF SentInv
<1> QED
  BY <1>2, <1>5, <1>6, <1>7, Zenon DEF SentInv, Once

\* A new call: its exec was idle, so nothing has been handed over for it.
LEMMA AsyncExecSent ==
  ASSUME Inv, SentInv, NEW e \in Execs, NEW k \in Kinds, async_exec(e, k)
  PROVE  SentInv'
<1>   /\ op[e] = "idle" /\ op' \in {[op EXCEPT ![e] = "posted"], [op EXCEPT ![e] = "waiting"]}
      /\ req' = [req EXCEPT ![e] = k] /\ UNCHANGED <<status, write_buffer, handed, sent>>
  BY Zenon DEF async_exec
<1>   /\ op \in [Execs -> {"idle", "posted", "waiting"} \cup Results] /\ req \in [Execs -> Kinds]
      /\ \A i \in DOMAIN write_buffer : write_buffer[i] \in Execs
  BY DEF Inv, TypeOK, ExecType, WriterType
<1>3. sent[e] = 0 /\ \A i \in DOMAIN write_buffer : write_buffer[i] # e
  BY Zenon DEF SentInv
<1> \A f \in Execs : f # e => op'[f] = op[f] /\ Once(f)' = Once(f)
  BY Zenon DEF Once
<1>5. op'[e] # "idle"
  BY Zenon
<1>6. \A f \in Execs : op'[f] = "idle" => sent'[f] = 0
  BY <1>5, Zenon DEF SentInv
<1>7. \A f \in Execs : Once(f)' => sent'[f] <= 1 /\ (status'[f] = "waiting" => sent'[f] = 0)
  BY <1>3 DEF SentInv
<1> QED
  BY <1>3, <1>6, <1>7, Zenon DEF SentInv

\* Every other step leaves the buffer alone.
LEMMA OtherStepsSent ==
  ASSUME Inv, SentInv,
         \/ \E e \in Execs : ExecNext(e) \/ cancel_exec_op(e)
         \/ async_write_done \/ writer_op_error \/ writer_op_cancelled \/ ReaderNext
         \/ async_connect \/ run_all_op_fails \/ run_op_completes
         \/ user_cancel_run \/ user_cancel_exec \/ user_cancel_receive \/ user_cancel_all
         \/ cancel_run_op \/ async_receive_waits \/ receive
         \/ server_replies \/ server_pushes \/ server_leaves
  PROVE  SentInv'
<1> ExecType /\ QueueType /\ WriterType
  BY Zenon DEF Inv, TypeOK
<1>1. /\ UNCHANGED <<req, write_buffer, handed, sent>>
      /\ UNCHANGED op \/ \E f \in Execs, r \in Results : complete(f, r)
  <2> DEFINE Goal == /\ UNCHANGED <<req, write_buffer, handed, sent>>
                     /\ UNCHANGED op \/ \E f \in Execs, r \in Results : complete(f, r)
  <2> USE DEF exec_vars, writer_vars
  <2> SUFFICES Goal
    BY Zenon
  <2>1. ASSUME NEW e \in Execs, exec_op_not_connected(e) PROVE Goal
    <3>1. complete(e, "not_connected") /\ "not_connected" \in Results
      BY <2>1, Zenon DEF exec_op_not_connected, complete, Results
    <3>2. UNCHANGED <<req, write_buffer, handed, sent>>
      BY <2>1, Zenon DEF exec_op_not_connected
    <3> QED
      BY <3>1, <3>2, Zenon
  <2>2. ASSUME NEW e \in Execs, exec_op_completes(e) PROVE Goal
    BY <2>2, Zenon DEF exec_op_completes, complete, Results
  <2>3. ASSUME NEW e \in Execs, exec_op_cancelled(e) PROVE Goal
    <3>1. complete(e, "aborted") /\ "aborted" \in Results
      BY <2>3, Zenon DEF exec_op_cancelled, Results
    <3>2. UNCHANGED <<req, write_buffer, handed, sent>>
      BY <2>3, Zenon DEF exec_op_cancelled
    <3> QED
      BY <3>1, <3>2, Zenon
  <2>4. ASSUME NEW e \in Execs, cancel_exec_op(e) PROVE Goal
    BY <2>4, Zenon DEF cancel_exec_op
  <2> CASE async_write_done
    BY Zenon DEF async_write_done
  <2> CASE writer_op_error
    BY Zenon DEF writer_op_error
  <2> CASE writer_op_cancelled
    BY Zenon DEF writer_op_cancelled
  <2> CASE append_some
    BY Zenon DEF append_some
  <2> CASE append_some_fails
    BY Zenon DEF append_some_fails
  <2> CASE reader_op_error
    BY Zenon DEF reader_op_error
  <2> CASE reader_op_resumes
    BY Zenon DEF reader_op_resumes
  <2> CASE on_read_needs_more
    BY Zenon DEF on_read_needs_more
  <2> CASE on_read_push
    BY Zenon DEF on_read_push
  <2> CASE on_read_resp
    BY Zenon DEF on_read_resp
  <2> CASE on_read_error
    BY Zenon DEF on_read_error
  <2> CASE async_connect
    BY Zenon DEF async_connect
  <2> CASE run_all_op_fails
    BY Zenon DEF run_all_op_fails
  <2> CASE run_op_completes
    BY Zenon DEF run_op_completes
  <2> CASE user_cancel_run
    BY Zenon DEF user_cancel_run
  <2> CASE user_cancel_exec
    BY Zenon DEF user_cancel_exec
  <2> CASE user_cancel_receive
    BY Zenon DEF user_cancel_receive
  <2> CASE user_cancel_all
    BY Zenon DEF user_cancel_all
  <2> CASE cancel_run_op
    BY Zenon DEF cancel_run_op
  <2> CASE async_receive_waits
    BY Zenon DEF async_receive_waits
  <2> CASE receive
    BY Zenon DEF receive
  <2> CASE server_replies
    BY Zenon DEF server_replies
  <2> CASE server_pushes
    BY Zenon DEF server_pushes
  <2> CASE server_leaves
    BY Zenon DEF server_leaves
  <2> HIDE DEF Goal
  <2> QED
    BY <2>1, <2>2, <2>3, <2>4, Zenon DEF ExecNext, ReaderNext
<1>2. \A f \in Execs : op'[f] = "idle" => op[f] = "idle"
  BY <1>1, Zenon DEF ExecType, complete, Results
<1>3. UNCHANGED status \/ (\E W : cancel_run(W)) \/ user_cancel_all
  <2> DEFINE Goal == UNCHANGED status \/ (\E W : cancel_run(W)) \/ user_cancel_all
  <2> USE DEF queue_vars
  <2> SUFFICES Goal
    BY Zenon
  <2>1. ASSUME NEW e \in Execs, exec_op_not_connected(e) PROVE Goal
    BY <2>1, Zenon DEF exec_op_not_connected
  <2>2. ASSUME NEW e \in Execs, exec_op_completes(e) PROVE Goal
    BY <2>2, Zenon DEF exec_op_completes
  <2>3. ASSUME NEW e \in Execs, exec_op_cancelled(e) PROVE Goal
    BY <2>3, Zenon DEF exec_op_cancelled, cancel_run_and_wake
  <2>4. ASSUME NEW e \in Execs, cancel_exec_op(e) PROVE Goal
    BY <2>4, Zenon DEF cancel_exec_op
  <2> CASE async_write_done
    BY Zenon DEF async_write_done
  <2> CASE writer_op_error
    BY Zenon DEF writer_op_error
  <2> CASE writer_op_cancelled
    BY Zenon DEF writer_op_cancelled
  <2> CASE append_some
    BY Zenon DEF append_some
  <2> CASE append_some_fails
    BY Zenon DEF append_some_fails
  <2> CASE reader_op_error
    BY Zenon DEF reader_op_error
  <2> CASE reader_op_resumes
    BY Zenon DEF reader_op_resumes
  <2> CASE on_read_needs_more
    BY Zenon DEF on_read_needs_more
  <2> CASE on_read_push
    BY Zenon DEF on_read_push
  <2> CASE on_read_resp
    BY Zenon DEF on_read_resp
  <2> CASE on_read_error
    BY Zenon DEF on_read_error
  <2> CASE async_connect
    BY Zenon DEF async_connect
  <2> CASE run_all_op_fails
    BY Zenon DEF run_all_op_fails
  <2> CASE run_op_completes
    BY Zenon DEF run_op_completes
  <2> CASE user_cancel_run
    BY Zenon DEF user_cancel_run, cancel_run_and_wake
  <2> CASE user_cancel_exec
    BY Zenon DEF user_cancel_exec, cancel_unwritten_requests
  <2> CASE user_cancel_receive
    BY Zenon DEF user_cancel_receive
  <2> CASE user_cancel_all
    BY Zenon DEF user_cancel_all
  <2> CASE cancel_run_op
    BY Zenon DEF cancel_run_op
  <2> CASE async_receive_waits
    BY Zenon DEF async_receive_waits
  <2> CASE receive
    BY Zenon DEF receive
  <2> CASE server_replies
    BY Zenon DEF server_replies
  <2> CASE server_pushes
    BY Zenon DEF server_pushes
  <2> CASE server_leaves
    BY Zenon DEF server_leaves
  <2> HIDE DEF Goal
  <2> QED
    BY <2>1, <2>2, <2>3, <2>4, Zenon DEF ExecNext, ReaderNext
<1>4. StatusKept
  <2> CASE UNCHANGED status
    BY Zenon DEF StatusKept
  <2> CASE \E W : cancel_run(W)
    BY LossKeepsStatus, Zenon
  <2> CASE user_cancel_all
    <3>1. \/ UNCHANGED status
          \/ status' = [f \in Execs |-> IF f \in Elements(reqs) \ lost
                                        THEN "waiting" ELSE status[f]]
      BY Zenon DEF user_cancel_all, cancel_unwritten_requests
    <3> QED
      BY <3>1, Zenon DEF StatusKept, Once, lost, waiting
  <2> QED
    BY <1>3, Zenon
<1> QED
  BY <1>1, <1>2, <1>4, SentFrame, Zenon

\* SentInv is invariant.
LEMMA SentInvariance == Spec => []SentInv
<1>1. Init => SentInv
  BY DEF Init, SentInv, Once
<1>2. Inv /\ SentInv /\ [Next]_vars => SentInv'
  <2> SUFFICES ASSUME Inv, SentInv, [Next]_vars PROVE SentInv'
    BY Zenon
  <2> CASE UNCHANGED vars
    <3>1. UNCHANGED <<op, req, status, write_buffer, handed, sent>>
      BY Zenon DEF vars, exec_vars, queue_vars, writer_vars
    <3> QED
      BY <3>1, SentFrame, Zenon DEF Inv, TypeOK, StatusKept
  <2> CASE Next
    <3> CASE \E e \in Execs, k \in Kinds : async_exec(e, k)
      BY AsyncExecSent, Zenon
    <3> CASE write_some
      BY WriteSomeSent, Zenon
    <3> CASE writer_op_woken \/ run_op_starts \/ writer_op_on_write
      BY StagingStepsSent, Zenon
    <3> QED
      BY OtherStepsSent, Zenon DEF Next, WriterNext, RunNext, UserNext
  <2> QED
    BY Zenon
<1> QED
  BY Invariance, <1>1, <1>2, PTL DEF Spec

\* A request with cancel_if_unresponded is handed to the transport at most
\* once, in every environment: whatever is cancelled, lost or rejected, and
\* in whatever state the writer is at that moment.
THEOREM RequestsAreSentAtMostOnce == Spec => []AtMostOnce
<1>1. SentInv => AtMostOnce
  BY Zenon DEF SentInv, AtMostOnce, Once
<1> QED
  BY SentInvariance, <1>1, PTL

-------------------------------------------------------------------------------
(* CountInv, in every state.                                                 *)

\* A step that counts nothing.
LEMMA CountFrame ==
  ASSUME CountInv, Elements(reqs) \subseteq Execs, UNCHANGED <<req, expected_responses>>,
         Elements(reqs') \subseteq Elements(reqs),
         \A e \in Execs : status'[e] = "waiting" => status[e] = "waiting"
  PROVE  CountInv'
BY Zenon DEF CountInv, Expect, waiting

\* cancel_impl(operation::run): a request that has been written and stays
\* expects one response, and that has not been read.
LEMMA CancelRunCounts ==
  ASSUME CountInv, Matchable, QueueType, ExecType, UNCHANGED <<req, expected_responses>>,
         NEW W, cancel_run(W)
  PROVE  CountInv'
<1> Elements(reqs) \subseteq Execs
  BY QueueElements, Zenon DEF QueueType
<1> CASE cancel_run_called
  BY CountFrame, Zenon DEF cancel_run
<1> CASE ~cancel_run_called
  <2>1. reqs' = Keep(reqs, Execs \ lost)
    BY Zenon DEF cancel_run, cancel_on_conn_lost, stop_requests
  <2>2. Elements(reqs') = Elements(reqs) \ lost
    BY <2>1, KeepQueue, Zenon DEF QueueType
  <2>3. ASSUME NEW e \in Elements(reqs) \ lost PROVE expected_responses[e] = Expect(e)
    <3> CASE e \in waiting
      BY Zenon DEF CountInv
    <3> CASE e \notin waiting
      <4>1. ~req[e].cancel_if_unresponded
        BY Zenon DEF lost
      <4>2. req[e] \in Kinds
        BY Zenon DEF ExecType
      <4>3. Expect(e) = 1
        BY <4>1, <4>2, Zenon DEF Matchable, Expect
      <4>4. expected_responses[e] \in Nat
        BY Zenon DEF ExecType
      <4> QED
        BY <4>3, <4>4 DEF CountInv
    <3> QED
      BY Zenon
  <2>4. \A e \in Elements(reqs') : expected_responses'[e] = Expect(e)' /\ 1 <= expected_responses[e]
                                   /\ expected_responses[e] <= Expect(e)
    BY <2>2, <2>3, Zenon DEF CountInv, Expect
  <2> QED
    BY <2>4, Zenon DEF CountInv, Expect
<1> QED
  BY Zenon

\* A call joins the queue: the requests that are in it keep their order.
LEMMA JoinBefore ==
  ASSUME Inv, NEW e \in Execs, NEW k \in Kinds, async_exec(e, k)
  PROVE  /\ Elements(reqs) \subseteq Elements(reqs')
         /\ Elements(reqs') \subseteq Elements(reqs) \cup {e}
         /\ \A x, y : Before(reqs, x, y) => Before(reqs', x, y)
         /\ \A x, y : Before(reqs', x, y) => Before(reqs, x, y) \/ x = e \/ y = e
<1>   /\ reqs \in Seq(Execs) /\ Ordered(reqs, status)
      /\ status \in [Execs -> {"waiting", "staged", "written"}]
  BY QueueTypes, Zenon
<1>1. \/ reqs' = reqs
      \/ reqs' = Append(reqs, e)
      \/ reqs' = InsertAfter(reqs, PartitionPoint(reqs, Execs \ waiting), e)
  BY Zenon DEF async_exec, add_request_info, hello_point
<1>2. Execs \ waiting = {f \in Execs : status[f] # "waiting"}
  BY Zenon DEF waiting
<1>3. IsPartitioned(reqs, Execs \ waiting)
  BY <1>2, OrderedIsPartitioned, Zenon
<1>4. CASE reqs' = InsertAfter(reqs, PartitionPoint(reqs, Execs \ waiting), e)
  <2> DEFINE T == Execs \ waiting
  <2> reqs' = InsertAfter(reqs, PartitionPoint(reqs, T), e) /\ IsPartitioned(reqs, T)
    BY <1>3, <1>4, Zenon
  <2> HIDE DEF T
  <2>2. Elements(reqs') = Elements(reqs) \cup {e}
    BY InsertAtPoint
  <2>3. \A x, y : Before(reqs, x, y) => Before(reqs', x, y)
    BY InsertAtPoint
  <2>4. \A x, y : Before(reqs', x, y) => Before(reqs, x, y) \/ x = e \/ y = e
    BY InsertAtPoint
  <2> QED
    BY <2>2, <2>3, <2>4, Zenon
<1>5. CASE reqs' = Append(reqs, e)
  BY <1>5, AppendBefore
<1> QED
  BY <1>1, <1>4, <1>5, Zenon

\* A call joins the queue with all its responses to come.
LEMMA CountJoins ==
  ASSUME Inv, CountInv, Matchable, NEW e \in Execs, NEW k \in Kinds, async_exec(e, k)
  PROVE  CountInv'
<1>   /\ reqs \in Seq(Execs) /\ Elements(reqs) \subseteq Execs
      /\ req \in [Execs -> Kinds] /\ expected_responses \in [Execs -> Nat]
  BY QueueTypes, Zenon
<1>1. /\ UNCHANGED status /\ req' = [req EXCEPT ![e] = k]
      /\ expected_responses' = [expected_responses EXCEPT ![e] = get_expected_responses(k)]
  BY Zenon DEF async_exec
<1>2. Elements(reqs') \subseteq Elements(reqs) \cup {e}
  BY JoinBefore, Zenon
<1>3. get_expected_responses(k) \in Nat /\ 1 <= get_expected_responses(k)
  BY ExpectedType, Zenon DEF Matchable
<1>4. ASSUME NEW f \in Elements(reqs')
      PROVE  /\ 1 <= expected_responses'[f] /\ expected_responses'[f] <= get_expected_responses(req'[f])
             /\ status'[f] = "waiting" => expected_responses'[f] = get_expected_responses(req'[f])
  <2>1. CASE f = e
    <3>1. expected_responses'[f] = get_expected_responses(k) /\ req'[f] = k
      BY <1>1, <2>1, Zenon
    <3> QED
      BY <1>3, <3>1
  <2>2. CASE f # e
    <3>1. f \in Elements(reqs) /\ f \in Execs
      BY <1>2, <2>2, Zenon
    <3>2. /\ expected_responses'[f] = expected_responses[f] /\ req'[f] = req[f]
          /\ status'[f] = status[f]
      BY <1>1, <2>2, <3>1, Zenon
    <3> QED
      BY <3>1, <3>2, Zenon DEF CountInv, Expect, waiting
  <2> QED
    BY <2>1, <2>2, Zenon
<1> QED
  BY <1>4, Zenon DEF CountInv, Expect, waiting

\* A response is read.
LEMMA CountTakes ==
  ASSUME Inv, CountInv, on_read_resp
  PROVE  CountInv'
<1> DEFINE h == Head(reqs)
<1>   /\ reqs \in Seq(Execs) /\ Elements(reqs) \subseteq Execs /\ QueueOrder
      /\ req \in [Execs -> Kinds] /\ expected_responses \in [Execs -> Nat]
  BY QueueTypes, Zenon DEF QueueOrder
<1>   /\ expected_responses' = [expected_responses EXCEPT ![h] = @ - 1]
      /\ reqs' = IF expected_responses[h] = 1 THEN Tail(reqs) ELSE reqs
      /\ UNCHANGED <<req, status>> /\ reqs # <<>> /\ h \notin waiting
  BY Zenon DEF on_read_resp, is_next_push, is_waiting_response
<1> h \in Elements(reqs) /\ Elements(Tail(reqs)) = Elements(reqs) \ {h}
  BY TailElements, Zenon
<1> HIDE DEF h
<1>3. /\ expected_responses[h] \in Nat /\ expected_responses[h] >= 1
      /\ get_expected_responses(req[h]) \in Nat
      /\ expected_responses[h] <= get_expected_responses(req[h])
  BY ExpectedType, Zenon DEF CountInv, Expect
<1>4. ASSUME NEW f \in Elements(reqs')
      PROVE  /\ 1 <= expected_responses'[f] /\ expected_responses'[f] <= get_expected_responses(req'[f])
             /\ status'[f] = "waiting" => expected_responses'[f] = get_expected_responses(req'[f])
  <2>1. CASE f = h
    <3>1. expected_responses[h] # 1
      BY <2>1, Zenon
    <3>2. expected_responses'[f] = expected_responses[h] - 1
      BY <2>1, Zenon
    <3>3. 1 <= expected_responses'[f] /\ expected_responses'[f] <= get_expected_responses(req[h])
      BY <1>3, <3>1, <3>2
    <3>4. status[h] # "waiting"
      BY Zenon DEF waiting
    <3> QED
      BY <2>1, <3>3, <3>4, Zenon
  <2>2. CASE f # h
    <3>1. f \in Elements(reqs) /\ f \in Execs
      BY Zenon
    <3>2. expected_responses'[f] = expected_responses[f]
      BY <2>2, <3>1, Zenon
    <3> QED
      BY <3>1, <3>2, Zenon DEF CountInv, Expect, waiting
  <2> QED
    BY <2>1, <2>2, Zenon
<1> QED
  BY <1>4, Zenon DEF CountInv, Expect, waiting

\* Every step keeps the count.
LEMMA CountStep ==
  ASSUME Inv, CountInv, Matchable, Next
  PROVE  CountInv'
<1> QueueType /\ ExecType /\ reqs \in Seq(Execs) /\ Elements(reqs) \subseteq Execs
  BY QueueElements, Zenon DEF Inv, TypeOK, QueueType
<1> USE DEF exec_vars, queue_vars
<1>0. ASSUME UNCHANGED <<req, expected_responses, reqs, status>> PROVE CountInv'
  BY <1>0, CountFrame, Zenon
<1>k. ASSUME UNCHANGED <<req, expected_responses, status>>, NEW S, reqs' = Keep(reqs, Execs \ S) PROVE CountInv'
  <2>1. Elements(reqs') \subseteq Elements(reqs)
    BY <1>k, KeepQueue, Zenon
  <2> QED
    BY <1>k, <2>1, CountFrame, Zenon
<1>c. ASSUME UNCHANGED <<req, expected_responses>>, NEW W, cancel_run(W) PROVE CountInv'
  BY <1>c, CancelRunCounts, Zenon
<1>s. ASSUME UNCHANGED <<req, expected_responses>>, NEW b, coalesce_requests(reqs, status, b) PROVE CountInv'
  <2>1. reqs' = reqs /\ \A e \in Execs : status'[e] = "waiting" => status[e] = "waiting"
    BY <1>s, Zenon DEF coalesce_requests
  <2> QED
    BY <1>s, <2>1, CountFrame, Zenon
<1>1. ASSUME NEW e \in Execs, ExecNext(e) PROVE CountInv'
  <2> CASE exec_op_not_connected(e)
    BY <1>0, Zenon DEF exec_op_not_connected
  <2> CASE exec_op_completes(e)
    BY <1>0, Zenon DEF exec_op_completes
  <2> CASE exec_op_cancelled(e)
    <3>1. /\ UNCHANGED <<req, expected_responses>>
          /\ \/ reqs' = Keep(reqs, Execs \ {e}) /\ UNCHANGED status
             \/ cancel_run({})
      BY Zenon DEF exec_op_cancelled, remove_request, cancel_run_and_wake
    <3> QED
      BY <1>k, <1>c, <3>1, Zenon
  <2> QED
    BY <1>1, Zenon DEF ExecNext
<1> CASE WriterNext
  <2> CASE write_some
    BY <1>0, Zenon DEF write_some
  <2> CASE async_write_done
    BY <1>0, Zenon DEF async_write_done
  <2> CASE writer_op_error
    BY <1>c, Zenon DEF writer_op_error
  <2> CASE writer_op_on_write
    <3> DEFINE q  == Keep(reqs, Execs \ push_requests)
               st == on_write_status(q)
    <3>1. /\ UNCHANGED <<req, expected_responses>>
          /\ \/ coalesce_requests(q, st, <<>>)
             \/ reqs' = q /\ status' = st
      BY Zenon DEF writer_op_on_write
    <3>2. Elements(q) \subseteq Elements(reqs)
      BY KeepElements
    <3> HIDE DEF q
    <3>3. \A e \in Execs : st[e] = "waiting" => status[e] = "waiting"
      BY Zenon DEF on_write_status
    <3> HIDE DEF st
    <3>4. reqs' = q /\ \A e \in Execs : status'[e] = "waiting" => st[e] = "waiting"
      BY <3>1, Zenon DEF coalesce_requests
    <3> QED
      BY <3>1, <3>2, <3>3, <3>4, CountFrame, Zenon
  <2> CASE writer_op_woken
    BY <1>s, Zenon DEF writer_op_woken
  <2> CASE writer_op_cancelled
    BY <1>0, Zenon DEF writer_op_cancelled
  <2> QED
    BY Zenon DEF WriterNext
<1> CASE ReaderNext
  <2> CASE append_some
    BY <1>0, Zenon DEF append_some
  <2> CASE append_some_fails
    BY <1>0, Zenon DEF append_some_fails
  <2> CASE reader_op_error
    BY <1>c, Zenon DEF reader_op_error
  <2> CASE reader_op_resumes
    BY <1>0, Zenon DEF reader_op_resumes
  <2> CASE on_read_needs_more
    BY <1>0, Zenon DEF on_read_needs_more
  <2> CASE on_read_push
    BY <1>0, Zenon DEF on_read_push
  <2> CASE on_read_resp
    BY CountTakes, Zenon
  <2> CASE on_read_error
    <3>1. UNCHANGED <<req, expected_responses>> /\ \E W : cancel_run(W)
      BY Zenon DEF on_read_error
    <3> QED
      BY <1>c, <3>1, Zenon
  <2> QED
    BY Zenon DEF ReaderNext
<1> CASE RunNext
  <2> CASE async_connect
    BY <1>0, Zenon DEF async_connect
  <2> CASE run_all_op_fails
    BY <1>c, Zenon DEF run_all_op_fails
  <2> CASE run_op_starts
    BY <1>s, Zenon DEF run_op_starts
  <2> CASE run_op_completes
    BY <1>0, Zenon DEF run_op_completes
  <2> QED
    BY Zenon DEF RunNext
<1> CASE UserNext
  <2>1. ASSUME NEW e \in Execs, cancel_exec_op(e) PROVE CountInv'
    BY <1>0, <2>1, Zenon DEF cancel_exec_op
  <2> CASE user_cancel_run
    BY <1>c, Zenon DEF user_cancel_run, cancel_run_and_wake
  <2> CASE user_cancel_exec
    BY <1>k, Zenon DEF user_cancel_exec, cancel_unwritten_requests, stop_requests
  <2> CASE user_cancel_receive
    BY <1>0, Zenon DEF user_cancel_receive
  <2> CASE user_cancel_all
    <3> CASE cancel_run_called
      BY <1>k, Zenon DEF user_cancel_all, cancel_unwritten_requests, stop_requests
    <3> CASE ~cancel_run_called
      <4>1. reqs' = Keep(reqs, Execs \ Elements(reqs))
        BY Zenon DEF user_cancel_all, stop_requests
      <4>2. Elements(reqs') = {}
        BY <4>1, KeepQueue, Zenon
      <4> QED
        BY <4>2, Zenon DEF CountInv
    <3> QED
      BY Zenon
  <2> CASE cancel_run_op
    BY <1>0, Zenon DEF cancel_run_op
  <2> CASE async_receive_waits
    BY <1>0, Zenon DEF async_receive_waits
  <2> QED
    BY <2>1, CountJoins, Zenon DEF UserNext
<1> CASE receive \/ server_replies \/ server_pushes \/ server_leaves
  BY <1>0, Zenon DEF receive, server_replies, server_pushes, server_leaves
<1> QED
  BY <1>1, Zenon DEF Next

==============================================================================
