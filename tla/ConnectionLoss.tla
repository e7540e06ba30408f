--------------------------- MODULE ConnectionLoss ----------------------------
(*****************************************************************************)
(* What a lost or cancelled connection leaves in the queue of module         *)
(* Connection: when only waiting requests, when only requests whose          *)
(* async_exec has not completed, and when a HELLO stays in front.  These     *)
(* hold in the environments and for the requests that the theorems name.     *)
(*****************************************************************************)
EXTENDS ConnectionProofs

\* cancel_impl(operation::run) has effect once per run, and leaves only
\* waiting requests on a closed socket; the reader parses on an open one.
ClosedInv ==
    /\ cancel_run_called => Elements(reqs) \subseteq waiting
    /\ run = "up" /\ cancel_run_called => ~open
    /\ run # "up" => rd = "off"
    /\ rd = "parsing" => open

\* cancel_impl(operation::run), called once or again.
LEMMA CancelRunCloses ==
  ASSUME QueueType, ClosedInv, NEW W, cancel_run(W)
  PROVE  /\ cancel_run_called'
         /\ Elements(reqs') \subseteq waiting'
         /\ run = "up" => ~open'
<1>1. CASE cancel_run_called
  BY <1>1, Zenon DEF cancel_run, ClosedInv, waiting
<1>2. CASE ~cancel_run_called
  <2>1. /\ cancel_run_called' = TRUE /\ open' = FALSE
        /\ reqs' = Keep(reqs, Execs \ lost)
        /\ status' = [e \in Execs |-> IF e \in Elements(reqs) \ lost
                                      THEN "waiting" ELSE status[e]]
    BY <1>2, Zenon DEF cancel_run, cancel_on_conn_lost, stop_requests
  <2>2. Elements(reqs') = Elements(reqs) \ lost
    BY <2>1, KeepQueue, Zenon DEF QueueType
  <2>3. Elements(reqs) \subseteq Execs
    BY QueueElements, Zenon DEF QueueType
  <2> QED
    BY <2>1, <2>2, <2>3, Zenon DEF waiting
<1> QED
  BY <1>1, <1>2, Zenon

\* Requests that leave the queue, and calls that join it.
LEMMA ClosedExecSteps ==
  ASSUME Inv, ClosedInv,
         \/ \E e \in Execs, k \in Kinds : async_exec(e, k)
         \/ \E e \in Execs : ExecNext(e) \/ cancel_exec_op(e)
         \/ user_cancel_run \/ user_cancel_exec \/ user_cancel_receive \/ user_cancel_all
  PROVE  ClosedInv'
<1> QueueType /\ ExecType /\ IdleIsFresh /\ Elements(reqs) \subseteq Execs
  BY QueueElements, Zenon DEF Inv, TypeOK, QueueInv, QueueType
<1> USE DEF exec_vars, queue_vars, writer_vars, reader_vars, conn_vars, chan_vars
<1>1. ASSUME NEW e \in Execs, NEW k \in Kinds, async_exec(e, k) PROVE ClosedInv'
  <2>1. UNCHANGED <<status, cancel_run_called, run, open, rd>>
    BY <1>1, Zenon DEF async_exec
  <2>2. Elements(reqs') \subseteq Elements(reqs) \cup {e}
    <3>1. \/ reqs' = reqs
          \/ reqs' = Append(reqs, e)
          \/ reqs' = InsertAfter(reqs, PartitionPoint(reqs, Execs \ waiting), e)
      BY <1>1, Zenon DEF async_exec, add_request_info, hello_point
    <3>   reqs \in Seq(Execs) /\ Ordered(reqs, status)
          /\ status \in [Execs -> {"waiting", "staged", "written"}]
      BY Zenon DEF Inv, TypeOK, QueueType, QueueInv, QueueOrder
    <3>3. Execs \ waiting = {f \in Execs : status[f] # "waiting"}
      BY Zenon DEF waiting
    <3>4. IsPartitioned(reqs, Execs \ waiting)
      BY <3>3, OrderedIsPartitioned, Zenon
    <3> CASE reqs' = InsertAfter(reqs, PartitionPoint(reqs, Execs \ waiting), e)
      BY <3>4, InsertAtPoint
    <3> CASE reqs' = Append(reqs, e)
      BY AppendBefore, Zenon
    <3> QED
      BY <3>1, Zenon
  <2>3. status[e] = "waiting"
    BY <1>1, Zenon DEF IdleIsFresh, async_exec
  <2> QED
    BY <2>1, <2>2, <2>3, Zenon DEF ClosedInv, waiting
<1>2. ASSUME NEW e \in Execs, exec_op_not_connected(e) PROVE ClosedInv'
  BY <1>2, Zenon DEF exec_op_not_connected, ClosedInv, waiting
<1>3. ASSUME NEW e \in Execs, exec_op_completes(e) PROVE ClosedInv'
  BY <1>3, Zenon DEF exec_op_completes, ClosedInv, waiting
<1>4. ASSUME NEW e \in Execs, exec_op_cancelled(e) PROVE ClosedInv'
  <2> CASE e \in waiting
    <3>1. /\ reqs' = Keep(reqs, Execs \ {e})
          /\ UNCHANGED <<status, cancel_run_called, run, open, rd>>
      BY <1>4, Zenon DEF exec_op_cancelled, remove_request
    <3>2. Elements(reqs') = Elements(reqs) \ {e}
      BY <3>1, KeepQueue, Zenon DEF QueueType
    <3> QED
      BY <3>1, <3>2, Zenon DEF ClosedInv, waiting
  <2> CASE e \notin waiting
    <3>1. /\ cancel_run({}) /\ UNCHANGED run /\ rd # "parsing"
          /\ rd' = IF cancel_run_called THEN rd ELSE send_cancelled
      BY <1>4, Zenon DEF exec_op_cancelled, cancel_run_and_wake, ExecutorFree
    <3>2. /\ cancel_run_called' /\ Elements(reqs') \subseteq waiting'
          /\ run = "up" => ~open'
      BY <3>1, CancelRunCloses, Zenon
    <3> QED
      BY <3>1, <3>2, Zenon DEF ClosedInv, send_cancelled
  <2> QED
    BY Zenon
<1>5. ASSUME NEW e \in Execs, cancel_exec_op(e) PROVE ClosedInv'
  BY <1>5, Zenon DEF cancel_exec_op, ClosedInv, waiting
<1> CASE user_cancel_run
  <2>1. /\ cancel_run({}) /\ UNCHANGED run /\ rd # "parsing"
        /\ rd' = IF cancel_run_called THEN rd ELSE send_cancelled
    BY Zenon DEF user_cancel_run, cancel_run_and_wake, ExecutorFree
  <2>2. /\ cancel_run_called' /\ Elements(reqs') \subseteq waiting'
        /\ run = "up" => ~open'
    BY <2>1, CancelRunCloses, Zenon
  <2> QED
    BY <2>1, <2>2, Zenon DEF ClosedInv, send_cancelled
<1> CASE user_cancel_exec
  <2>1. /\ reqs' = Keep(reqs, Execs \ (Elements(reqs) \cap waiting))
        /\ UNCHANGED <<status, cancel_run_called, run, open, rd>>
    BY Zenon DEF user_cancel_exec, cancel_unwritten_requests, stop_requests
  <2>2. Elements(reqs') \subseteq Elements(reqs)
    BY <2>1, KeepQueue, Zenon DEF QueueType
  <2> QED
    BY <2>1, <2>2, Zenon DEF ClosedInv, waiting
<1> CASE user_cancel_receive
  BY Zenon DEF user_cancel_receive, ClosedInv, waiting, send_cancelled
<1> CASE user_cancel_all
  <2>1. /\ cancel_run_called' = TRUE /\ open' = (open /\ cancel_run_called)
        /\ UNCHANGED run /\ rd # "parsing" /\ rd' = send_cancelled
    BY Zenon DEF user_cancel_all, ExecutorFree
  <2>2. Elements(reqs') \subseteq waiting'
    <3> CASE cancel_run_called
      <4>1. /\ reqs' = Keep(reqs, Execs \ (Elements(reqs) \cap waiting))
            /\ UNCHANGED status
        BY Zenon DEF user_cancel_all, cancel_unwritten_requests, stop_requests
      <4>2. Elements(reqs') \subseteq Elements(reqs)
        BY <4>1, KeepQueue, Zenon DEF QueueType
      <4> QED
        BY <4>1, <4>2, Zenon DEF ClosedInv, waiting
    <3> CASE ~cancel_run_called
      <4>1. reqs' = Keep(reqs, Execs \ Elements(reqs))
        BY Zenon DEF user_cancel_all, stop_requests
      <4>2. Elements(reqs') = {}
        BY <4>1, KeepQueue, Zenon DEF QueueType
      <4> QED
        BY <4>2, Zenon
    <3> QED
      BY Zenon
  <2> QED
    BY <2>1, <2>2, Zenon DEF ClosedInv, send_cancelled
<1> QED
  BY <1>1, <1>2, <1>3, <1>4, <1>5, Zenon DEF ExecNext

\* coalesce_requests runs only where cancel_impl(operation::run) has not.
LEMMA ClosedWriterSteps ==
  ASSUME Inv, ClosedInv, WriterNext
  PROVE  ClosedInv'
<1> QueueType /\ WriterInv /\ Elements(reqs) \subseteq Execs
  BY QueueElements, Zenon DEF Inv, TypeOK, QueueType
<1> USE DEF exec_vars, queue_vars, writer_vars, reader_vars, conn_vars, chan_vars
<1> CASE write_some
  BY Zenon DEF write_some, ClosedInv, waiting
<1> CASE async_write_done
  BY Zenon DEF async_write_done, ClosedInv, waiting
<1> CASE writer_op_error
  <2>1. /\ cancel_run({}) /\ UNCHANGED run /\ rd # "parsing" /\ rd' = send_cancelled
    BY Zenon DEF writer_op_error, ExecutorFree, writer_exits
  <2>2. /\ cancel_run_called' /\ Elements(reqs') \subseteq waiting'
        /\ run = "up" => ~open'
    BY <2>1, CancelRunCloses, Zenon
  <2> QED
    BY <2>1, <2>2, Zenon DEF ClosedInv, send_cancelled
<1> CASE writer_op_on_write
  <2> DEFINE q  == Keep(reqs, Execs \ push_requests)
             st == on_write_status(q)
  <2>1. /\ UNCHANGED <<run, open, cancel_run_called>>
        /\ wr = "wrote" /\ rd # "parsing" /\ rd' \in {rd, send_cancelled}
        /\ \/ open
           \/ reqs' = q /\ status' = st
    BY Zenon DEF writer_op_on_write, ExecutorFree, writer_exits
  <2>2. run = "up"
    BY <2>1, Zenon DEF WriterInv
  <2>3. ASSUME cancel_run_called, reqs' = q, status' = st
        PROVE  Elements(reqs') \subseteq waiting'
    <3>1. Elements(q) \subseteq Elements(reqs)
      BY KeepElements DEF QueueType
    <3> HIDE DEF q
    <3>2. \A e \in Execs : status[e] = "waiting" => st[e] = "waiting"
      BY Zenon DEF on_write_status
    <3> QED
      BY <2>3, <3>1, <3>2, Zenon DEF ClosedInv, waiting
  <2> HIDE DEF q, st
  <2> QED
    BY <2>1, <2>2, <2>3, Zenon DEF ClosedInv, send_cancelled
<1> CASE writer_op_woken
  <2>1. /\ UNCHANGED <<run, open, cancel_run_called, rd>> /\ wr = "woken" /\ open
    BY Zenon DEF writer_op_woken
  <2>2. run = "up"
    BY <2>1, Zenon DEF WriterInv
  <2> QED
    BY <2>1, <2>2, Zenon DEF ClosedInv
<1> CASE writer_op_cancelled
  BY Zenon DEF writer_op_cancelled, writer_exits, ClosedInv, waiting, send_cancelled, ExecutorFree
<1> QED
  BY Zenon DEF WriterNext

\* The reader, the channel and the server.
LEMMA ClosedReaderSteps ==
  ASSUME Inv, ClosedInv,
         \/ ReaderNext \/ async_receive_waits \/ receive
         \/ server_replies \/ server_pushes \/ server_leaves
  PROVE  ClosedInv'
<1>t. QueueType /\ Elements(reqs) \subseteq Execs
  BY QueueElements, Zenon DEF Inv, TypeOK, QueueType
<1> USE DEF exec_vars, queue_vars, writer_vars, reader_vars, conn_vars, chan_vars
<1> CASE append_some
  BY Zenon DEF append_some, ClosedInv, waiting
<1> CASE append_some_fails
  BY Zenon DEF append_some_fails, ClosedInv, waiting
<1> CASE reader_op_error
  <2>1. cancel_run({}) /\ UNCHANGED run /\ rd' = "exited" /\ rd # "off"
    BY Zenon DEF reader_op_error, reader_exits
  <2>2. /\ cancel_run_called' /\ Elements(reqs') \subseteq waiting'
        /\ run = "up" => ~open'
    BY <1>t, <2>1, CancelRunCloses, Zenon
  <2> QED
    BY <2>1, <2>2, Zenon DEF ClosedInv
<1> CASE reader_op_resumes
  BY Zenon DEF reader_op_resumes, reader_exits, ClosedInv, waiting
<1> CASE on_read_needs_more
  BY Zenon DEF on_read_needs_more, ClosedInv, waiting
<1> CASE on_read_push
  BY Zenon DEF on_read_push, parsing_message, ClosedInv, waiting
<1> CASE on_read_resp
  <2>1. UNCHANGED <<status, run, open, cancel_run_called, rd>> /\ rd = "parsing"
    BY Zenon DEF on_read_resp, parsing_message
  <2> QED
    BY <2>1, Zenon DEF ClosedInv
<1> CASE on_read_error
  <2>1. /\ \E W : cancel_run(W)
        /\ UNCHANGED run /\ rd' = "exited" /\ rd = "parsing"
    BY Zenon DEF on_read_error, reader_exits, parsing_message
  <2>2. /\ cancel_run_called' /\ Elements(reqs') \subseteq waiting'
        /\ run = "up" => ~open'
    BY <1>t, <2>1, CancelRunCloses, Zenon
  <2> QED
    BY <2>1, <2>2, Zenon DEF ClosedInv
<1> CASE async_receive_waits
  BY Zenon DEF async_receive_waits, ClosedInv, waiting
<1> CASE receive
  BY Zenon DEF receive, ClosedInv, waiting
<1> CASE server_replies
  BY Zenon DEF server_replies, ClosedInv, waiting
<1> CASE server_pushes
  BY Zenon DEF server_pushes, ClosedInv, waiting
<1> CASE server_leaves
  BY Zenon DEF server_leaves, ClosedInv, waiting
<1> QED
  BY Zenon DEF ReaderNext

\* The life of a connection.
LEMMA ClosedRunSteps ==
  ASSUME Inv, ClosedInv, RunNext \/ cancel_run_op
  PROVE  ClosedInv'
<1>t. QueueType /\ WriterInv
  BY Zenon DEF Inv, TypeOK
<1> USE DEF exec_vars, queue_vars, writer_vars, reader_vars, conn_vars, chan_vars
<1> CASE async_connect
  BY Zenon DEF async_connect, ClosedInv, waiting
<1> CASE run_all_op_fails
  <2>1. cancel_run({}) /\ run = "connecting" /\ run' = "off" /\ UNCHANGED rd
    BY Zenon DEF run_all_op_fails
  <2>2. cancel_run_called' /\ Elements(reqs') \subseteq waiting'
    BY <1>t, <2>1, CancelRunCloses, Zenon
  <2> QED
    BY <2>1, <2>2, Zenon DEF ClosedInv
<1> CASE run_op_starts
  BY Zenon DEF run_op_starts, reset, ClosedInv
<1> CASE run_op_completes
  BY Zenon DEF run_op_completes, ClosedInv, waiting
<1> CASE cancel_run_op
  BY Zenon DEF cancel_run_op, ClosedInv, waiting, send_cancelled, ExecutorFree
<1> QED
  BY Zenon DEF RunNext

\* ClosedInv holds in every environment.
LEMMA ClosedInvariance == Spec => []ClosedInv
<1>1. Init => ClosedInv
  BY Zenon DEF Init, ClosedInv
<1>2. Inv /\ ClosedInv /\ [Next]_vars => ClosedInv'
  <2> SUFFICES ASSUME Inv, ClosedInv, [Next]_vars PROVE ClosedInv'
    BY Zenon
  <2>1. CASE UNCHANGED vars
    BY <2>1, Zenon DEF vars, queue_vars, conn_vars, reader_vars, ClosedInv, waiting
  <2>2. CASE Next
    BY <2>2, ClosedExecSteps, ClosedWriterSteps, ClosedReaderSteps, ClosedRunSteps, Zenon
       DEF Next, UserNext
  <2> QED
    BY <2>1, <2>2, Zenon
<1> QED
  BY Invariance, <1>1, <1>2, PTL DEF Spec

-------------------------------------------------------------------------------
(* AllWaitingAtStart.                                                        *)

\* Only coalesce_requests adds to owing.
LEMMA OwingShrinks ==
  ASSUME Inv, Next, ~(writer_op_on_write /\ open), ~writer_op_woken, ~run_op_starts
  PROVE  owing' \subseteq owing
<1> QueueType /\ ExecType /\ IdleIsFresh /\ reqs \in Seq(Execs) /\ Elements(reqs) \subseteq Execs
  BY QueueElements, Zenon DEF Inv, TypeOK, QueueInv, QueueType
<1> USE DEF queue_vars
<1>1. ASSUME UNCHANGED <<reqs, status>> PROVE owing' \subseteq owing
  BY <1>1, Zenon DEF owing, waiting
<1>2. ASSUME NEW S, reqs' = Keep(reqs, Execs \ S), UNCHANGED status
      PROVE  owing' \subseteq owing
  <2>1. Elements(reqs') \subseteq Elements(reqs)
    BY <1>2, KeepQueue, Zenon
  <2> QED
    BY <1>2, <2>1, Zenon DEF owing, waiting
<1>3. ASSUME NEW W, cancel_run(W) PROVE owing' \subseteq owing
  <2> CASE cancel_run_called
    BY <1>1, <1>3, Zenon DEF cancel_run
  <2> CASE ~cancel_run_called
    <3>1. /\ reqs' = Keep(reqs, Execs \ lost)
          /\ status' = [e \in Execs |-> IF e \in Elements(reqs) \ lost
                                        THEN "waiting" ELSE status[e]]
      BY <1>3, Zenon DEF cancel_run, cancel_on_conn_lost, stop_requests
    <3>2. Elements(reqs') = Elements(reqs) \ lost
      BY <3>1, KeepQueue, Zenon
    <3> QED
      BY <3>1, <3>2, Zenon DEF owing, waiting
  <2> QED
    BY Zenon
<1>4. ASSUME NEW e \in Execs, NEW k \in Kinds, async_exec(e, k) PROVE owing' \subseteq owing
  <2>1. UNCHANGED status /\ status[e] = "waiting"
    BY <1>4, Zenon DEF async_exec, IdleIsFresh
  <2>2. Elements(reqs') \subseteq Elements(reqs) \cup {e}
    <3>1. \/ reqs' = reqs
          \/ reqs' = Append(reqs, e)
          \/ reqs' = InsertAfter(reqs, PartitionPoint(reqs, Execs \ waiting), e)
      BY <1>4, Zenon DEF async_exec, add_request_info, hello_point
    <3>2. /\ Ordered(reqs, status)
          /\ status \in [Execs -> {"waiting", "staged", "written"}]
      BY Zenon DEF Inv, TypeOK, QueueType, QueueInv, QueueOrder
    <3>3. Execs \ waiting = {f \in Execs : status[f] # "waiting"}
      BY Zenon DEF waiting
    <3>4. IsPartitioned(reqs, Execs \ waiting)
      BY <3>2, <3>3, OrderedIsPartitioned, Zenon
    <3> CASE reqs' = InsertAfter(reqs, PartitionPoint(reqs, Execs \ waiting), e)
      BY <3>4, InsertAtPoint
    <3> CASE reqs' = Append(reqs, e)
      BY AppendBefore, Zenon
    <3> QED
      BY <3>1, Zenon
  <2> QED
    BY <2>1, <2>2, Zenon DEF owing, waiting
<1>5. ASSUME NEW e \in Execs, ExecNext(e) PROVE owing' \subseteq owing
  <2> CASE exec_op_not_connected(e)
    BY <1>1, Zenon DEF exec_op_not_connected
  <2> CASE exec_op_completes(e)
    BY <1>1, Zenon DEF exec_op_completes
  <2> CASE exec_op_cancelled(e)
    <3>1. \/ reqs' = Keep(reqs, Execs \ {e}) /\ UNCHANGED status
          \/ cancel_run({})
      BY Zenon DEF exec_op_cancelled, remove_request, cancel_run_and_wake
    <3> QED
      BY <1>2, <1>3, <3>1, Zenon
  <2> QED
    BY <1>5, Zenon DEF ExecNext
<1> CASE WriterNext
  <2> CASE write_some
    BY <1>1, Zenon DEF write_some
  <2> CASE async_write_done
    BY <1>1, Zenon DEF async_write_done
  <2> CASE writer_op_error
    BY <1>3, Zenon DEF writer_op_error
  <2> CASE writer_op_on_write
    <3> DEFINE q  == Keep(reqs, Execs \ push_requests)
               st == on_write_status(q)
    <3>1. reqs' = q /\ status' = st
      BY Zenon DEF writer_op_on_write
    <3>2. Elements(q) \subseteq Elements(reqs)
      BY KeepElements
    <3> HIDE DEF q
    <3>3. \A e \in Execs : st[e] = "waiting" <=> status[e] = "waiting"
      BY Zenon DEF on_write_status
    <3> QED
      BY <3>1, <3>2, <3>3, Zenon DEF owing, waiting
  <2> CASE writer_op_cancelled
    BY <1>1, Zenon DEF writer_op_cancelled
  <2> QED
    BY Zenon DEF WriterNext
<1> CASE ReaderNext
  <2> CASE append_some
    BY <1>1, Zenon DEF append_some
  <2> CASE append_some_fails
    BY <1>1, Zenon DEF append_some_fails
  <2> CASE reader_op_error
    BY <1>3, Zenon DEF reader_op_error
  <2> CASE reader_op_resumes
    BY <1>1, Zenon DEF reader_op_resumes
  <2> CASE on_read_needs_more
    BY <1>1, Zenon DEF on_read_needs_more
  <2> CASE on_read_push
    BY <1>1, Zenon DEF on_read_push
  <2> CASE on_read_resp
    <3>1. UNCHANGED status /\ (reqs' = reqs \/ (reqs # <<>> /\ reqs' = Tail(reqs)))
      BY Zenon DEF on_read_resp, is_next_push, is_waiting_response
    <3>2. Elements(reqs') \subseteq Elements(reqs)
      BY <3>1, TailBefore, Zenon
    <3> QED
      BY <3>1, <3>2, Zenon DEF owing, waiting
  <2> CASE on_read_error
    <3>1. \E W : cancel_run(W)
      BY Zenon DEF on_read_error
    <3> QED
      BY <1>3, <3>1, Zenon
  <2> QED
    BY Zenon DEF ReaderNext
<1> CASE RunNext
  <2> CASE async_connect
    BY <1>1, Zenon DEF async_connect
  <2> CASE run_all_op_fails
    BY <1>3, Zenon DEF run_all_op_fails
  <2> CASE run_op_completes
    BY <1>1, Zenon DEF run_op_completes
  <2> QED
    BY Zenon DEF RunNext
<1> CASE UserNext
  <2>1. ASSUME NEW e \in Execs, cancel_exec_op(e) PROVE owing' \subseteq owing
    BY <1>1, <2>1, Zenon DEF cancel_exec_op
  <2> CASE user_cancel_run
    BY <1>3, Zenon DEF user_cancel_run, cancel_run_and_wake
  <2> CASE user_cancel_exec
    BY <1>2, Zenon DEF user_cancel_exec, cancel_unwritten_requests, stop_requests
  <2> CASE user_cancel_receive
    BY <1>1, Zenon DEF user_cancel_receive
  <2> CASE user_cancel_all
    <3> CASE cancel_run_called
      BY <1>2, Zenon DEF user_cancel_all, cancel_unwritten_requests, stop_requests
    <3> CASE ~cancel_run_called
      <4>1. reqs' = Keep(reqs, Execs \ Elements(reqs))
        BY Zenon DEF user_cancel_all, stop_requests
      <4>2. Elements(reqs') = {}
        BY <4>1, KeepQueue, Zenon
      <4> QED
        BY <4>2, Zenon DEF owing
    <3> QED
      BY Zenon
  <2> CASE cancel_run_op
    BY <1>1, Zenon DEF cancel_run_op
  <2> CASE async_receive_waits
    BY <1>1, Zenon DEF async_receive_waits
  <2> QED
    BY <1>4, <2>1, Zenon DEF UserNext
<1> CASE receive \/ server_replies \/ server_pushes \/ server_leaves
  BY <1>1, Zenon DEF receive, server_replies, server_pushes, server_leaves
<1> QED
  BY <1>5, Zenon DEF Next

\* Reader and writer end only after cancel_impl(operation::run): an operation
\* of the group is cancelled by the other one's end alone, and finds the socket
\* closed only when it has been closed since the run started.
EndInv ==
    /\ run # "up" => ~rd_cancelled /\ ~wr_cancelled
    /\ run = "up" /\ ~cancel_run_called =>
          /\ wr # "exited" /\ rd # "exited" /\ ~wr_cancelled /\ ~rd_cancelled
          /\ ~open => /\ wr \notin {"wrote", "woken"}
                      /\ rd \notin {"read", "sending", "sent", "send_err"}

\* Steps that call cancel_impl(operation::run) leave nothing to show.
LEMMA EndByCancelRun ==
  ASSUME EndInv, run' = "up" => cancel_run_called',
         run' # "up" => run # "up" /\ UNCHANGED <<rd_cancelled, wr_cancelled>>
  PROVE  EndInv'
BY DEF EndInv

\* Every step but the terminal cancellation of async_run keeps EndInv.
LEMMA EndStep ==
  ASSUME Inv, ClosedInv, EndInv, Next, "cancel_run_op" \notin Env
  PROVE  EndInv'
<1> QueueType /\ WriterInv
  BY Zenon DEF Inv, TypeOK
<1> USE DEF exec_vars, queue_vars, writer_vars, reader_vars, conn_vars, chan_vars
<1>c. ASSUME NEW W, cancel_run(W) PROVE cancel_run_called'
  BY <1>c, CancelRunCloses, Zenon
<1>1. ASSUME NEW e \in Execs, NEW k \in Kinds, async_exec(e, k) PROVE EndInv'
  BY <1>1, Zenon DEF EndInv, async_exec, add_request_info, timer_cancelled
<1>2. ASSUME NEW e \in Execs, ExecNext(e) PROVE EndInv'
  <2> CASE exec_op_not_connected(e)
    BY Zenon DEF EndInv, exec_op_not_connected
  <2> CASE exec_op_completes(e)
    BY Zenon DEF EndInv, exec_op_completes
  <2> CASE exec_op_cancelled(e)
    <3> CASE e \in waiting
      BY Zenon DEF EndInv, exec_op_cancelled
    <3> CASE e \notin waiting
      BY <1>c, EndByCancelRun, Zenon DEF exec_op_cancelled, cancel_run_and_wake
    <3> QED
      BY Zenon
  <2> QED
    BY <1>2, Zenon DEF ExecNext
<1> CASE WriterNext
  <2> CASE write_some
    BY Zenon DEF EndInv, write_some
  <2> CASE async_write_done
    BY Zenon DEF EndInv, async_write_done
  <2> CASE writer_op_error
    <3>1. run = "up"
      BY Zenon DEF WriterInv, writer_op_error
    <3> QED
      BY <1>c, <3>1, EndByCancelRun, Zenon DEF writer_op_error
  <2> CASE writer_op_on_write
    <3> DEFINE q  == Keep(reqs, Execs \ push_requests)
               st == on_write_status(q)
    <3>1. /\ wr = "wrote" /\ UNCHANGED <<wr_cancelled, run, open, cancel_run_called>>
          /\ \/ coalesce_requests(q, st, <<>>) /\ UNCHANGED <<rd, rd_cancelled>>
             \/ ~open
      BY Zenon DEF writer_op_on_write
    <3>2. run = "up"
      BY <3>1, Zenon DEF WriterInv
    <3>3. coalesce_requests(q, st, <<>>) => wr' \in {"writing", "timer"}
      BY Zenon DEF coalesce_requests
    <3> HIDE DEF q, st
    <3> QED
      BY <3>1, <3>2, <3>3 DEF EndInv
  <2> CASE writer_op_woken
    <3>1. UNCHANGED <<wr_cancelled, run, open, cancel_run_called, rd, rd_cancelled>>
      BY Zenon DEF writer_op_woken
    <3>2. wr' \in {"writing", "timer"}
      BY Zenon DEF writer_op_woken, coalesce_requests
    <3> QED
      BY <3>1, <3>2, Zenon DEF EndInv
  <2> CASE writer_op_cancelled
    <3>1. run = "up" /\ cancel_run_called /\ UNCHANGED <<run, cancel_run_called>>
      BY Zenon DEF WriterInv, EndInv, writer_op_cancelled
    <3> QED
      BY <3>1, Zenon DEF EndInv
  <2> QED
    BY Zenon DEF WriterNext
<1> CASE ReaderNext
  <2> run = "up"
    BY Zenon DEF ClosedInv, ReaderNext, append_some, append_some_fails, reader_op_error,
       reader_op_resumes, on_read_needs_more, on_read_push, on_read_resp, on_read_error,
       parsing_message
  <2> CASE append_some
    BY Zenon DEF EndInv, append_some
  <2> CASE append_some_fails
    BY Zenon DEF EndInv, append_some_fails
  <2> CASE reader_op_error
    BY <1>c, EndByCancelRun, Zenon DEF reader_op_error
  <2> CASE reader_op_resumes
    <3> CASE open /\ ~rd_cancelled
      BY Zenon DEF EndInv, reader_op_resumes
    <3> CASE ~open \/ rd_cancelled
      <4>1. cancel_run_called /\ UNCHANGED <<run, cancel_run_called>>
        BY Zenon DEF EndInv, reader_op_resumes
      <4> QED
        BY <4>1, Zenon DEF EndInv
    <3> QED
      BY Zenon
  <2> CASE on_read_needs_more
    BY Zenon DEF EndInv, on_read_needs_more
  <2> CASE on_read_push
    BY Zenon DEF EndInv, on_read_push, parsing_message, ClosedInv
  <2> CASE on_read_resp
    BY Zenon DEF EndInv, on_read_resp
  <2> CASE on_read_error
    <3>1. (\E W : cancel_run(W)) /\ UNCHANGED run
      BY Zenon DEF on_read_error
    <3> QED
      BY <1>c, <3>1, EndByCancelRun, Zenon
  <2> QED
    BY Zenon DEF ReaderNext
<1> CASE RunNext
  <2> CASE async_connect
    BY Zenon DEF EndInv, async_connect
  <2> CASE run_all_op_fails
    BY Zenon DEF EndInv, run_all_op_fails
  <2> CASE run_op_starts
    <3>1. rd' = "reading" /\ wr' \in {"writing", "timer"} /\ run = "connecting"
          /\ UNCHANGED <<rd_cancelled, wr_cancelled>>
      BY Zenon DEF run_op_starts, coalesce_requests
    <3> QED
      BY <3>1, Zenon DEF EndInv
  <2> CASE run_op_completes
    BY Zenon DEF EndInv, run_op_completes
  <2> QED
    BY Zenon DEF RunNext
<1> CASE UserNext
  <2>1. ASSUME NEW e \in Execs, cancel_exec_op(e) PROVE EndInv'
    BY <2>1, Zenon DEF EndInv, cancel_exec_op
  <2> CASE user_cancel_run
    BY <1>c, EndByCancelRun, Zenon DEF user_cancel_run, cancel_run_and_wake
  <2> CASE user_cancel_exec
    BY Zenon DEF EndInv, user_cancel_exec
  <2> CASE user_cancel_receive
    BY Zenon DEF EndInv, user_cancel_receive, send_cancelled
  <2> CASE user_cancel_all
    BY EndByCancelRun, Zenon DEF user_cancel_all
  <2> CASE cancel_run_op
    BY Zenon DEF cancel_run_op
  <2> CASE async_receive_waits
    BY Zenon DEF EndInv, async_receive_waits
  <2> QED
    BY <1>1, <2>1, Zenon DEF UserNext
<1> CASE receive
  BY Zenon DEF EndInv, receive
<1> CASE server_replies \/ server_pushes \/ server_leaves
  BY DEF EndInv, server_replies, server_pushes, server_leaves
<1> QED
  BY <1>2, Zenon DEF Next

\* The invariant of the runs that are not cancelled through their operation.
LEMMA EndInvariance ==
  ASSUME "cancel_run_op" \notin Env
  PROVE  Spec => [](EndInv /\ AllWaitingAtStart)
<1>1. Init => EndInv /\ AllWaitingAtStart
  BY DEF Init, EndInv, AllWaitingAtStart, Elements
<1>2. Inv /\ ClosedInv /\ EndInv /\ AllWaitingAtStart /\ [Next]_vars
      => (EndInv /\ AllWaitingAtStart)'
  <2> SUFFICES ASSUME Inv, ClosedInv, EndInv, AllWaitingAtStart, [Next]_vars
               PROVE  EndInv' /\ AllWaitingAtStart'
    BY Zenon
  <2> CASE UNCHANGED vars
    BY Zenon DEF vars, queue_vars, conn_vars, reader_vars, writer_vars, EndInv,
                AllWaitingAtStart, waiting
  <2> CASE Next
    <3>1. EndInv'
      BY EndStep, Zenon
    <3>2. AllWaitingAtStart'
      <4> CASE writer_op_on_write \/ writer_op_woken \/ run_op_starts
        <5>1. run' = "up"
          BY Zenon DEF Inv, WriterInv, writer_op_on_write, writer_op_woken, run_op_starts,
             conn_vars
        <5> QED
          BY <5>1, Zenon DEF AllWaitingAtStart
      <4> CASE ~(writer_op_on_write \/ writer_op_woken \/ run_op_starts)
        <5>1. owing' \subseteq owing
          BY OwingShrinks, Zenon
        <5> CASE run # "up"
          BY <5>1, Zenon DEF AllWaitingAtStart, owing
        <5> CASE run = "up" /\ run' # "up"
          <6>1. run_op_completes
            <7>1. UNCHANGED run \/ RunNext
              BY Zenon DEF Next, ExecNext, WriterNext, ReaderNext, UserNext, conn_vars,
                 exec_op_not_connected, exec_op_completes, exec_op_cancelled, write_some,
                 async_write_done, writer_op_error, writer_op_cancelled, append_some,
                 append_some_fails, reader_op_error, reader_op_resumes, on_read_needs_more,
                 on_read_push, on_read_resp, on_read_error, async_exec, cancel_exec_op,
                 user_cancel_run, user_cancel_exec, user_cancel_receive, user_cancel_all,
                 cancel_run_op, async_receive_waits, receive, server_replies,
                 server_pushes, server_leaves
            <7> QED
              BY <7>1, Zenon DEF RunNext, async_connect, run_all_op_fails, run_op_starts
          <6>2. rd = "exited"
            BY <6>1, Zenon DEF run_op_completes
          <6>3. cancel_run_called
            BY <6>2, Zenon DEF EndInv
          <6> QED
            BY <5>1, <6>3, Zenon DEF ClosedInv, AllWaitingAtStart, owing
        <5> QED
          BY Zenon DEF AllWaitingAtStart
      <4> QED
        BY Zenon
    <3> QED
      BY <3>1, <3>2, Zenon
  <2> QED
    BY Zenon
<1> QED
  BY Invariance, ClosedInvariance, <1>1, <1>2, PTL DEF Spec

\* Unless async_run itself is cancelled through its operation, a run leaves
\* no staged or written request behind, whoever ended it and wherever reader
\* and writer were suspended: when run_op starts again, every request is
\* waiting to be written.
THEOREM RunsStartWithWaitingRequests ==
  ASSUME "cancel_run_op" \notin Env
  PROVE  Spec => []AllWaitingAtStart
BY EndInvariance, PTL

-------------------------------------------------------------------------------
(* QueuedAreLive.                                                            *)

\* A request that is rejected or cancelled on its way does not stay in the
\* queue: cancel_on_conn_lost drops it, or these two events do not happen.
AbandonedAreDropped ==
    \/ \A k \in Kinds : k.cancel_if_unresponded
    \/ Env \cap {"adapter_error", "cancel_exec_op"} = {}

\* Nothing but a terminal cancellation completes the wait of a queued exec.
LiveInv ==
    /\ QueuedAreLive
    /\ \A e \in Elements(reqs) : /\ e \notin failed /\ e \notin stopped
                                 /\ e \in notified => e \in cancelled
    /\ \A e \in Execs : op[e] = "idle" => /\ e \notin notified /\ e \notin failed
                                          /\ e \notin cancelled
    /\ "cancel_exec_op" \notin Env => cancelled = {}

\* A step that adds no request, wakes only those that leave the queue and
\* completes none that stays.
LEMMA LiveFrame ==
  ASSUME LiveInv, Elements(reqs) \subseteq Execs, IdleIsFresh,
         Elements(reqs') \subseteq Elements(reqs), UNCHANGED cancelled,
         \A e \in Elements(reqs') : /\ op'[e] = op[e]
                                    /\ e \in failed' \cup stopped' => e \in failed \cup stopped
                                    /\ e \in notified' => e \in notified,
         \A e \in Execs : /\ op'[e] = "idle" => op[e] = "idle"
                          /\ e \in notified' => e \in notified \cup Elements(reqs)
                          /\ e \in failed' => e \in failed \cup Elements(reqs)
  PROVE  LiveInv'
BY Zenon DEF LiveInv, QueuedAreLive, IdleIsFresh

\* cancel_impl(operation::run) in a step that completes or rejects none but
\* requests that it removes.
LEMMA CancelRunKeepsLive ==
  ASSUME Inv, LiveInv, NEW W \in SUBSET lost, cancel_run(W), W = {} \/ ~cancel_run_called,
         UNCHANGED cancelled,
         \A e \in Elements(reqs) \ lost : op'[e] = op[e] /\ (e \in failed' => e \in failed),
         cancel_run_called => \A e \in Elements(reqs) : op'[e] = op[e]
                                                        /\ (e \in failed' => e \in failed),
         \A e \in Execs : /\ op'[e] = "idle" => op[e] = "idle"
                          /\ e \in failed' => e \in failed \cup Elements(reqs)
  PROVE  LiveInv'
<1>   /\ IdleIsFresh /\ reqs \in Seq(Execs) /\ Elements(reqs) \subseteq Execs
      /\ lost \subseteq Elements(reqs)
  BY QueueElements, Zenon DEF Inv, TypeOK, QueueInv, QueueType, lost
<1>1. CASE cancel_run_called
  <2>1. UNCHANGED <<reqs, stopped>> /\ notified' = notified
    BY <1>1, Zenon DEF cancel_run
  <2> QED
    BY <1>1, <2>1, LiveFrame, Zenon
<1>2. CASE ~cancel_run_called
  <2>1. /\ reqs' = Keep(reqs, Execs \ lost)
        /\ stopped' = stopped \cup lost /\ notified' = notified \cup lost
    BY <1>2, Zenon DEF cancel_run, cancel_on_conn_lost, stop_requests
  <2>2. Elements(reqs') = Elements(reqs) \ lost
    BY <2>1, KeepQueue, Zenon
  <2> QED
    BY <2>1, <2>2, LiveFrame, Zenon
<1> QED
  BY <1>1, <1>2, Zenon

\* Removing requests as cancel_unwritten_requests does.
LEMMA StopKeepsLive ==
  ASSUME Inv, LiveInv, NEW S \in SUBSET Elements(reqs), stop_requests(S, {}),
         UNCHANGED exec_vars
  PROVE  LiveInv'
<1>t. IdleIsFresh /\ reqs \in Seq(Execs) /\ Elements(reqs) \subseteq Execs
  BY QueueElements, Zenon DEF Inv, TypeOK, QueueInv, QueueType
<1>1. /\ reqs' = Keep(reqs, Execs \ S)
      /\ stopped' = stopped \cup S /\ notified' = notified \cup S
  BY Zenon DEF stop_requests
<1>2. Elements(reqs') = Elements(reqs) \ S
  BY <1>t, <1>1, KeepQueue, Zenon
<1> QED
  BY <1>t, <1>1, <1>2, LiveFrame, Zenon DEF exec_vars

\* exec_op, called and resumed.
LEMMA LiveExecSteps ==
  ASSUME Inv, ClosedInv, LiveInv, AbandonedAreDropped,
         \/ \E e \in Execs, k \in Kinds : async_exec(e, k)
         \/ \E e \in Execs : ExecNext(e) \/ cancel_exec_op(e)
  PROVE  LiveInv'
<1>   /\ IdleIsFresh /\ reqs \in Seq(Execs) /\ Elements(reqs) \subseteq Execs
      /\ op \in [Execs -> {"idle", "posted", "waiting"} \cup Results]
      /\ req \in [Execs -> Kinds]
  BY QueueElements, Zenon DEF Inv, TypeOK, QueueInv, QueueType, ExecType
<1> USE DEF exec_vars, queue_vars
<1>1. ASSUME NEW e \in Execs, NEW k \in Kinds, async_exec(e, k) PROVE LiveInv'
  <2>   /\ op[e] = "idle" /\ UNCHANGED <<notified, stopped, failed, cancelled>>
        /\ \A f \in Execs : f # e => op'[f] = op[f]
        /\ op'[e] # "idle"
    BY <1>1, Zenon DEF async_exec
  <2>2. \/ reqs' = reqs
        \/ op'[e] = "waiting" /\ Elements(reqs') = Elements(reqs) \cup {e}
    <3>1. \/ reqs' = reqs
          \/ /\ op'[e] = "waiting"
             /\ \/ reqs' = Append(reqs, e)
                \/ reqs' = InsertAfter(reqs, PartitionPoint(reqs, Execs \ waiting), e)
      BY <1>1, Zenon DEF async_exec, add_request_info, hello_point
    <3>2. /\ Ordered(reqs, status)
          /\ status \in [Execs -> {"waiting", "staged", "written"}]
      BY Zenon DEF Inv, TypeOK, QueueType, QueueInv, QueueOrder
    <3>3. Execs \ waiting = {f \in Execs : status[f] # "waiting"}
      BY Zenon DEF waiting
    <3>4. IsPartitioned(reqs, Execs \ waiting)
      BY <3>2, <3>3, OrderedIsPartitioned
    <3>5. reqs' = InsertAfter(reqs, PartitionPoint(reqs, Execs \ waiting), e)
          => Elements(reqs') = Elements(reqs) \cup {e}
      BY <3>4, InsertAtPoint
    <3>6. reqs' = Append(reqs, e) => Elements(reqs') = Elements(reqs) \cup {e}
      BY AppendBefore
    <3> QED
      BY <3>1, <3>5, <3>6, Zenon
  <2>3. e \notin Elements(reqs) /\ e \notin stopped
        /\ e \notin notified /\ e \notin failed /\ e \notin cancelled
    BY Zenon DEF IdleIsFresh, LiveInv
  <2>4. \A f \in Elements(reqs') : f \in Execs /\ (f \in Elements(reqs) \/ f = e)
    BY <2>2
  <2>5. QueuedAreLive'
    <3>1. \A f \in Elements(reqs) : f \in Execs /\ f # e /\ op'[f] = "waiting"
      BY <2>3, Zenon DEF LiveInv, QueuedAreLive
    <3> QED
      BY <2>2, <3>1 DEF QueuedAreLive
  <2>6. \A f \in Elements(reqs') : /\ f \notin failed' /\ f \notin stopped'
                                   /\ f \in notified' => f \in cancelled'
    BY <2>3, <2>4, Zenon DEF LiveInv
  <2>7. \A f \in Execs : op'[f] = "idle" => /\ f \notin notified' /\ f \notin failed'
                                            /\ f \notin cancelled'
    BY Zenon DEF LiveInv
  <2>8. "cancel_exec_op" \notin Env => cancelled' = {}
    BY Zenon DEF LiveInv
  <2> QED
    BY <2>5, <2>6, <2>7, <2>8, Zenon DEF LiveInv
<1>2. ASSUME NEW e \in Execs, exec_op_not_connected(e) PROVE LiveInv'
  <2>1. /\ op[e] = "posted" /\ op' = [op EXCEPT ![e] = "not_connected"]
        /\ UNCHANGED <<reqs, notified, stopped, failed, cancelled>>
    BY <1>2, Zenon DEF exec_op_not_connected
  <2>2. \A f \in Elements(reqs) : f # e
    BY <2>1, Zenon DEF LiveInv, QueuedAreLive
  <2> QED
    BY <2>1, <2>2, LiveFrame, Zenon
<1>3. ASSUME NEW e \in Execs, exec_op_completes(e) PROVE LiveInv'
  <2>1. /\ e \in notified /\ (e \in failed \/ e \in stopped \/ e \notin cancelled)
        /\ UNCHANGED <<reqs, notified, stopped, failed, cancelled>>
        /\ \E r \in Results : op' = [op EXCEPT ![e] = r]
    BY <1>3, Zenon DEF exec_op_completes, complete, Results
  <2>2. \A f \in Elements(reqs) : f # e
    BY <2>1, Zenon DEF LiveInv
  <2>3. "idle" \notin Results
    BY Zenon DEF Results
  <2> QED
    BY <2>1, <2>2, <2>3, LiveFrame, Zenon
<1>4. ASSUME NEW e \in Execs, exec_op_cancelled(e) PROVE LiveInv'
  <2>   /\ op' = [op EXCEPT ![e] = "aborted"] /\ e \in cancelled
        /\ UNCHANGED <<failed, cancelled>>
    BY <1>4, Zenon DEF exec_op_cancelled, complete
  <2>2. CASE e \in waiting
    <3>1. reqs' = Keep(reqs, Execs \ {e}) /\ UNCHANGED <<notified, stopped>>
      BY <1>4, <2>2, Zenon DEF exec_op_cancelled, remove_request
    <3>2. Elements(reqs') = Elements(reqs) \ {e}
      BY <3>1, KeepQueue, Zenon
    <3> QED
      BY <3>1, <3>2, LiveFrame, Zenon
  <2>3. CASE e \notin waiting
    <3>1. cancel_run({})
      BY <1>4, <2>3, Zenon DEF exec_op_cancelled, cancel_run_and_wake
    <3>2. req[e].cancel_if_unresponded
      BY Zenon DEF LiveInv, AbandonedAreDropped
    <3>3. e \in Elements(reqs) => e \in lost /\ ~cancel_run_called
      BY <2>3, <3>2, Zenon DEF lost, ClosedInv
    <3>4. /\ \A f \in Elements(reqs) \ lost : op'[f] = op[f]
          /\ cancel_run_called => \A f \in Elements(reqs) : op'[f] = op[f]
      BY <3>3, Zenon
    <3>5. \A f \in Execs : op'[f] = "idle" => op[f] = "idle"
      BY Zenon
    <3> QED
      BY <3>1, <3>4, <3>5, CancelRunKeepsLive, Zenon
  <2> QED
    BY <2>2, <2>3, Zenon
<1>5. ASSUME NEW e \in Execs, cancel_exec_op(e) PROVE LiveInv'
  <2>1. /\ "cancel_exec_op" \in Env /\ op[e] = "waiting"
        /\ cancelled' = cancelled \cup {e} /\ notified' = notified \cup {e}
        /\ UNCHANGED <<op, failed, reqs, stopped>>
    BY <1>5, Zenon DEF cancel_exec_op
  <2> QED
    BY <2>1, Zenon DEF LiveInv, QueuedAreLive
<1> QED
  BY <1>1, <1>2, <1>3, <1>4, <1>5, Zenon DEF ExecNext

\* on_write completes the requests that it removes.
LEMMA LiveOnWrite ==
  ASSUME Inv, LiveInv, writer_op_on_write
  PROVE  LiveInv'
<1>t. /\ IdleIsFresh /\ reqs \in Seq(Execs) /\ Elements(reqs) \subseteq Execs
      /\ push_requests \subseteq Elements(reqs)
  BY QueueElements, Zenon DEF Inv, TypeOK, QueueInv, QueueType, push_requests
<1>1. /\ notified' = notified \cup push_requests
      /\ UNCHANGED <<op, failed, cancelled, stopped>>
  BY Zenon DEF writer_op_on_write, exec_vars
<1>2. reqs' = Keep(reqs, Execs \ push_requests)
  BY Zenon DEF writer_op_on_write, coalesce_requests
<1>3. Elements(reqs') = Elements(reqs) \ push_requests
  BY <1>t, <1>2, KeepQueue, Zenon
<1> QED
  BY <1>t, <1>1, <1>3, LiveFrame, Zenon

\* The reader's steps: the adapter rejects a request that is not waiting.
LEMMA LiveReaderSteps ==
  ASSUME Inv, ClosedInv, LiveInv, AbandonedAreDropped, ReaderNext
  PROVE  LiveInv'
<1>   /\ IdleIsFresh /\ reqs \in Seq(Execs) /\ Elements(reqs) \subseteq Execs /\ QueueOrder
      /\ req \in [Execs -> Kinds]
  BY QueueElements, Zenon DEF Inv, TypeOK, QueueInv, QueueType, ExecType
<1> USE DEF exec_vars, queue_vars
<1>0. ASSUME UNCHANGED <<op, failed, cancelled, reqs, notified, stopped>> PROVE LiveInv'
  BY <1>0, LiveFrame, Zenon
<1> CASE append_some
  BY <1>0, Zenon DEF append_some
<1> CASE append_some_fails
  BY <1>0, Zenon DEF append_some_fails
<1> CASE reader_op_error
  <2>1. cancel_run({}) /\ UNCHANGED <<op, failed, cancelled>>
    BY Zenon DEF reader_op_error
  <2> QED
    BY <2>1, CancelRunKeepsLive, Zenon
<1> CASE reader_op_resumes
  BY <1>0, Zenon DEF reader_op_resumes
<1> CASE on_read_needs_more
  BY <1>0, Zenon DEF on_read_needs_more
<1> CASE on_read_push
  BY <1>0, Zenon DEF on_read_push
<1> CASE on_read_resp
  <2>   /\ UNCHANGED <<op, failed, cancelled, stopped>> /\ reqs # <<>>
        /\ \/ UNCHANGED <<reqs, notified>>
           \/ reqs' = Tail(reqs) /\ notified' = notified \cup {Head(reqs)}
    BY Zenon DEF on_read_resp, is_next_push, is_waiting_response
  <2>2. Head(reqs) \in Elements(reqs) /\ Elements(Tail(reqs)) = Elements(reqs) \ {Head(reqs)}
    BY TailElements, Zenon
  <2> CASE UNCHANGED <<reqs, notified>>
    BY <1>0, Zenon
  <2> CASE reqs' = Tail(reqs) /\ notified' = notified \cup {Head(reqs)}
    BY <2>2, LiveFrame, Zenon
  <2> QED
    BY Zenon
<1> CASE on_read_error
  <2> DEFINE W == IF on_push \/ is_next_push THEN {} ELSE {Head(reqs)}
  <2>   /\ "adapter_error" \in Env /\ failed' = failed \cup W /\ cancel_run(W)
        /\ rd = "parsing" /\ UNCHANGED <<op, cancelled>>
    BY Zenon DEF on_read_error, parsing_message
  <2>2. ~cancel_run_called
    <3>1. run = "up" /\ open
      BY Zenon DEF ClosedInv
    <3> QED
      BY <3>1, Zenon DEF ClosedInv
  <2>3. W \in SUBSET lost
    <3> SUFFICES ASSUME ~(on_push \/ is_next_push) PROVE Head(reqs) \in lost
      BY Zenon
    <3>1. reqs # <<>> /\ Head(reqs) \notin waiting
      BY Zenon DEF is_next_push, is_waiting_response
    <3>2. Head(reqs) \in Elements(reqs)
      BY <3>1, TailElements, Zenon
    <3>3. req[Head(reqs)].cancel_if_unresponded
      BY <3>2, Zenon DEF AbandonedAreDropped
    <3> QED
      BY <3>1, <3>2, <3>3, Zenon DEF lost
  <2>4. lost \subseteq Elements(reqs)
    BY Zenon DEF lost
  <2> HIDE DEF W
  <2> QED
    BY <2>2, <2>3, <2>4, CancelRunKeepsLive, Zenon
<1> QED
  BY Zenon DEF ReaderNext

\* The other steps.
LEMMA LiveOtherSteps ==
  ASSUME Inv, LiveInv,
         \/ write_some \/ async_write_done \/ writer_op_error \/ writer_op_woken
         \/ writer_op_cancelled \/ RunNext
         \/ user_cancel_run \/ user_cancel_exec \/ user_cancel_receive \/ user_cancel_all
         \/ cancel_run_op \/ async_receive_waits \/ receive
         \/ server_replies \/ server_pushes \/ server_leaves
  PROVE  LiveInv'
<1>t. IdleIsFresh /\ reqs \in Seq(Execs) /\ Elements(reqs) \subseteq Execs
  BY QueueElements, Zenon DEF Inv, TypeOK, QueueInv, QueueType
<1> USE DEF exec_vars, queue_vars
<1>0. ASSUME UNCHANGED <<op, failed, cancelled, reqs, notified, stopped>> PROVE LiveInv'
  BY <1>t, <1>0, LiveFrame, Zenon
<1>c. ASSUME cancel_run({}), UNCHANGED <<op, failed, cancelled>> PROVE LiveInv'
  BY <1>c, CancelRunKeepsLive, Zenon
<1> CASE write_some
  BY <1>0, Zenon DEF write_some
<1> CASE async_write_done
  BY <1>0, Zenon DEF async_write_done
<1> CASE writer_op_error
  BY <1>c, Zenon DEF writer_op_error
<1> CASE writer_op_woken
  BY <1>0, Zenon DEF writer_op_woken, coalesce_requests
<1> CASE writer_op_cancelled
  BY <1>0, Zenon DEF writer_op_cancelled
<1> CASE RunNext
  <2> CASE async_connect
    BY <1>0, Zenon DEF async_connect
  <2> CASE run_all_op_fails
    BY <1>c, Zenon DEF run_all_op_fails
  <2> CASE run_op_starts
    BY <1>0, Zenon DEF run_op_starts, coalesce_requests
  <2> CASE run_op_completes
    BY <1>0, Zenon DEF run_op_completes
  <2> QED
    BY Zenon DEF RunNext
<1> CASE user_cancel_run
  BY <1>c, Zenon DEF user_cancel_run, cancel_run_and_wake
<1> CASE user_cancel_exec
  BY StopKeepsLive, Zenon DEF user_cancel_exec, cancel_unwritten_requests
<1> CASE user_cancel_receive
  BY <1>0, Zenon DEF user_cancel_receive
<1> CASE user_cancel_all
  <2>1. \E S \in SUBSET Elements(reqs) : stop_requests(S, {})
    BY Zenon DEF user_cancel_all, cancel_unwritten_requests
  <2> QED
    BY <2>1, StopKeepsLive, Zenon DEF user_cancel_all
<1> CASE cancel_run_op
  BY <1>0, Zenon DEF cancel_run_op
<1> CASE async_receive_waits
  BY <1>0, Zenon DEF async_receive_waits
<1> CASE receive
  BY <1>0, Zenon DEF receive
<1> CASE server_replies \/ server_pushes \/ server_leaves
  BY <1>0, Zenon DEF server_replies, server_pushes, server_leaves
<1> QED
  BY Zenon

\* LiveInv is invariant.
LEMMA LiveInvariance ==
  ASSUME AbandonedAreDropped
  PROVE  Spec => []LiveInv
<1>1. Init => LiveInv
  BY DEF Init, LiveInv, QueuedAreLive, Elements
<1>2. Inv /\ ClosedInv /\ LiveInv /\ [Next]_vars => LiveInv'
  <2> SUFFICES ASSUME Inv, ClosedInv, LiveInv, [Next]_vars PROVE LiveInv'
    BY Zenon
  <2>1. CASE UNCHANGED vars
    BY <2>1, Zenon DEF vars, exec_vars, queue_vars, LiveInv, QueuedAreLive
  <2>2. CASE Next
    BY <2>2, LiveExecSteps, LiveOnWrite, LiveReaderSteps, LiveOtherSteps, Zenon
       DEF Next, WriterNext, UserNext
  <2> QED
    BY <2>1, <2>2, Zenon
<1> QED
  BY Invariance, ClosedInvariance, <1>1, <1>2, PTL DEF Spec

\* With AbandonedAreDropped, every request in the queue belongs to an
\* async_exec that has not completed, in every environment: no path through
\* cancellation, loss, rejection or completion leaves a pointer to a finished
\* call behind.
THEOREM QueuedRequestsAreLive ==
  ASSUME AbandonedAreDropped
  PROVE  Spec => []QueuedAreLive
<1>1. LiveInv => QueuedAreLive
  BY Zenon DEF LiveInv
<1> QED
  BY LiveInvariance, <1>1, PTL

-------------------------------------------------------------------------------
(* HelloFirst.                                                               *)

\* A lost connection does not turn a request without priority, once written,
\* back into a waiting one in front of a HELLO: either no request with
\* priority outlives the connection, or no written one without it does.
HellosStayFirst ==
    \/ \A k \in Kinds : k.has_hello_priority =>
           k.cancel_on_connection_lost /\ k.cancel_if_unresponded
    \/ \A k \in Kinds : ~k.has_hello_priority => k.cancel_if_unresponded

\* A step that brings no request forward and makes none waiting.
LEMMA HelloFrame ==
  ASSUME HelloFirst, UNCHANGED req,
         \A e, f \in Execs : Before(reqs', e, f) => Before(reqs, e, f),
         \A e \in Execs : e \in Elements(reqs') /\ status'[e] = "waiting"
                          => status[e] = "waiting"
  PROVE  HelloFirst'
<1>1. \A e, f \in Execs : Before(reqs', e, f) => e \in Elements(reqs')
  BY Zenon DEF Before, Elements
<1> QED
  BY <1>1, Zenon DEF HelloFirst, waiting

\* cancel_impl(operation::run).
LEMMA CancelRunKeepsHello ==
  ASSUME HelloFirst, HellosStayFirst, QueueType, ExecType, UNCHANGED req,
         NEW W, cancel_run(W)
  PROVE  HelloFirst'
<1>1. CASE cancel_run_called
  BY <1>1, Zenon DEF cancel_run, HelloFirst, waiting
<1>2. CASE ~cancel_run_called
  <2>1. /\ reqs' = Keep(reqs, Execs \ lost)
        /\ status' = [e \in Execs |-> IF e \in Elements(reqs) \ lost
                                      THEN "waiting" ELSE status[e]]
    BY <1>2, Zenon DEF cancel_run, cancel_on_conn_lost, stop_requests
  <2>2. /\ Elements(reqs') = Elements(reqs) \ lost
        /\ \A e, f \in Execs : Before(reqs', e, f) => Before(reqs, e, f)
    BY <2>1, KeepQueue, Zenon DEF QueueType
  <2> SUFFICES ASSUME NEW e \in Execs, NEW f \in Execs, Before(reqs', e, f),
                      req[f].has_hello_priority, ~req[e].has_hello_priority
               PROVE  FALSE
    BY Zenon DEF HelloFirst, waiting, ExecType
  <2> e \in Elements(reqs) \ lost /\ f \in Elements(reqs) \ lost /\ Before(reqs, e, f)
    BY <2>2 DEF Before, Elements
  <2>4. req[e] \in Kinds /\ req[f] \in Kinds
    BY Zenon DEF ExecType
  <2>5. e \notin waiting
    BY Zenon DEF HelloFirst
  <2>6. ~req[e].cancel_if_unresponded
    BY <2>5, Zenon DEF lost
  <2>7. ~(req[f].cancel_on_connection_lost /\ req[f].cancel_if_unresponded)
    BY Zenon DEF lost
  <2> QED
    BY <2>4, <2>6, <2>7, Zenon DEF HellosStayFirst
<1> QED
  BY <1>1, <1>2, Zenon

\* A call joins the queue: with priority before the waiting requests, without
\* it behind all of them.
LEMMA HelloJoins ==
  ASSUME Inv, HelloFirst, NEW e \in Execs, NEW k \in Kinds, async_exec(e, k)
  PROVE  HelloFirst'
<1>t. /\ IdleIsFresh /\ reqs \in Seq(Execs) /\ Elements(reqs) \subseteq Execs
      /\ status \in [Execs -> {"waiting", "staged", "written"}]
      /\ Ordered(reqs, status) /\ req \in [Execs -> Kinds]
  BY QueueElements, Zenon DEF Inv, TypeOK, QueueInv, QueueType, QueueOrder, ExecType
<1>1. /\ UNCHANGED status /\ req' = [req EXCEPT ![e] = k] /\ op[e] = "idle"
      /\ \/ reqs' = reqs
         \/ /\ k.has_hello_priority
            /\ reqs' = InsertAfter(reqs, PartitionPoint(reqs, Execs \ waiting), e)
         \/ ~k.has_hello_priority /\ reqs' = Append(reqs, e)
  BY Zenon DEF async_exec, add_request_info, hello_point
<1>2. e \notin Elements(reqs)
  BY <1>t, <1>1, Zenon DEF IdleIsFresh
<1>3. \A x, y \in Execs : Before(reqs, x, y) => x # e /\ y # e
  BY <1>2, Zenon DEF Before, Elements
<1>4. \A x, y \in Execs : Before(reqs', x, y) =>
         \/ Before(reqs, x, y)
         \/ y = e /\ (x \notin waiting \/ ~k.has_hello_priority)
         \/ x = e /\ k.has_hello_priority
  <2>1. Execs \ waiting = {f \in Execs : status[f] # "waiting"}
    BY Zenon DEF waiting
  <2>2. IsPartitioned(reqs, Execs \ waiting)
    BY <1>t, <2>1, OrderedIsPartitioned, Zenon
  <2>3. CASE /\ k.has_hello_priority
             /\ reqs' = InsertAfter(reqs, PartitionPoint(reqs, Execs \ waiting), e)
    <3>1. \A x, y : Before(reqs', x, y) =>
               \/ Before(reqs, x, y)
               \/ y = e /\ x \in Elements(reqs) \cap (Execs \ waiting)
               \/ x = e /\ y \in Elements(reqs) \ (Execs \ waiting)
      BY <1>t, <2>2, <2>3, InsertAtPoint
    <3> QED
      BY <2>3, <3>1, Zenon
  <2>4. CASE ~k.has_hello_priority /\ reqs' = Append(reqs, e)
    <3>1. \A x, y : Before(reqs', x, y) => Before(reqs, x, y) \/ (y = e /\ x \in Elements(reqs))
      BY <1>t, <2>4, AppendBefore, Zenon
    <3> QED
      BY <2>4, <3>1
  <2> QED
    BY <1>1, <2>3, <2>4, Zenon
<1>5. waiting' = waiting
  BY <1>1, Zenon DEF waiting
<1>6. \A x \in Execs : req'[x] = IF x = e THEN k ELSE req[x]
  BY <1>t, <1>1, Zenon
<1> QED
  BY <1>3, <1>4, <1>5, <1>6, ZenonT(30) DEF HelloFirst

\* Every other step.
LEMMA HelloStep ==
  ASSUME Inv, HelloFirst, HellosStayFirst, Next
  PROVE  HelloFirst'
<1> QueueType /\ ExecType /\ reqs \in Seq(Execs) /\ Elements(reqs) \subseteq Execs
  BY QueueElements, Zenon DEF Inv, TypeOK, QueueType
<1> USE DEF exec_vars, queue_vars
<1>0. ASSUME UNCHANGED <<req, reqs, status>> PROVE HelloFirst'
  BY <1>0, HelloFrame, Zenon
<1>k. ASSUME UNCHANGED <<req, status>>, NEW S, reqs' = Keep(reqs, Execs \ S) PROVE HelloFirst'
  <2>1. \A e, f \in Execs : Before(reqs', e, f) => Before(reqs, e, f)
    BY <1>k, KeepQueue, Zenon
  <2> QED
    BY <1>k, <2>1, HelloFrame, Zenon
<1>c. ASSUME UNCHANGED req, NEW W, cancel_run(W) PROVE HelloFirst'
  BY <1>c, CancelRunKeepsHello, Zenon
<1>s. ASSUME UNCHANGED req, NEW b, coalesce_requests(reqs, status, b) PROVE HelloFirst'
  <2>1. reqs' = reqs /\ \A e \in Execs : status'[e] = "waiting" => status[e] = "waiting"
    BY <1>s, Zenon DEF coalesce_requests
  <2> QED
    BY <1>s, <2>1, HelloFrame, Zenon
<1>1. ASSUME NEW e \in Execs, ExecNext(e) PROVE HelloFirst'
  <2> CASE exec_op_not_connected(e)
    BY <1>0, Zenon DEF exec_op_not_connected
  <2> CASE exec_op_completes(e)
    BY <1>0, Zenon DEF exec_op_completes
  <2> CASE exec_op_cancelled(e)
    <3>1. /\ UNCHANGED req
          /\ \/ reqs' = Keep(reqs, Execs \ {e}) /\ UNCHANGED status
             \/ cancel_run({})
      BY Zenon DEF exec_op_cancelled, remove_request, cancel_run_and_wake
    <3> QED
      BY <1>k, <1>c, <3>1, Zenon
  <2> QED
    BY <1>1, Zenon DEF ExecNext
<1> CASE WriterNext
  <2> CASE write_some
    BY <1>0, Zenon DEF write_some
  <2> CASE async_write_done
    BY <1>0, Zenon DEF async_write_done
  <2> CASE writer_op_error
    BY <1>c, Zenon DEF writer_op_error
  <2> CASE writer_op_on_write
    <3> DEFINE q  == Keep(reqs, Execs \ push_requests)
               st == on_write_status(q)
    <3>1. /\ UNCHANGED req
          /\ \/ coalesce_requests(q, st, <<>>)
             \/ reqs' = q /\ status' = st
      BY Zenon DEF writer_op_on_write
    <3>2. \A e, f \in Execs : Before(q, e, f) => Before(reqs, e, f)
      BY KeepBefore, Zenon
    <3> HIDE DEF q
    <3>3. \A e \in Execs : st[e] = "waiting" => status[e] = "waiting"
      BY Zenon DEF on_write_status
    <3> HIDE DEF st
    <3>4. reqs' = q /\ \A e \in Execs : status'[e] = "waiting" => st[e] = "waiting"
      BY <3>1, Zenon DEF coalesce_requests
    <3> QED
      BY <3>1, <3>2, <3>3, <3>4, HelloFrame, Zenon
  <2> CASE writer_op_woken
    BY <1>s, Zenon DEF writer_op_woken
  <2> CASE writer_op_cancelled
    BY <1>0, Zenon DEF writer_op_cancelled
  <2> QED
    BY Zenon DEF WriterNext
<1> CASE ReaderNext
  <2> CASE append_some
    BY <1>0, Zenon DEF append_some
  <2> CASE append_some_fails
    BY <1>0, Zenon DEF append_some_fails
  <2> CASE reader_op_error
    BY <1>c, Zenon DEF reader_op_error
  <2> CASE reader_op_resumes
    BY <1>0, Zenon DEF reader_op_resumes
  <2> CASE on_read_needs_more
    BY <1>0, Zenon DEF on_read_needs_more
  <2> CASE on_read_push
    BY <1>0, Zenon DEF on_read_push
  <2> CASE on_read_resp
    <3>1. UNCHANGED <<req, status>> /\ (reqs' = reqs \/ (reqs # <<>> /\ reqs' = Tail(reqs)))
      BY Zenon DEF on_read_resp, is_next_push, is_waiting_response
    <3>2. \A e, f \in Execs : Before(reqs', e, f) => Before(reqs, e, f)
      BY <3>1, TailBefore, Zenon
    <3> QED
      BY <3>1, <3>2, HelloFrame, Zenon
  <2> CASE on_read_error
    <3>1. UNCHANGED req /\ \E W : cancel_run(W)
      BY Zenon DEF on_read_error
    <3> QED
      BY <1>c, <3>1, Zenon
  <2> QED
    BY Zenon DEF ReaderNext
<1> CASE RunNext
  <2> CASE async_connect
    BY <1>0, Zenon DEF async_connect
  <2> CASE run_all_op_fails
    BY <1>c, Zenon DEF run_all_op_fails
  <2> CASE run_op_starts
    BY <1>s, Zenon DEF run_op_starts
  <2> CASE run_op_completes
    BY <1>0, Zenon DEF run_op_completes
  <2> QED
    BY Zenon DEF RunNext
<1> CASE UserNext
  <2>1. ASSUME NEW e \in Execs, cancel_exec_op(e) PROVE HelloFirst'
    BY <1>0, <2>1, Zenon DEF cancel_exec_op
  <2> CASE user_cancel_run
    BY <1>c, Zenon DEF user_cancel_run, cancel_run_and_wake
  <2> CASE user_cancel_exec
    BY <1>k, Zenon DEF user_cancel_exec, cancel_unwritten_requests, stop_requests
  <2> CASE user_cancel_receive
    BY <1>0, Zenon DEF user_cancel_receive
  <2> CASE user_cancel_all
    <3> CASE cancel_run_called
      BY <1>k, Zenon DEF user_cancel_all, cancel_unwritten_requests, stop_requests
    <3> CASE ~cancel_run_called
      <4>1. reqs' = Keep(reqs, Execs \ Elements(reqs))
        BY Zenon DEF user_cancel_all, stop_requests
      <4>2. Elements(reqs') = {}
        BY <4>1, KeepQueue, Zenon
      <4> QED
        BY <4>2, Zenon DEF HelloFirst, Before, Elements
    <3> QED
      BY Zenon
  <2> CASE cancel_run_op
    BY <1>0, Zenon DEF cancel_run_op
  <2> CASE async_receive_waits
    BY <1>0, Zenon DEF async_receive_waits
  <2> QED
    BY <2>1, HelloJoins, Zenon DEF UserNext
<1> CASE receive \/ server_replies \/ server_pushes \/ server_leaves
  BY <1>0, Zenon DEF receive, server_replies, server_pushes, server_leaves
<1> QED
  BY <1>1, Zenon DEF Next

\* With HellosStayFirst, no waiting request without priority is ever in front
\* of one with priority: the HELLO of a connection precedes what was queued
\* before it, after any number of losses.
THEOREM HelloComesFirst ==
  ASSUME HellosStayFirst
  PROVE  Spec => []HelloFirst
<1>1. Init => HelloFirst
  BY DEF Init, HelloFirst, Before
<1>2. Inv /\ HelloFirst /\ [Next]_vars => HelloFirst'
  <2>1. Inv /\ HelloFirst /\ Next => HelloFirst'
    BY HelloStep, Zenon
  <2>2. HelloFirst /\ UNCHANGED vars => HelloFirst'
    BY Zenon DEF vars, exec_vars, queue_vars, HelloFirst, Before, waiting
  <2> QED
    BY <2>1, <2>2, Zenon
<1> QED
  BY Invariance, <1>1, <1>2, PTL DEF Spec

==============================================================================
