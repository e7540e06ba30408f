------------------------- MODULE ConnectionDelivery --------------------------
(*****************************************************************************)
(* Responses and requests of module Connection match in every state.  From   *)
(* this follow ResponsesMatch, and that Connection implements Delivery.      *)
(*****************************************************************************)
EXTENDS ConnectionLoss, ConnectionMatch

-------------------------------------------------------------------------------
(* Steps of an open connection that begin a new batch of requests.          *)

\* With nothing left to send, Linked speaks of what the server has received.
LEMMA LinkedReceived ==
  ASSUME Inv, Linked, handed = Len(write_buffer)
  PROVE  /\ Received
         /\ Matched(stream, Owed(owing, req, expected_responses),
                    Unanswered(commands, req, answered), InOrder(reqs), peer)
<1>1. write_buffer \in Seq(Execs) /\ handed \in 0 .. Len(write_buffer) /\ commands \in Seq(Execs)
  BY MatchTypes, Zenon
<1>2. unsent = <<>>
  BY <1>1, SplitAt, Zenon DEF unsent
<1>3. line = commands
  BY <1>1, <1>2 DEF line
<1> QED
  BY <1>3, Zenon DEF Linked, LineInv, Received

\* With requests that all expect a response, on_write completes none.
LEMMA NoPushRequests ==
  ASSUME Inv, Matchable
  PROVE  push_requests = {}
<1> SUFFICES ASSUME NEW e \in Elements(reqs), get_expected_responses(req[e]) = 0 PROVE FALSE
  BY Zenon DEF push_requests
<1>1. req[e] \in Kinds
  BY MatchTypes, Zenon
<1> QED
  BY <1>1 DEF Matchable

\* The writer goes on after on_write.
LEMMA OnWriteStages ==
  ASSUME Inv, Matchable, writer_op_on_write, open
  PROVE  \E q, st : Staging(q, st)
<1> DEFINE q  == Keep(reqs, Execs \ push_requests)
           st == on_write_status(q)
<1>   /\ reqs \in Seq(Execs) /\ Elements(reqs) \subseteq Execs /\ Ordered(reqs, status)
      /\ req \in [Execs -> Kinds]
      /\ status \in [Execs -> {"waiting", "staged", "written"}]
  BY MatchTypes, Zenon
<1>1. coalesce_requests(q, st, <<>>)
  BY Zenon DEF writer_op_on_write
<1>2. push_requests = {}
  BY NoPushRequests, Zenon
<1>3. q \in Seq(Execs) /\ Elements(q) = Elements(reqs)
  <2>1. q \in Seq(Execs) /\ Elements(q) = Elements(reqs) \cap (Execs \ push_requests)
    BY KeepElements, Zenon
  <2> QED
    BY <1>2, <2>1, Zenon
<1>4. \A e, f \in Execs : Before(q, e, f) <=> Before(reqs, e, f)
  BY <1>2, KeepBefore, Zenon
<1> HIDE DEF q
<1>5. /\ st \in [Execs -> {"waiting", "staged", "written"}]
      /\ \A e \in Execs : st[e] = "waiting" <=> status[e] = "waiting"
      /\ \A e \in Elements(q) : status[e] # "waiting" => st[e] = "written"
  BY <1>3, Zenon DEF on_write_status
<1> HIDE DEF st
<1>6. Ordered(q, st)
  <2> SUFFICES ASSUME NEW e \in Execs, NEW f \in Execs, Before(q, e, f)
               PROVE  /\ e # f
                      /\ st[f] = "written" => st[e] = "written"
                      /\ st[f] = "staged"  => st[e] # "waiting"
    BY Zenon DEF Ordered
  <2>1. e \in Elements(q) /\ f \in Elements(q) /\ Before(reqs, e, f)
    BY <1>4, Zenon DEF Before, Elements
  <2>2. e # f /\ (status[f] # "waiting" => status[e] # "waiting")
    BY <2>1, Zenon DEF Ordered
  <2> QED
    BY <1>5, <2>1, <2>2, Zenon
<1>7. Staging(q, st)
  BY <1>1, <1>3, <1>4, <1>5, <1>6, Zenon DEF Staging
<1> QED
  BY <1>7, Zenon

\* It puts the next requests in line.
LEMMA OnWriteLinks ==
  ASSUME Inv, CountInv, Linked, Matchable, writer_op_on_write, open
  PROVE  Linked'
<1>   /\ wr = "wrote"
      /\ UNCHANGED <<op, req, expected_responses, peer, commands, answered, replies,
                     read_buffer, on_push>>
  BY Zenon DEF writer_op_on_write, exec_vars, server_vars
<1>7. PICK q, st : Staging(q, st)
  BY OnWriteStages, Zenon
<1>8. handed = Len(write_buffer)
  BY Zenon DEF Linked
<1>9. /\ Received
      /\ Matched(stream, Owed(owing, req, expected_responses),
                 Unanswered(commands, req, answered), InOrder(reqs), peer)
  BY <1>8, LinkedReceived, Zenon
<1>10. stream' = stream
  BY Zenon DEF stream
<1>11. on_push' => read_buffer' # <<>> /\ Head(read_buffer') = Push
  BY Zenon DEF Linked
<1>12. Matched(stream', Owed(owing, req, expected_responses),
               Unanswered(commands, req, answered), InOrder(reqs), peer)
  BY <1>9, <1>10, Zenon
<1> QED
  BY <1>7, <1>9, <1>11, <1>12, StagingLinks, Zenon

\* The queue as it is.
LEMMA StagingHere ==
  ASSUME Inv, NEW b, b = <<>>, coalesce_requests(reqs, status, b)
  PROVE  Staging(reqs, status)
<1>1. /\ reqs \in Seq(Execs) /\ Ordered(reqs, status)
      /\ status \in [Execs -> {"waiting", "staged", "written"}]
  BY MatchTypes, Zenon
<1> QED
  BY <1>1, Zenon DEF Staging

\* The writer goes on after it has been woken.
LEMMA WokenLinks ==
  ASSUME Inv, CountInv, Linked, writer_op_woken
  PROVE  Linked'
<1>   /\ wr = "woken" /\ coalesce_requests(reqs, status, write_buffer)
      /\ UNCHANGED <<op, req, expected_responses, peer, commands, answered, replies,
                     read_buffer, on_push>>
  BY Zenon DEF writer_op_woken, exec_vars, server_vars, reader_vars
<1>2. write_buffer = <<>>
  BY Zenon DEF Inv, WriterInv
<1>3. handed = Len(write_buffer)
  <2>1. handed \in 0 .. Len(write_buffer)
    BY MatchTypes, Zenon
  <2> QED
    BY <1>2, <2>1
<1>4. Staging(reqs, status)
  BY <1>2, StagingHere, Zenon
<1>5. /\ Received
      /\ Matched(stream, Owed(owing, req, expected_responses),
                 Unanswered(commands, req, answered), InOrder(reqs), peer)
  BY <1>3, LinkedReceived, Zenon
<1>6. stream' = stream
  BY Zenon DEF stream
<1>7. on_push' => read_buffer' # <<>> /\ Head(read_buffer') = Push
  BY Zenon DEF Linked
<1>8. Matched(stream', Owed(owing, req, expected_responses),
              Unanswered(commands, req, answered), InOrder(reqs), peer)
  BY <1>5, <1>6, Zenon
<1> QED
  BY <1>4, <1>5, <1>7, <1>8, StagingLinks, Zenon

\* A run starts with everything to be sent and nothing on the way.
LEMMA RunStartsLinked ==
  ASSUME Inv, CountInv, AllWaitingAtStart, run_op_starts,
         commands = <<>>, answered = 0, replies = <<>>
  PROVE  Linked'
<1>   /\ run = "connecting" /\ coalesce_requests(reqs, status, <<>>)
      /\ read_buffer' = <<>> /\ on_push' = FALSE
      /\ UNCHANGED <<op, req, expected_responses, peer, commands, answered, replies>>
  BY Zenon DEF run_op_starts, reset, exec_vars, server_vars
<1>2. Staging(reqs, status)
  BY StagingHere, Zenon
<1>3. Received
  BY DEF Received, Elements, Before
<1>4. stream' = <<>>
  BY DEF stream
<1>5. owing = {}
  BY Zenon DEF AllWaitingAtStart, owing
<1>6. Owed(owing, req, expected_responses) = {} /\ Unanswered(commands, req, answered) = {}
  BY <1>5, Zenon DEF Owed, Unanswered
<1>7. Matched(stream', Owed(owing, req, expected_responses),
              Unanswered(commands, req, answered), InOrder(reqs), peer)
  BY <1>4, <1>6, MatchedEmpty, Zenon
<1> QED
  BY <1>2, <1>3, <1>7, StagingLinks, Zenon

-------------------------------------------------------------------------------
(* MatchInv.                                                                 *)

\* A call joins the queue.
LEMMA AsyncExecLinks ==
  ASSUME Inv, Linked, NEW e \in Execs, NEW k \in Kinds, async_exec(e, k)
  PROVE  Linked'
<1>   /\ Elements(reqs) \subseteq Execs /\ owing \subseteq Execs /\ owing \subseteq Elements(reqs)
      /\ req \in [Execs -> Kinds] /\ expected_responses \in [Execs -> Nat] /\ IdleIsFresh
      /\ op \in [Execs -> {"idle", "posted", "waiting"} \cup Results]
  BY MatchTypes, Zenon DEF Inv, QueueInv, TypeOK, ExecType
<1>   /\ op[e] = "idle" /\ (op' = [op EXCEPT ![e] = "posted"] \/ op' = [op EXCEPT ![e] = "waiting"])
      /\ UNCHANGED status /\ req' = [req EXCEPT ![e] = k]
      /\ expected_responses' = [expected_responses EXCEPT ![e] = get_expected_responses(k)]
      /\ UNCHANGED <<commands, answered, peer, read_buffer, replies, write_buffer, handed, on_push>>
      /\ wr' = wr \/ wr' = timer_cancelled
  BY Zenon DEF async_exec, add_request_info, reader_vars, server_vars
<1>   /\ Elements(reqs) \subseteq Elements(reqs')
      /\ Elements(reqs') \subseteq Elements(reqs) \cup {e}
      /\ \A x, y : Before(reqs, x, y) => Before(reqs', x, y)
      /\ \A x, y : Before(reqs', x, y) => Before(reqs, x, y) \/ x = e \/ y = e
  BY JoinBefore, Zenon
<1>3. e \notin Elements(reqs) /\ status[e] = "waiting"
  BY Zenon DEF IdleIsFresh
<1>4. owing' = owing
  BY <1>3, Zenon DEF owing, waiting
<1>5. \A f \in Execs : op[f] # "idle" =>
          /\ op'[f] # "idle"
          /\ req'[f] = req[f] /\ expected_responses'[f] = expected_responses[f]
          /\ f \in Elements(reqs') => f \in Elements(reqs)
  BY Zenon
<1>6. \A x, y \in owing : Before(reqs', x, y) <=> Before(reqs, x, y)
  BY <1>3, Zenon
<1>7. /\ on_push' => read_buffer # <<>> /\ Head(read_buffer) = Push
      /\ wr' = "wrote" => wr = "wrote"
  BY Zenon DEF Linked, timer_cancelled
<1> QED
  BY <1>4, <1>5, <1>6, <1>7, LinkedFrame, Zenon

\* Waiting requests leave the queue.
LEMMA RemovalLinks ==
  ASSUME Inv, Linked, NEW S, S \cap owing = {}, reqs' = Keep(reqs, Execs \ S),
         UNCHANGED <<req, expected_responses, status, commands, answered, peer, read_buffer,
                     replies, write_buffer, handed, on_push, wr>>,
         \A e \in Execs : op[e] # "idle" => op'[e] # "idle"
  PROVE  Linked'
<1> reqs \in Seq(Execs) /\ owing \subseteq Execs
  BY MatchTypes, Zenon
<1>1. Elements(reqs') = Elements(reqs) \ S
  BY KeepQueue, Zenon
<1>2. \A e, f : Before(reqs', e, f) <=> Before(reqs, e, f) /\ e \in Execs \ S /\ f \in Execs \ S
  BY KeepBefore, Zenon
<1>3. owing' = owing
  BY <1>1, Zenon DEF owing, waiting
<1>4. \A e, f \in owing : Before(reqs', e, f) <=> Before(reqs, e, f)
  BY <1>2, Zenon
<1>5. on_push' => read_buffer # <<>> /\ Head(read_buffer) = Push
  BY Zenon DEF Linked
<1> QED
  BY <1>1, <1>3, <1>4, <1>5, LinkedFrame, Zenon

\* The steps of the users and of exec_op on an open connection.
LEMMA LinkedUserSteps ==
  ASSUME Inv, ClosedInv, Linked, run = "up", open', Matchable,
         UserNext \/ \E e \in Execs : ExecNext(e)
  PROVE  Linked'
<1>   QueueType /\ owing \subseteq Elements(reqs)
      /\ op \in [Execs -> {"idle", "posted", "waiting"} \cup Results]
  BY MatchTypes, Zenon DEF Inv, TypeOK, ExecType
<1> USE DEF exec_vars, queue_vars, writer_vars, reader_vars, conn_vars, chan_vars, server_vars
<1> on_push => read_buffer # <<>> /\ Head(read_buffer) = Push
  BY Zenon DEF Linked
<1>c. ASSUME NEW W, cancel_run(W) PROVE FALSE
  BY <1>c, CancelRunCloses, Zenon
<1>1. ASSUME NEW e \in Execs, exec_op_not_connected(e) PROVE Linked'
  <2>1. \A f \in Execs : op[f] # "idle" => op'[f] # "idle"
    BY <1>1, Zenon DEF exec_op_not_connected
  <2> QED
    BY <1>1, <2>1, LinkedSame, Zenon DEF exec_op_not_connected
<1>2. ASSUME NEW e \in Execs, exec_op_completes(e) PROVE Linked'
  <2>1. \A f \in Execs : op[f] # "idle" => op'[f] # "idle"
    BY <1>2, Zenon DEF exec_op_completes, complete
  <2> QED
    BY <1>2, <2>1, LinkedSame, Zenon DEF exec_op_completes
<1>3. ASSUME NEW e \in Execs, exec_op_cancelled(e) PROVE Linked'
  <2>1. \A f \in Execs : op[f] # "idle" => op'[f] # "idle"
    BY <1>3, Zenon DEF exec_op_cancelled, complete
  <2>2. e \in waiting /\ reqs' = Keep(reqs, Execs \ {e})
        /\ UNCHANGED <<req, expected_responses, status, commands, answered, peer, read_buffer,
                       replies, write_buffer, handed, on_push, wr>>
    BY <1>3, <1>c, Zenon DEF exec_op_cancelled, remove_request, cancel_run_and_wake
  <2>3. {e} \cap owing = {}
    BY <2>2, Zenon DEF owing
  <2> QED
    BY <2>1, <2>2, <2>3, RemovalLinks, Zenon
<1>4. ASSUME NEW e \in Execs, cancel_exec_op(e) PROVE Linked'
  BY <1>4, LinkedSame, Zenon DEF cancel_exec_op
<1> CASE user_cancel_run
  BY <1>c, Zenon DEF user_cancel_run, cancel_run_and_wake
<1> CASE user_cancel_exec
  <2> DEFINE S == Elements(reqs) \cap waiting
  <2>1. reqs' = Keep(reqs, Execs \ S)
        /\ UNCHANGED <<op, req, expected_responses, status, commands, answered, peer,
                       read_buffer, replies, write_buffer, handed, on_push, wr>>
    BY Zenon DEF user_cancel_exec, cancel_unwritten_requests, stop_requests
  <2>2. S \cap owing = {}
    BY Zenon DEF owing
  <2> HIDE DEF S
  <2> QED
    BY <2>1, <2>2, RemovalLinks, Zenon
<1> CASE user_cancel_receive
  BY LinkedSame, Zenon DEF user_cancel_receive
<1> CASE user_cancel_all
  <2>1. open /\ cancel_run_called
    BY Zenon DEF user_cancel_all
  <2> QED
    BY <2>1, Zenon DEF ClosedInv
<1> CASE cancel_run_op
  BY Zenon DEF cancel_run_op, Matchable
<1> CASE async_receive_waits
  BY LinkedSame, Zenon DEF async_receive_waits
<1> QED
  BY <1>1, <1>2, <1>3, <1>4, AsyncExecLinks, Zenon DEF UserNext, ExecNext

\* The steps of the writer.
LEMMA LinkedWriterSteps ==
  ASSUME Inv, ClosedInv, CountInv, Linked, run = "up", open, open', Matchable, WriterNext
  PROVE  Linked'
<1>t. QueueType
  BY Zenon DEF Inv, TypeOK
<1> USE DEF exec_vars, queue_vars, writer_vars, reader_vars, conn_vars, chan_vars, server_vars
<1>p. on_push => read_buffer # <<>> /\ Head(read_buffer) = Push
  BY Zenon DEF Linked
<1>1. CASE async_write_done
  <2>1. handed \in 0 .. Len(write_buffer) /\ (wr' = "wrote" => handed = Len(write_buffer))
    BY <1>1, MatchTypes, Zenon DEF async_write_done
  <2> QED
    BY <1>1, <1>p, <2>1, LinkedSame, Zenon DEF async_write_done
<1>2. CASE writer_op_error
  BY <1>t, <1>2, CancelRunCloses, Zenon DEF writer_op_error
<1>3. CASE writer_op_cancelled
  BY <1>3, <1>p, LinkedSame, Zenon DEF writer_op_cancelled, writer_exits
<1> QED
  BY <1>1, <1>2, <1>3, WriteSomeLinks, OnWriteLinks, WokenLinks, Zenon DEF WriterNext

\* The steps of the reader.
LEMMA LinkedReaderSteps ==
  ASSUME Inv, ClosedInv, CountInv, Linked, run = "up", open', ReaderNext \/ receive
  PROVE  Linked'
<1>t. QueueType
  BY Zenon DEF Inv, TypeOK
<1> USE DEF exec_vars, queue_vars, writer_vars, reader_vars, conn_vars, chan_vars, server_vars
<1> on_push => read_buffer # <<>> /\ Head(read_buffer) = Push
  BY Zenon DEF Linked
<1>c. ASSUME NEW W, cancel_run(W) PROVE FALSE
  BY <1>t, <1>c, CancelRunCloses, Zenon
<1> CASE append_some_fails
  BY LinkedSame, Zenon DEF append_some_fails
<1> CASE reader_op_error
  BY <1>c, Zenon DEF reader_op_error
<1> CASE reader_op_resumes
  <2>1. wr' = "wrote" => wr = "wrote"
    BY Zenon DEF reader_op_resumes, reader_exits, timer_cancelled
  <2> QED
    BY <2>1, LinkedSame, Zenon DEF reader_op_resumes
<1> CASE on_read_needs_more
  <2>1. on_push' => read_buffer # <<>> /\ Head(read_buffer) = Push
    BY FirstMessage, Zenon DEF on_read_needs_more
  <2> QED
    BY <2>1, LinkedSame, Zenon DEF on_read_needs_more
<1> CASE on_read_error
  BY <1>c, Zenon DEF on_read_error
<1> CASE receive
  BY LinkedSame, Zenon DEF receive
<1> QED
  BY AppendSomeLinks, OnReadPushLinks, OnReadRespLinks, Zenon DEF ReaderNext

\* Without a run, the server knows nothing of the connection's requests.
LEMMA ServerStep ==
  ASSUME Inv, ClosedInv, Next, run # "up" => commands = <<>> /\ answered = 0 /\ replies = <<>>
  PROVE  run' # "up" => commands' = <<>> /\ answered' = 0 /\ replies' = <<>>
<1>t. run # "up" => wr = "off" /\ rd = "off"
  BY Zenon DEF Inv, WriterInv, ClosedInv
<1> USE DEF server_vars, conn_vars
<1>0. ASSUME UNCHANGED <<run, commands, answered, replies>>
      PROVE  run' # "up" => commands' = <<>> /\ answered' = 0 /\ replies' = <<>>
  BY <1>0, Zenon
<1> CASE UserNext
  BY <1>0, Zenon DEF UserNext, async_exec, cancel_exec_op, user_cancel_run, user_cancel_exec,
                    user_cancel_receive, user_cancel_all, cancel_run_op, async_receive_waits
<1>2. ASSUME NEW e \in Execs, ExecNext(e)
      PROVE  run' # "up" => commands' = <<>> /\ answered' = 0 /\ replies' = <<>>
  BY <1>0, <1>2, Zenon DEF ExecNext, exec_op_not_connected, exec_op_completes, exec_op_cancelled
<1> CASE WriterNext
  <2> CASE write_some
    BY <1>t, Zenon DEF write_some
  <2> CASE writer_op_on_write
    <3>1. UNCHANGED <<run, commands, answered, replies>>
      BY Zenon DEF writer_op_on_write
    <3> QED
      BY <1>0, <3>1, Zenon
  <2> QED
    BY <1>0, Zenon DEF WriterNext, async_write_done, writer_op_error,
                                  writer_op_woken, writer_op_cancelled
<1> CASE ReaderNext
  <2> CASE append_some
    BY <1>t, Zenon DEF append_some
  <2> QED
    BY <1>0, Zenon DEF ReaderNext, append_some_fails, reader_op_error, reader_op_resumes,
                            on_read_needs_more, on_read_push, on_read_resp, on_read_error
<1> CASE RunNext
  BY Zenon DEF RunNext, async_connect, run_all_op_fails, run_op_starts, run_op_completes
<1> CASE receive
  BY <1>0, Zenon DEF receive
<1> CASE server_replies
  BY Zenon DEF server_replies
<1> CASE server_pushes
  BY Zenon DEF server_pushes
<1> CASE server_leaves
  BY Zenon DEF server_leaves
<1> QED
  BY <1>2, Zenon DEF Next

\* A socket is opened, and a run starts, only from outside a run.
LEMMA RunStays ==
  ASSUME Inv, ClosedInv, Next, run' = "up", open', ~run_op_starts
  PROVE  run = "up" /\ open
<1>t. run # "up" => wr = "off" /\ rd = "off"
  BY Zenon DEF Inv, WriterInv, ClosedInv
<1>o. open \in BOOLEAN
  BY Zenon DEF Inv, TypeOK, ConnType
<1> USE DEF conn_vars
<1>0. ASSUME UNCHANGED <<run, open>> PROVE run = "up" /\ open
  BY <1>0, Zenon
<1>c. ASSUME NEW W, cancel_run(W), UNCHANGED run PROVE run = "up" /\ open
  BY <1>c, Zenon DEF cancel_run
<1> CASE UserNext
  BY <1>0, <1>c, Zenon DEF UserNext, async_exec, cancel_exec_op, user_cancel_run, user_cancel_exec,
                    user_cancel_receive, user_cancel_all, cancel_run_op, async_receive_waits,
                    cancel_run_and_wake
<1>2. ASSUME NEW e \in Execs, ExecNext(e) PROVE run = "up" /\ open
  BY <1>0, <1>c, <1>2, Zenon DEF ExecNext, exec_op_not_connected, exec_op_completes, exec_op_cancelled,
                    cancel_run_and_wake
<1> CASE WriterNext
  <2> CASE writer_op_on_write
    <3>1. UNCHANGED <<run, open>>
      BY Zenon DEF writer_op_on_write
    <3> QED
      BY <1>0, <3>1, Zenon
  <2> QED
    BY <1>0, <1>c, Zenon DEF WriterNext, write_some, async_write_done, writer_op_error,
                                  writer_op_woken, writer_op_cancelled
<1> CASE ReaderNext
  BY <1>0, <1>c, Zenon DEF ReaderNext, append_some, append_some_fails, reader_op_error,
           reader_op_resumes, on_read_needs_more, on_read_push, on_read_resp, on_read_error
<1> CASE RunNext
  BY Zenon DEF RunNext, async_connect, run_all_op_fails, run_op_completes
<1> CASE receive \/ server_replies \/ server_pushes \/ server_leaves
  BY <1>0, Zenon DEF receive, server_replies, server_pushes, server_leaves
<1> QED
  BY <1>2, Zenon DEF Next

\* Every step keeps MatchInv.
LEMMA MatchStep ==
  ASSUME Inv, ClosedInv, AllWaitingAtStart, MatchInv, Matchable, Next
  PROVE  MatchInv'
<1>1. CountInv'
  BY CountStep, Zenon DEF MatchInv
<1>2. run' # "up" => commands' = <<>> /\ answered' = 0 /\ replies' = <<>>
  BY ServerStep, Zenon DEF MatchInv
<1>3. ASSUME run' = "up", open' PROVE Linked'
  <2>1. CASE run_op_starts
    <3>1. run = "connecting"
      BY <2>1, Zenon DEF run_op_starts
    <3> QED
      BY <2>1, <3>1, RunStartsLinked, Zenon DEF MatchInv
  <2>2. CASE ~run_op_starts
    <3> run = "up" /\ open
      BY <1>3, <2>2, RunStays, Zenon
    <3>2. CountInv /\ Linked
      BY Zenon DEF MatchInv
    <3>3. CASE RunNext
      BY <1>3, <2>2, <3>3, Zenon DEF RunNext, async_connect, run_all_op_fails, run_op_completes
    <3> QED
      BY <1>3, <3>2, <3>3, LinkedUserSteps, LinkedWriterSteps, LinkedReaderSteps,
         RepliesLink, PushesLink, LeavesLink, Zenon
         DEF Next
  <2> QED
    BY <2>1, <2>2, Zenon
<1> QED
  BY <1>1, <1>2, <1>3, Zenon DEF MatchInv

\* The requests in the queue, what the server has received and what it has
\* sent belong together, in every run.
LEMMA MatchInvariance ==
  ASSUME Matchable
  PROVE  Spec => []MatchInv
<1>1. Init => MatchInv
  BY DEF Init, MatchInv, CountInv, Elements
<1>2. Inv /\ ClosedInv /\ AllWaitingAtStart /\ MatchInv /\ [Next]_vars => MatchInv'
  <2>1. Inv /\ ClosedInv /\ AllWaitingAtStart /\ MatchInv /\ Next => MatchInv'
    BY MatchStep, Zenon
  <2>2. ASSUME MatchInv, UNCHANGED vars PROVE MatchInv'
    <3>1. /\ UNCHANGED <<op, req, expected_responses, reqs, status, wr, write_buffer, handed>>
          /\ UNCHANGED <<on_push, read_buffer, open, run, peer, commands, answered, replies>>
      BY <2>2, Zenon DEF vars, exec_vars, queue_vars, writer_vars, reader_vars, conn_vars, server_vars
    <3>2. CountInv' = CountInv
      BY <3>1, Zenon DEF CountInv, Expect, waiting
    <3>3. UNCHANGED <<stream, line, owing>>
      BY <3>1, Zenon DEF stream, line, unsent, owing, waiting
    <3>4. LineInv' = LineInv
      BY <3>1, <3>3, Zenon DEF LineInv
    <3>5. Linked' = Linked
      BY <3>1, <3>3, <3>4, Zenon DEF Linked
    <3> QED
      BY <2>2, <3>1, <3>2, <3>5, Zenon DEF MatchInv
  <2> QED
    BY <2>1, <2>2, Zenon
<1>3. "cancel_run_op" \notin Env
  BY Zenon DEF Matchable
<1>4. Spec => []AllWaitingAtStart
  BY <1>3, RunsStartWithWaitingRequests, Zenon
<1> QED
  BY Invariance, ClosedInvariance, <1>1, <1>2, <1>4, PTL DEF Spec

\* ResponsesMatch (parse_and_read, on_read and is_next_push in
\* connection_base.hpp): with requests that are Matchable, whatever is lost,
\* split, rejected or written again, a response is given to the adapter of the
\* very command it answers, and no response is taken for a push.  Matchable
\* excludes the cancellation of async_run through its own operation, no other.
THEOREM ResponsesAreMatched ==
  ASSUME Matchable
  PROVE  Spec => []ResponsesMatch
<1>1. Inv /\ ClosedInv /\ MatchInv => ResponsesMatch
  <2> SUFFICES ASSUME Inv, ClosedInv, MatchInv, rd = "parsing", read_buffer # <<>>
               PROVE  IF on_push \/ is_next_push
                      THEN Head(read_buffer) = Push
                      ELSE Head(read_buffer) = <<Head(reqs), Expect(Head(reqs))
                                                   - expected_responses[Head(reqs)] + 1>>
    BY Zenon DEF ResponsesMatch, parsing_message, Expect
  <2>1. CountInv /\ Linked
    BY Zenon DEF ClosedInv, MatchInv
  <2> QED
    BY <2>1, FirstMessage, FirstResponse, Zenon
<1> QED
  BY Invariance, ClosedInvariance, MatchInvariance, <1>1, PTL
-------------------------------------------------------------------------------
(* What has been handed to the stream, and what is pending.                  *)

\* Execs that have been told to proceed, and nothing else.
proceeding == notified \ (stopped \cup failed \cup cancelled)

\* On an open connection, what is owed a response has been handed over or
\* still is in the writer's buffer.
Handed == \A e \in owing : e \in Elements(unsent) \/ sent[e] > 0

\* A call that is told to proceed has had its request handed over and all the
\* responses to it read.
DeliveryInv ==
    /\ \A e \in Execs : op[e] \in {"idle", "posted"} => sent[e] = 0
    /\ \A e \in proceeding : expected_responses[e] = 0 /\ sent[e] > 0
    /\ run = "up" /\ open => Handed

\* No response has been given to what is not sent, and it is in the queue.
LEMMA UnsentAreOwing ==
  ASSUME Inv, Linked, Matchable, NEW e \in Elements(unsent)
  PROVE  /\ e \in owing
         /\ \A n \in 1 .. Expect(e) : <<e, n>> \in Unanswered(line, req, answered)
<1> DEFINE O == Owed(owing, req, expected_responses)
           U == Unanswered(line, req, answered)
<1>   /\ commands \in Seq(Execs) /\ unsent \in Seq(Execs) /\ line \in Seq(Execs)
      /\ Elements(unsent) \subseteq Elements(line) /\ Elements(line) \subseteq Execs
      /\ req \in [Execs -> Kinds]
  BY MatchTypes, Zenon
<1>1. e \in Execs /\ req[e] \in Kinds /\ Expect(e) \in Nat /\ 1 <= Expect(e)
  BY ExpectedType, Zenon DEF Matchable, Expect
<1>2. ASSUME NEW n \in 1 .. Expect(e) PROVE <<e, n>> \in U
  <2>1. <<e, n>> \in Execs \X Nat
    BY <1>1
  <2>2. line # <<>>
    <3>1. Elements(<<>>) = {}
      BY DEF Elements
    <3> QED
      BY <3>1, Zenon
  <2>3. U = Remaining(Head(line), req, answered) \cup Responses(Elements(Tail(line)), req)
    BY <2>2, Zenon DEF Unanswered
  <2>4. CASE commands = <<>>
    <3>1. answered = 0
      BY <2>4, Zenon DEF Linked
    <3>2. e = Head(line) \/ e \in Elements(Tail(line))
      BY <2>2, TailBefore, Zenon
    <3>3. Responding(req[e].cmds, 0) < n
      BY RespondingZero
    <3> QED
      BY <2>1, <2>3, <3>1, <3>2, <3>3 DEF Remaining, Responses, Expect
  <2>5. CASE commands # <<>>
    <3> DEFINE c == Tail(commands)
    <3>1. Tail(line) = c \o unsent
      BY <2>5, ConcatHeadTail, Zenon DEF line
    <3>2. c \in Seq(Execs)
      BY <2>5
    <3> HIDE DEF c
    <3>3. Elements(c \o unsent) = Elements(c) \cup Elements(unsent)
      BY <3>2, ConcatElements
    <3>4. e \in Elements(Tail(line))
      BY <3>1, <3>3, Zenon
    <3> QED
      BY <2>1, <2>3, <3>4 DEF Responses, Expect
  <2> QED
    BY <2>4, <2>5, Zenon
<1>3. <<e, 1>> \in U
  BY <1>1, <1>2
<1>4. U \subseteq O
  BY Zenon DEF Linked, Matched
<1>5. \A m \in O : m[1] \in owing
  BY OwedMember, Zenon
<1>6. e \in owing
  <2> HIDE DEF O, U
  <2>1. <<e, 1>>[1] = e
    BY Zenon
  <2> QED
    BY <1>3, <1>4, <1>5, <2>1, Zenon
<1> QED
  BY <1>2, <1>6, Zenon

\* A response is read only of what has been handed over.
LEMMA FrontIsSent ==
  ASSUME Inv, CountInv, Linked, Matchable, Handed, read_buffer # <<>>, Head(read_buffer) # Push
  PROVE  sent[Head(reqs)] > 0
<1> DEFINE O == Owed(owing, req, expected_responses)
           U == Unanswered(line, req, answered)
           h == Head(reqs)
           n == Expect(h) - expected_responses[h] + 1
           x == <<h, n>>
<1>   /\ reqs \in Seq(Execs) /\ req \in [Execs -> Kinds] /\ expected_responses \in [Execs -> Nat]
      /\ read_buffer \in Seq(Messages) /\ replies \in Seq(Messages) /\ stream \in Seq(Messages)
      /\ IsAsymmetric(InOrder(reqs), Execs \X Nat) /\ owing \subseteq Elements(reqs)
      /\ Elements(reqs) \subseteq Execs
  BY MatchTypes, Zenon
<1> h \in owing /\ Head(read_buffer) = x
  BY FirstResponse, Zenon
<1>2. stream # <<>> /\ Head(stream) = x
  BY ConcatHeadTail, Zenon DEF stream
<1>3. /\ expected_responses[h] \in Nat /\ Expect(h) \in Nat
      /\ 1 <= expected_responses[h] /\ expected_responses[h] <= Expect(h)
  BY ExpectedType, Zenon DEF CountInv, Expect
<1> h \in Execs /\ n \in 1 .. Expect(h) /\ x \in Execs \X Nat /\ x # Push
  BY <1>3, PushIsNoResponse, SMTT(30)
<1>5. Matched(stream, O, U, InOrder(reqs), peer)
  BY Zenon DEF Linked
<1>6. 1 \in DOMAIN stream /\ stream[1] = x
  BY <1>2
<1>7. ASSUME h \in Elements(unsent) PROVE FALSE
  <2>1. x \in U
    BY <1>7, UnsentAreOwing, Zenon
  <2> HIDE DEF x, O, U
  <2>2. x \in O \cap Elements(stream)
    BY <1>5, <1>6, Zenon DEF Matched, Push, Elements
  <2>3. <<x, x>> \in InOrder(reqs)
    BY <1>5, <2>1, <2>2, Zenon DEF Matched, Push
  <2> QED
    BY <2>3, Zenon DEF IsAsymmetric
<1> QED
  BY <1>7, Zenon DEF Handed

\* Only the last response tells a call to proceed.
LEMMA ProceedingShrinks ==
  ASSUME Inv, Matchable, Next, ~on_read_resp
  PROVE  proceeding' \subseteq proceeding
<1>t. ExecType /\ QueueType
  BY Zenon DEF Inv, TypeOK
<1> USE DEF exec_vars, queue_vars, proceeding
<1>0. ASSUME UNCHANGED <<notified, stopped, failed, cancelled>> PROVE proceeding' \subseteq proceeding
  BY <1>0, Zenon
<1>s. ASSUME NEW S, NEW W, stop_requests(S, W), W \subseteq failed', failed \subseteq failed',
             UNCHANGED cancelled
      PROVE  proceeding' \subseteq proceeding
  BY <1>s, Zenon DEF stop_requests
<1>c. ASSUME NEW W, cancel_run(W), W \subseteq failed', failed \subseteq failed', UNCHANGED cancelled
      PROVE  proceeding' \subseteq proceeding
  <2> CASE cancel_run_called
    BY <1>c, Zenon DEF cancel_run
  <2> CASE ~cancel_run_called
    BY <1>c, <1>s, Zenon DEF cancel_run, cancel_on_conn_lost
  <2> QED
    BY Zenon
<1> {} \subseteq failed' /\ (failed' = failed => failed \subseteq failed')
  BY Zenon
<1> CASE UserNext
  <2> CASE user_cancel_run
    BY <1>c, Zenon DEF user_cancel_run, cancel_run_and_wake
  <2> CASE user_cancel_exec
    BY <1>s DEF user_cancel_exec, cancel_unwritten_requests
  <2> CASE user_cancel_all
    BY <1>s DEF user_cancel_all, cancel_unwritten_requests
  <2>4. ASSUME NEW e \in Execs, cancel_exec_op(e) PROVE proceeding' \subseteq proceeding
    BY <2>4, Zenon DEF cancel_exec_op
  <2> QED
    BY <1>0, <2>4, Zenon DEF UserNext, async_exec, user_cancel_receive, cancel_run_op, async_receive_waits
<1>2. ASSUME NEW e \in Execs, ExecNext(e) PROVE proceeding' \subseteq proceeding
  <2> CASE exec_op_cancelled(e)
    BY <1>0, <1>c, Zenon DEF exec_op_cancelled, cancel_run_and_wake
  <2> QED
    BY <1>0, <1>2, Zenon DEF ExecNext, exec_op_not_connected, exec_op_completes
<1> CASE WriterNext
  <2> CASE writer_op_error
    BY <1>c, Zenon DEF writer_op_error
  <2> CASE writer_op_on_write
    <3>1. push_requests = {}
      BY NoPushRequests, Zenon
    <3>2. notified' = notified \cup push_requests /\ UNCHANGED <<stopped, failed, cancelled>>
      BY Zenon DEF writer_op_on_write
    <3> QED
      BY <1>0, <3>1, <3>2, Zenon
  <2> QED
    BY <1>0, Zenon DEF WriterNext, write_some, async_write_done, writer_op_woken, writer_op_cancelled
<1> CASE ReaderNext
  <2> CASE reader_op_error
    BY <1>c, Zenon DEF reader_op_error
  <2> CASE on_read_error
    <3>1. \E W : failed' = failed \cup W /\ cancel_run(W) /\ UNCHANGED cancelled
      BY Zenon DEF on_read_error
    <3> QED
      BY <1>c, <3>1, Zenon
  <2> QED
    BY <1>0, Zenon DEF ReaderNext, append_some, append_some_fails,
       reader_op_resumes, on_read_needs_more, on_read_push
<1> CASE RunNext
  <2> CASE run_all_op_fails
    BY <1>c, Zenon DEF run_all_op_fails
  <2> QED
    BY <1>0, Zenon DEF RunNext, async_connect, run_op_starts, run_op_completes
<1> CASE receive \/ server_replies \/ server_pushes \/ server_leaves
  BY <1>0, Zenon DEF receive, server_replies, server_pushes, server_leaves
<1> QED
  BY <1>2, Zenon DEF Next

\* The steps that Delivery does not see.
LEMMA CallsStay ==
  ASSUME Next, ~write_some, ~on_read_resp, ~\E e \in Execs : ExecNext(e),
         ~\E e \in Execs, k \in Kinds : async_exec(e, k)
  PROVE  UNCHANGED <<op, req, expected_responses, sent>>
<1> USE DEF exec_vars, writer_vars
<1> CASE UserNext
  BY Zenon DEF UserNext, cancel_exec_op, user_cancel_run, user_cancel_exec,
              user_cancel_receive, user_cancel_all, cancel_run_op, async_receive_waits
<1> CASE WriterNext
  <2> CASE writer_op_on_write
    BY Zenon DEF writer_op_on_write
  <2> QED
    BY Zenon DEF WriterNext, async_write_done, writer_op_error, writer_op_woken,
                      writer_op_cancelled
<1> CASE ReaderNext
  BY Zenon DEF ReaderNext, append_some, append_some_fails, reader_op_error, reader_op_resumes,
              on_read_needs_more, on_read_push, on_read_error
<1> CASE RunNext
  BY Zenon DEF RunNext, async_connect, run_all_op_fails, run_op_starts, run_op_completes
<1> CASE receive \/ server_replies \/ server_pushes \/ server_leaves
  BY Zenon DEF receive, server_replies, server_pushes, server_leaves
<1> QED
  BY Zenon DEF Next

\* The steps that leave the writer's buffer alone.
LEMMA BufferStays ==
  ASSUME Next, ~write_some, ~writer_op_woken, ~writer_op_on_write, ~run_op_starts
  PROVE  UNCHANGED <<write_buffer, handed, sent>>
<1> USE DEF writer_vars
<1> CASE UserNext
  BY Zenon DEF UserNext, async_exec, cancel_exec_op, user_cancel_run, user_cancel_exec,
              user_cancel_receive, user_cancel_all, cancel_run_op, async_receive_waits
<1> CASE WriterNext
  BY Zenon DEF WriterNext, async_write_done, writer_op_error, writer_op_cancelled
<1> CASE ReaderNext
  BY Zenon DEF ReaderNext, append_some, append_some_fails, reader_op_error, reader_op_resumes,
              on_read_needs_more, on_read_push, on_read_error, on_read_resp
<1> CASE RunNext
  BY Zenon DEF RunNext, async_connect, run_all_op_fails, run_op_completes
<1> CASE receive \/ server_replies \/ server_pushes \/ server_leaves
  BY Zenon DEF receive, server_replies, server_pushes, server_leaves
<1>6. ASSUME NEW e \in Execs, ExecNext(e) PROVE UNCHANGED <<write_buffer, handed, sent>>
  BY <1>6, Zenon DEF ExecNext, exec_op_not_connected, exec_op_completes, exec_op_cancelled
<1> QED
  BY <1>6, Zenon DEF Next

\* What coalesce_requests stages is to be sent.
LEMMA StagedAreUnsent ==
  ASSUME Inv, NEW q, NEW st, Staging(q, st)
  PROVE  owing' \subseteq owing \cup Elements(unsent')
<1> DEFINE T == {e \in Execs : st[e] # "waiting"}
           staged == SubSeq(q, PartitionPoint(q, T) + 1, Len(q))
<1>   /\ q \in Seq(Execs) /\ st \in [Execs -> {"waiting", "staged", "written"}]
      /\ Ordered(q, st) /\ Elements(q) = Elements(reqs)
      /\ \A e \in Execs : st[e] = "waiting" <=> status[e] = "waiting"
      /\ Elements(reqs) \subseteq Execs
  BY MatchTypes, Zenon DEF Staging
<1>1. IsPartitioned(q, T)
  BY OrderedIsPartitioned, Zenon
<1> staged \in Seq(Execs) /\ Elements(staged) = Elements(q) \ T
  BY <1>1, PartitionTail, ZenonT(30)
<1>   /\ reqs' = q /\ write_buffer' = <<>> \o staged /\ handed' = 0
      /\ status' = [e \in Execs |-> IF e \in Elements(staged) THEN "staged" ELSE st[e]]
  BY Zenon DEF Staging, coalesce_requests
<1> HIDE DEF staged
<1>4. write_buffer' = staged
  OBVIOUS
<1>5. unsent' = staged
  <2>1. SubSeq(staged, 1, Len(staged)) = staged
    OBVIOUS
  <2> QED
    BY <1>4, <2>1 DEF unsent
<1> QED
  BY <1>5, Zenon DEF owing, waiting

\* What is owed a response has been handed over or will be.
LEMMA HandedStep ==
  ASSUME Inv, ClosedInv, AllWaitingAtStart, MatchInv, DeliveryInv, Matchable, Next,
         run' = "up", open'
  PROVE  Handed'
<1>   /\ write_buffer \in Seq(Execs) /\ handed \in 0 .. Len(write_buffer)
      /\ owing \subseteq Execs /\ unsent \in Seq(Execs) /\ sent \in [Execs -> Nat]
  BY MatchTypes, Zenon DEF Inv, TypeOK, WriterType
<1> CASE run_op_starts
  <2>1. Staging(reqs, status)
    BY StagingHere, Zenon DEF run_op_starts
  <2>2. owing = {}
    BY Zenon DEF AllWaitingAtStart, owing, run_op_starts
  <2>3. owing' \subseteq owing \cup Elements(unsent')
    BY <2>1, StagedAreUnsent, Zenon
  <2> QED
    BY <2>2, <2>3, Zenon DEF Handed
<1> CASE ~run_op_starts
  <2>1. run = "up" /\ open
    BY RunStays, Zenon
  <2> Linked /\ Handed
    BY <2>1, Zenon DEF MatchInv, DeliveryInv
  <2> CASE writer_op_woken \/ writer_op_on_write
    <3>1. \E q, st : Staging(q, st)
      <4> CASE writer_op_woken
        <5>1. write_buffer = <<>> /\ coalesce_requests(reqs, status, write_buffer)
          BY Zenon DEF Inv, WriterInv, writer_op_woken
        <5> QED
          BY <5>1, StagingHere, Zenon
      <4> QED
        BY <2>1, OnWriteStages, Zenon
    <3>2. owing' \subseteq owing \cup Elements(unsent')
      BY <3>1, StagedAreUnsent, Zenon
    <3>3. handed = Len(write_buffer)
      <4> CASE writer_op_woken
        <5>1. write_buffer = <<>>
          BY Zenon DEF Inv, WriterInv, writer_op_woken
        <5> QED
          BY <5>1
      <4> CASE writer_op_on_write
        <5>1. wr = "wrote"
          BY Zenon DEF writer_op_on_write
        <5> QED
          BY <5>1, Zenon DEF Linked
      <4> QED
        BY Zenon
    <3>4. unsent = <<>>
      BY <3>3, SplitAt, Zenon DEF unsent
    <3>5. Elements(unsent) = {}
      BY <3>4 DEF Elements
    <3>6. UNCHANGED sent
      <4> CASE writer_op_on_write
        BY Zenon DEF writer_op_on_write
      <4> QED
        BY Zenon DEF writer_op_woken
    <3> QED
      BY <3>2, <3>5, <3>6, Zenon DEF Handed
  <2> CASE ~(writer_op_woken \/ writer_op_on_write)
    <3>1. owing' \subseteq owing
      BY OwingShrinks, Zenon
    <3> CASE write_some
      <4> DEFINE e == write_buffer[handed + 1]
      <4>   /\ handed < Len(write_buffer) /\ handed' = handed + 1 /\ UNCHANGED write_buffer
            /\ sent' = [sent EXCEPT ![e] = @ + 1]
        BY Zenon DEF write_some
      <4>2. unsent # <<>> /\ Head(unsent) = e
            /\ Tail(unsent) = SubSeq(write_buffer, handed + 2, Len(write_buffer))
        BY SplitAt, Zenon DEF unsent
      <4>3. handed' + 1 = handed + 2
        OBVIOUS
      <4>4. unsent' = Tail(unsent)
        BY <4>2, <4>3, Zenon DEF unsent
      <4> HIDE DEF e
      <4>5. Elements(unsent) = Elements(Tail(unsent)) \cup {e} /\ e \in Execs
        BY <4>2, TailBefore, Zenon
      <4>6. \A f \in Execs : sent[f] > 0 \/ f = e => sent'[f] > 0
        BY <4>5
      <4> QED
        BY <3>1, <4>4, <4>5, <4>6, Zenon DEF Handed
    <3> CASE ~write_some
      <4>1. UNCHANGED <<write_buffer, handed, sent>>
        BY BufferStays, Zenon
      <4>2. unsent' = unsent
        BY <4>1, Zenon DEF unsent
      <4> QED
        BY <3>1, <4>1, <4>2, Zenon DEF Handed
    <3> QED
      BY Zenon
  <2> QED
    BY Zenon
<1> QED
  BY Zenon

\* The transport is given only requests of pending calls.
LEMMA WrittenIsPending ==
  ASSUME Inv, LiveInv, MatchInv, Matchable, write_some
  PROVE  LET e == write_buffer[handed + 1]
         IN  /\ e \in Execs /\ op[e] = "waiting"
             /\ handed + 1 \in DOMAIN write_buffer
             /\ sent' = [sent EXCEPT ![e] = @ + 1]
             /\ UNCHANGED <<op, req, expected_responses>>
<1> DEFINE e == write_buffer[handed + 1]
<1>   /\ write_buffer \in Seq(Execs) /\ handed \in 0 .. Len(write_buffer)
      /\ unsent \in Seq(Execs) /\ owing \subseteq Elements(reqs)
  BY MatchTypes, Zenon
<1>   /\ wr = "writing" /\ open /\ handed < Len(write_buffer)
      /\ sent' = [sent EXCEPT ![e] = @ + 1]
      /\ UNCHANGED <<op, req, expected_responses>>
  BY Zenon DEF write_some, exec_vars
<1>2. run = "up"
  BY Zenon DEF Inv, WriterInv
<1>3. Linked
  BY <1>2, Zenon DEF MatchInv
<1>4. unsent # <<>> /\ Head(unsent) = e
  BY SplitAt, Zenon DEF unsent
<1>5. handed + 1 \in DOMAIN write_buffer
  OBVIOUS
<1> HIDE DEF e
<1>6. e \in Elements(unsent) /\ e \in Execs
  BY <1>4, TailBefore, ZenonT(30)
<1>7. e \in owing
  BY <1>3, <1>6, UnsentAreOwing, Zenon
<1> QED
  BY <1>5, <1>6, <1>7, Zenon DEF LiveInv, QueuedAreLive, e

\* A response is counted for a pending call whose request was handed over.
LEMMA AnsweredIsPending ==
  ASSUME Inv, ClosedInv, LiveInv, MatchInv, DeliveryInv, Matchable, on_read_resp
  PROVE  LET h == Head(reqs)
         IN  /\ h \in Execs /\ h \in Elements(reqs) /\ op[h] = "waiting" /\ sent[h] > 0
             /\ expected_responses[h] \in Nat /\ expected_responses[h] > 0
             /\ expected_responses' = [expected_responses EXCEPT ![h] = @ - 1]
             /\ UNCHANGED <<op, req, sent, failed, stopped, cancelled>>
             /\ notified' = notified \/ (expected_responses[h] = 1 /\ notified' = notified \cup {h})
<1> DEFINE h == Head(reqs)
<1>t. /\ reqs \in Seq(Execs) /\ expected_responses \in [Execs -> Nat]
  BY MatchTypes, Zenon
<1>   /\ rd = "parsing" /\ read_buffer # <<>> /\ ~(on_push \/ is_next_push)
      /\ expected_responses' = [expected_responses EXCEPT ![h] = @ - 1]
      /\ UNCHANGED <<op, req, sent, failed, stopped, cancelled>>
      /\ notified' = notified \/ (expected_responses[h] = 1 /\ notified' = notified \cup {h})
  BY Zenon DEF on_read_resp, parsing_message, writer_vars
<1>2. run = "up" /\ open
  BY Zenon DEF ClosedInv
<1>3. CountInv /\ Linked /\ Handed
  BY <1>2, Zenon DEF MatchInv, DeliveryInv
<1>4. Head(read_buffer) # Push
  BY Zenon DEF is_next_push
<1> reqs # <<>> /\ 1 <= expected_responses[h] /\ sent[h] > 0
  BY <1>3, <1>4, FirstResponse, FrontIsSent, Zenon
<1> h \in Execs /\ h \in Elements(reqs)
  BY <1>t, TailBefore, Zenon
<1> HIDE DEF h
<1>7. expected_responses[h] \in Nat /\ expected_responses[h] > 0
  BY <1>t
<1>8. op[h] = "waiting"
  BY Zenon DEF LiveInv, QueuedAreLive
<1> QED
  BY <1>7, <1>8, Zenon DEF h

\* Every step keeps DeliveryInv.
LEMMA DeliveryStep ==
  ASSUME Inv, ClosedInv, AllWaitingAtStart, LiveInv, MatchInv, DeliveryInv, Matchable, Next
  PROVE  DeliveryInv'
<1>   /\ op \in [Execs -> {"idle", "posted", "waiting"} \cup Results]
      /\ expected_responses \in [Execs -> Nat] /\ sent \in [Execs -> Nat]
      /\ proceeding \subseteq Execs /\ proceeding \subseteq notified /\ proceeding' \subseteq notified'
  BY Zenon DEF Inv, TypeOK, ExecType, QueueType, WriterType, proceeding
<1>   /\ \A e \in Execs : op[e] \in {"idle", "posted"} => sent[e] = 0
      /\ \A e \in proceeding : expected_responses[e] = 0 /\ sent[e] > 0
  BY Zenon DEF DeliveryInv
<1>1. run' = "up" /\ open' => Handed'
  BY HandedStep, Zenon
<1> DEFINE Goal == /\ \A e \in Execs : op'[e] \in {"idle", "posted"} => sent'[e] = 0
                   /\ \A e \in proceeding' : expected_responses'[e] = 0 /\ sent'[e] > 0
<1>2. ASSUME NEW e \in Execs, NEW k \in Kinds, async_exec(e, k) PROVE Goal
  <2>1. /\ op[e] = "idle" /\ (op' = [op EXCEPT ![e] = "posted"] \/ op' = [op EXCEPT ![e] = "waiting"])
        /\ expected_responses' = [expected_responses EXCEPT ![e] = get_expected_responses(k)]
        /\ UNCHANGED <<notified, stopped, failed, cancelled, sent>>
    BY <1>2, Zenon DEF async_exec
  <2>2. proceeding' = proceeding /\ e \notin proceeding
    BY <2>1, Zenon DEF proceeding, LiveInv
  <2> QED
    BY <2>1, <2>2, Zenon
<1>3. ASSUME NEW e \in Execs, ExecNext(e) PROVE Goal
  <2>   /\ \E r \in Results : op' = [op EXCEPT ![e] = r]
        /\ UNCHANGED <<expected_responses, sent>>
    BY <1>3, Zenon DEF ExecNext, exec_op_not_connected, exec_op_completes, exec_op_cancelled,
                complete, Results, writer_vars
  <2>2. \A f \in Execs : op'[f] \in {"idle", "posted"} => op[f] = op'[f]
    BY Zenon DEF Results
  <2>3. ~on_read_resp
    BY <1>3, Zenon DEF on_read_resp, ExecNext, exec_op_not_connected, exec_op_completes,
                            exec_op_cancelled, ExecutorFree, parsing_message
  <2>4. proceeding' \subseteq proceeding
    BY <2>3, ProceedingShrinks, Zenon
  <2> QED
    BY <2>2, <2>4, Zenon
<1>4. ASSUME write_some PROVE Goal
  <2> DEFINE e == write_buffer[handed + 1]
  <2>   /\ e \in Execs /\ op[e] = "waiting" /\ sent' = [sent EXCEPT ![e] = @ + 1]
        /\ UNCHANGED <<op, req, expected_responses>>
    BY <1>4, WrittenIsPending, Zenon
  <2>2. ~on_read_resp
    BY <1>4, Zenon DEF on_read_resp, write_some, ExecutorFree, parsing_message
  <2>3. proceeding' \subseteq proceeding
    BY <2>2, ProceedingShrinks, Zenon
  <2> HIDE DEF e
  <2>4. \A f \in Execs : /\ f # e => sent'[f] = sent[f]
                         /\ sent[f] > 0 => sent'[f] > 0
    OBVIOUS
  <2>5. \A f \in Execs : op'[f] \in {"idle", "posted"} => sent'[f] = 0
    BY <2>4, Zenon
  <2>6. \A f \in proceeding' : expected_responses'[f] = 0 /\ sent'[f] > 0
    BY <2>3, <2>4, Zenon
  <2> QED
    BY <2>5, <2>6, Zenon
<1>5. ASSUME on_read_resp PROVE Goal
  <2> DEFINE h == Head(reqs)
  <2>   /\ h \in Execs /\ h \in Elements(reqs) /\ sent[h] > 0
        /\ expected_responses' = [expected_responses EXCEPT ![h] = @ - 1]
        /\ UNCHANGED <<op, req, sent, failed, stopped, cancelled>>
        /\ notified' = notified \/ (expected_responses[h] = 1 /\ notified' = notified \cup {h})
    BY <1>5, AnsweredIsPending, Zenon
  <2> HIDE DEF h
  <2>2. h \notin proceeding
    BY Zenon DEF proceeding, LiveInv
  <2>3. \A e \in proceeding' : \/ e \in proceeding
                               \/ e = h /\ expected_responses[h] = 1
    BY Zenon DEF proceeding
  <2>4. \A e \in Execs : op'[e] \in {"idle", "posted"} => sent'[e] = 0
    BY Zenon
  <2>5. ASSUME NEW e \in proceeding' PROVE expected_responses'[e] = 0 /\ sent'[e] > 0
    <3>1. CASE e \in proceeding
      BY <2>2, <3>1, Zenon
    <3>2. CASE e = h /\ expected_responses[h] = 1
      BY <3>2
    <3> QED
      BY <2>3, <3>1, <3>2, Zenon
  <2> QED
    BY <2>4, <2>5, Zenon
<1>6. ASSUME ~write_some, ~on_read_resp, ~\E e \in Execs : ExecNext(e),
             ~\E e \in Execs, k \in Kinds : async_exec(e, k)
      PROVE  Goal
  <2>1. UNCHANGED <<op, req, expected_responses, sent>>
    BY <1>6, CallsStay, Zenon
  <2>2. proceeding' \subseteq proceeding
    BY <1>6, ProceedingShrinks, Zenon
  <2>3. \A e \in Execs : op'[e] \in {"idle", "posted"} => sent'[e] = 0
    BY <2>1, Zenon
  <2>4. \A e \in proceeding' : expected_responses'[e] = 0 /\ sent'[e] > 0
    BY <2>1, <2>2, Zenon
  <2> QED
    BY <2>3, <2>4, Zenon
<1> HIDE DEF Goal
<1>7. Goal
  BY <1>2, <1>3, <1>4, <1>5, <1>6, Zenon
<1> QED
  BY <1>1, <1>7, Zenon DEF DeliveryInv, Goal

\* DeliveryInv is invariant.
LEMMA DeliveryInvariance ==
  ASSUME Matchable, AbandonedAreDropped
  PROVE  Spec => []DeliveryInv
<1>1. Init => DeliveryInv
  BY Zenon DEF Init, DeliveryInv, proceeding
<1>2. Inv /\ ClosedInv /\ AllWaitingAtStart /\ LiveInv /\ MatchInv /\ DeliveryInv /\ [Next]_vars
      => DeliveryInv'
  <2>1. Inv /\ ClosedInv /\ AllWaitingAtStart /\ LiveInv /\ MatchInv /\ DeliveryInv /\ Next
        => DeliveryInv'
    BY DeliveryStep, Zenon
  <2>2. ASSUME DeliveryInv, UNCHANGED vars PROVE DeliveryInv'
    <3>1. /\ UNCHANGED <<op, expected_responses, sent, stopped, failed, cancelled, notified>>
          /\ UNCHANGED <<reqs, status, write_buffer, handed, open, run>>
      BY <2>2, Zenon DEF vars, exec_vars, queue_vars, writer_vars, conn_vars
    <3>2. UNCHANGED <<proceeding, Handed>>
      BY <3>1, Zenon DEF proceeding, Handed, owing, waiting, unsent
    <3> QED
      BY <2>2, <3>1, <3>2, Zenon DEF DeliveryInv
  <2> QED
    BY <2>1, <2>2, Zenon
<1>3. "cancel_run_op" \notin Env
  BY Zenon DEF Matchable
<1>4. Spec => []AllWaitingAtStart
  BY <1>3, RunsStartWithWaitingRequests, Zenon
<1> QED
  BY Invariance, ClosedInvariance, LiveInvariance, MatchInvariance, <1>1, <1>2, <1>4, PTL DEF Spec

-------------------------------------------------------------------------------
(* The refinement mapping, one lemma for each action of Delivery.            *)

\* async_exec is Call.
LEMMA AsyncExecIsCall ==
  ASSUME Inv, NEW e \in Execs, NEW k \in Kinds, async_exec(e, k)
  PROVE  D!Call(e)
<1>   /\ op \in [Execs -> {"idle", "posted", "waiting"} \cup Results]
      /\ req \in [Execs -> Kinds] /\ expected_responses \in [Execs -> Nat]
  BY Zenon DEF Inv, TypeOK, ExecType
<1> DEFINE res == [f \in Execs |-> IF op[f] \in {"posted", "waiting"} THEN "pending" ELSE op[f]]
           one == {f \in Execs : op[f] # "idle" /\ req[f].cancel_if_unresponded}
<1>   /\ op[e] = "idle" /\ \E p \in {"posted", "waiting"} : op' = [op EXCEPT ![e] = p]
      /\ req' = [req EXCEPT ![e] = k] /\ UNCHANGED sent
      /\ expected_responses' = [expected_responses EXCEPT ![e] = get_expected_responses(k)]
  BY Zenon DEF async_exec
<1>2. res[e] = "idle" /\ res' = [res EXCEPT ![e] = "pending"]
  BY Zenon
<1>3. one' \in {one, one \cup {e}}
  <2>1. \A f \in Execs : f # e => (f \in one' <=> f \in one)
    BY Zenon
  <2>2. one \subseteq Execs /\ one' \subseteq Execs /\ e \notin one
    BY Zenon
  <2> HIDE DEF one
  <2>3. CASE e \in one'
    BY <2>1, <2>2, <2>3, Zenon
  <2>4. CASE e \notin one'
    BY <2>1, <2>2, <2>4, SMTT(30)
  <2> QED
    BY <2>3, <2>4, Zenon
<1>4. /\ expected_responses'[e] \in Nat
      /\ expected_responses' = [expected_responses EXCEPT ![e] = expected_responses'[e]]
  BY ExpectedType, Zenon
<1> QED
  BY <1>2, <1>3, <1>4, Zenon DEF D!Call

\* A step that leaves the calls alone leaves result and once alone.
LEMMA SameCalls ==
  ASSUME UNCHANGED <<op, req>>
  PROVE  /\ UNCHANGED [e \in Execs |-> IF op[e] \in {"posted", "waiting"} THEN "pending" ELSE op[e]]
         /\ UNCHANGED {e \in Execs : op[e] # "idle" /\ req[e].cancel_if_unresponded}
BY Zenon

\* write_some is Transmit.
LEMMA WriteSomeIsTransmit ==
  ASSUME Inv, LiveInv, MatchInv, SentInv, Matchable, write_some
  PROVE  \E e \in Execs : D!Transmit(e)
<1> DEFINE e == write_buffer[handed + 1]
<1>   /\ e \in Execs /\ op[e] = "waiting" /\ handed + 1 \in DOMAIN write_buffer
      /\ sent' = [sent EXCEPT ![e] = @ + 1]
      /\ UNCHANGED <<op, req, expected_responses>>
  BY WrittenIsPending, Zenon
<1>2. Once(e) => sent[e] = 0
  <2>1. handed + 1 > handed
    BY DEF Inv, TypeOK, WriterType
  <2> QED
    BY <2>1, Zenon DEF SentInv
<1>3. req[e].cancel_if_unresponded => sent[e] = 0
  BY <1>2, Zenon DEF Once
<1> HIDE DEF e
<1>4. D!Transmit(e)
  BY <1>3, SameCalls, Zenon DEF D!Transmit
<1> QED
  BY <1>4, Zenon

\* on_read_resp is Answer.
LEMMA OnReadRespIsAnswer ==
  ASSUME Inv, ClosedInv, LiveInv, MatchInv, DeliveryInv, Matchable, on_read_resp
  PROVE  \E e \in Execs : D!Answer(e)
<1> DEFINE h == Head(reqs)
<1>1. /\ h \in Execs /\ op[h] = "waiting" /\ sent[h] > 0 /\ expected_responses[h] > 0
      /\ expected_responses' = [expected_responses EXCEPT ![h] = @ - 1]
      /\ UNCHANGED <<op, req, sent>>
  BY AnsweredIsPending, Zenon
<1> HIDE DEF h
<1>2. D!Answer(h)
  BY <1>1, SameCalls, Zenon DEF D!Answer
<1> QED
  BY <1>1, <1>2, Zenon

\* The end of exec_op is Complete, with success only when all is done.
LEMMA ExecIsComplete ==
  ASSUME Inv, DeliveryInv, NEW e \in Execs, ExecNext(e)
  PROVE  \E r \in {"ok", "aborted", "error", "not_connected"} : D!Complete(e, r)
<1>t. op \in [Execs -> {"idle", "posted", "waiting"} \cup Results]
  BY Zenon DEF Inv, TypeOK, ExecType
<1>   /\ op[e] \in {"posted", "waiting"} /\ UNCHANGED <<req, expected_responses, sent>>
      /\ \E r \in Results :
            /\ op' = [op EXCEPT ![e] = r]
            /\ r = "ok" => e \in proceeding
            /\ r = "not_connected" => op[e] = "posted"
  <2>1. CASE exec_op_not_connected(e)
    BY <2>1, Zenon DEF exec_op_not_connected, Results, writer_vars
  <2>2. CASE exec_op_completes(e)
    <3>1. /\ op[e] = "waiting" /\ e \in notified /\ UNCHANGED <<req, expected_responses, sent>>
          /\ \/ op' = [op EXCEPT ![e] = "error"]
             \/ op' = [op EXCEPT ![e] = "aborted"]
             \/ op' = [op EXCEPT ![e] = "ok"] /\ e \notin failed \cup stopped \cup cancelled
      BY <2>2, Zenon DEF exec_op_completes, complete, writer_vars
    <3> QED
      BY <3>1, Zenon DEF Results, proceeding
  <2>3. CASE exec_op_cancelled(e)
    BY <2>3, Zenon DEF exec_op_cancelled, complete, Results
  <2> QED
    BY <2>1, <2>2, <2>3, Zenon DEF ExecNext
<1>2. PICK r \in Results : /\ op' = [op EXCEPT ![e] = r]
                           /\ r = "ok" => e \in proceeding
                           /\ r = "not_connected" => op[e] = "posted"
  BY Zenon
<1>3. /\ r = "ok" => sent[e] > 0 /\ expected_responses[e] = 0
      /\ r = "not_connected" => sent[e] = 0
  BY <1>2, Zenon DEF DeliveryInv
<1>4. [f \in Execs |-> IF op'[f] \in {"posted", "waiting"} THEN "pending" ELSE op'[f]]
      = [[f \in Execs |-> IF op[f] \in {"posted", "waiting"} THEN "pending" ELSE op[f]]
            EXCEPT ![e] = r]
  BY <1>t, <1>2, Zenon DEF Results
<1>5. {f \in Execs : op'[f] # "idle" /\ req'[f].cancel_if_unresponded}
      = {f \in Execs : op[f] # "idle" /\ req[f].cancel_if_unresponded}
  <2>1. \A f \in Execs : op'[f] # "idle" <=> op[f] # "idle"
    BY <1>t, <1>2, Zenon DEF Results
  <2> QED
    BY <2>1, Zenon
<1>6. D!Complete(e, r)
  BY <1>3, <1>4, <1>5, Zenon DEF D!Complete
<1> QED
  BY <1>6, Zenon DEF Results

\* Delivers (exec_op, writer_op and reader_op in connection_base.hpp): with
\* requests that are Matchable and dropped when they are abandoned,
\* connection_base implements Delivery.  Whatever is lost, split or rejected,
\* and whatever is cancelled except async_run through its own operation, each call completes once; its request is handed over only while
\* the call is pending, and once only if the caller asks for that; and success
\* means that all the responses to it have been read.
THEOREM ConnectionDelivers ==
  ASSUME Matchable, AbandonedAreDropped
  PROVE  Spec => Delivers
<1>1. Init => D!DInit
  BY ZenonT(30) DEF Init, D!DInit
<1>2. /\ Inv /\ ClosedInv /\ LiveInv /\ MatchInv /\ SentInv /\ DeliveryInv
      /\ [Next]_vars
      => [D!DNext]_(D!dvars)
  <2> SUFFICES ASSUME Inv, ClosedInv, LiveInv, MatchInv, SentInv, DeliveryInv, [Next]_vars
               PROVE  D!DNext \/ UNCHANGED D!dvars
    BY Zenon
  <2>0. ASSUME UNCHANGED <<op, req, expected_responses, sent>> PROVE UNCHANGED D!dvars
    BY <2>0, SameCalls, Zenon DEF D!dvars
  <2>1. CASE UNCHANGED vars
    BY <2>0, <2>1, Zenon DEF vars, exec_vars, writer_vars
  <2>2. ASSUME NEW e \in Execs, NEW k \in Kinds, async_exec(e, k) PROVE D!DNext
    BY <2>2, AsyncExecIsCall, Zenon DEF D!DNext
  <2>3. ASSUME NEW e \in Execs, ExecNext(e) PROVE D!DNext
    BY <2>3, ExecIsComplete, Zenon DEF D!DNext
  <2>4. CASE write_some
    BY <2>4, WriteSomeIsTransmit, Zenon DEF D!DNext
  <2>5. CASE on_read_resp
    BY <2>5, OnReadRespIsAnswer, Zenon DEF D!DNext
  <2> QED
    BY <2>0, <2>1, <2>2, <2>3, <2>4, <2>5, CallsStay, Zenon
<1> QED
  BY Invariance, ClosedInvariance, LiveInvariance, MatchInvariance, SentInvariance,
     DeliveryInvariance, <1>1, <1>2, PTL DEF Spec, Delivers, D!DSpec

==============================================================================
