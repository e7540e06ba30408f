----------------------------- MODULE Connection -----------------------------
(***************************************************************************)
(* connection_base (detail/connection_base.hpp): the queue of requests,    *)
(* the operations exec_op, writer_op, reader_op and run_op that share it,  *)
(* and the cancellations that cut across them.                             *)
(*                                                                         *)
(* All handlers of a connection run on one executor, one after the other,  *)
(* so an action is one handler.  An operation that has completed is not    *)
(* the same as its handler having run: between the two, other handlers run *)
(* (the comments at connection_base.hpp:254 and :331), and the model keeps *)
(* the two apart everywhere.  The reader's handler loops over the messages *)
(* in its buffer; the loop is one step per message, and while rd =         *)
(* "parsing" no other handler runs.                                        *)
(***************************************************************************)
EXTENDS Deque

CONSTANTS
    Execs,      \* the calls to async_exec
    Kinds,      \* the requests they may be made with
    Capacity,   \* capacity of receive_channel_
    MaxRuns,    \* bound: connection attempts
    MaxPushes,  \* bound: unsolicited pushes of the server
    Env         \* the events of the environment that may happen, see Events

\* What the environment may do beyond calling async_exec and answering.
Events == {"peer_loss",      \* the server goes away, or refuses a connection
           "split",          \* a message arrives in two parts
           "adapter_error",  \* a message does not fit the user's response type
           "receive",        \* the user waits for pushes with async_receive
           "cancel",         \* the user calls connection::cancel
           "cancel_exec_op", \* terminal per-operation cancellation of async_exec
           "cancel_run_op"}  \* terminal per-operation cancellation of async_run

(***************************************************************************)
(* A request: its commands, each of which the server answers with a        *)
(* response ("resp") or only with pushes ("push": SUBSCRIBE and its kin,   *)
(* has_response in impl/request.ipp), and its configuration.               *)
(***************************************************************************)
Requests == [cmds : Seq({"resp", "push"}),
             cancel_on_connection_lost : BOOLEAN,
             cancel_if_unresponded     : BOOLEAN,
             cancel_if_not_connected   : BOOLEAN,
             has_hello_priority        : BOOLEAN]

ASSUME ConnectionAssumption ==
    /\ Kinds # {} /\ Kinds \subseteq Requests
    /\ Capacity \in Nat \ {0}
    /\ MaxRuns \in Nat /\ MaxPushes \in Nat
    /\ Env \subseteq Events

VARIABLES
    op,                  \* exec_op: where it is suspended, or how it completed
    req,                 \* req_info::req_
    status,              \* req_info::status_
    expected_responses,  \* req_info::expected_responses_
    notified,            \* execs whose wait on notifier_ has completed
    stopped,             \* execs whose notifier_ has been closed
    failed,              \* execs with req_info::ec_ set
    cancelled,           \* execs that have been sent a terminal cancellation
    reqs,                \* reqs_
    open,                \* stream_->next_layer().is_open()
    cancel_run_called,   \* cancel_run_called_
    wr, wr_cancelled,    \* writer_op, and whether the group has cancelled it
    write_buffer,        \* write_buffer_, as the requests whose payload it is
    handed,              \* how many of them the transport has accepted
    rd, rd_cancelled,    \* reader_op, and whether the group has cancelled it
    read_buffer,         \* read_buffer_, as messages
    partial,             \* the last message of read_buffer is incomplete
    on_push,             \* on_push_
    channel,             \* how many pushes receive_channel_ holds
    receiver,            \* an async_receive is suspended on receive_channel_
    run,                 \* run_all_op and run_op
    peer,                \* the server is there
    commands, answered,  \* requests the server has received, and how many
                         \* commands of the first one it has answered
    replies,             \* messages on the way to the client
    runs, pushes,        \* counters for the bounds
    sent                 \* history: how often a payload was handed over

exec_vars   == <<op, req, expected_responses, failed, cancelled>>
queue_vars  == <<reqs, status, notified, stopped>>
writer_vars == <<wr, wr_cancelled, write_buffer, handed, sent>>
reader_vars == <<rd, rd_cancelled, read_buffer, partial, on_push>>
conn_vars   == <<open, cancel_run_called, run, runs>>
chan_vars   == <<channel, receiver>>
server_vars == <<peer, commands, answered, replies, pushes>>
vars == <<exec_vars, queue_vars, writer_vars, reader_vars, conn_vars,
          chan_vars, server_vars>>

\* A message is a push, or the response to the i-th command with a response
\* of exec e.
Push == <<>>
Messages == {Push} \cup (Execs \X Nat)

Responding(cmds, n) == Cardinality({i \in 1 .. n : cmds[i] = "resp"})
\* Variant: one response is not counted.
get_expected_responses_short(k) == Responding(k.cmds, Len(k.cmds)) - 1
get_expected_responses(k) == Responding(k.cmds, Len(k.cmds))

Results == {"ok", "aborted", "error", "not_connected"}

ExecType ==
    /\ op \in [Execs -> {"idle", "posted", "waiting"} \cup Results]
    /\ req \in [Execs -> Kinds]
    /\ expected_responses \in [Execs -> Nat]
    /\ failed \subseteq Execs /\ cancelled \subseteq Execs
QueueType ==
    /\ reqs \in Seq(Execs)
    /\ status \in [Execs -> {"waiting", "staged", "written"}]
    /\ notified \subseteq Execs /\ stopped \subseteq Execs
WriterType ==
    /\ wr \in {"off", "writing", "wrote", "write_err", "timer", "woken", "exited"}
    /\ wr_cancelled \in BOOLEAN
    /\ write_buffer \in Seq(Execs) /\ handed \in 0 .. Len(write_buffer)
    /\ sent \in [Execs -> Nat]
ReaderType ==
    /\ rd \in {"off", "reading", "read", "read_err", "parsing",
               "sending", "sent", "send_err", "exited"}
    /\ rd_cancelled \in BOOLEAN
    /\ read_buffer \in Seq(Messages) /\ partial \in BOOLEAN /\ on_push \in BOOLEAN
ConnType ==
    /\ open \in BOOLEAN /\ cancel_run_called \in BOOLEAN
    /\ run \in {"off", "connecting", "up"} /\ runs \in 0 .. MaxRuns
    /\ channel \in 0 .. Capacity /\ receiver \in BOOLEAN
ServerType ==
    /\ peer \in BOOLEAN /\ commands \in Seq(Execs) /\ answered \in Nat
    /\ replies \in Seq(Messages) /\ pushes \in 0 .. MaxPushes
\* Every variable has its type; in particular expected_responses_, a size_t,
\* does not wrap below zero, and receive_channel_ holds no more than it may.
TypeOK == ExecType /\ QueueType /\ WriterType /\ ReaderType /\ ConnType /\ ServerType

Init ==
    /\ op = [e \in Execs |-> "idle"]
    /\ req = [e \in Execs |-> CHOOSE k \in Kinds : TRUE]
    /\ status = [e \in Execs |-> "waiting"]
    /\ expected_responses = [e \in Execs |-> 0]
    /\ notified = {} /\ stopped = {} /\ failed = {} /\ cancelled = {}
    /\ reqs = <<>>
    /\ open = FALSE /\ cancel_run_called = FALSE
    /\ wr = "off" /\ wr_cancelled = FALSE /\ write_buffer = <<>> /\ handed = 0
    /\ rd = "off" /\ rd_cancelled = FALSE
    /\ read_buffer = <<>> /\ partial = FALSE /\ on_push = FALSE
    /\ channel = 0 /\ receiver = FALSE
    /\ run = "off" /\ runs = 0
    /\ peer = FALSE /\ commands = <<>> /\ answered = 0 /\ replies = <<>>
    /\ pushes = 0
    /\ sent = [e \in Execs |-> 0]

\* The executor is free to run a handler other than the reader's.
ExecutorFree == rd # "parsing"

-----------------------------------------------------------------------------
(* Cancellation: connection_base::cancel and cancel_impl.                  *)

waiting == {e \in Execs : status[e] = "waiting"}

\* Variants of lost: the two flags swapped, and only unwritten requests.
lost_flags_swapped ==
    {e \in Elements(reqs) : IF e \in waiting
                            THEN req[e].cancel_if_unresponded
                            ELSE req[e].cancel_on_connection_lost}
lost_only_waiting ==
    {e \in Elements(reqs) \cap waiting : req[e].cancel_on_connection_lost}

\* Requests that cancel_on_conn_lost removes.
lost ==
    {e \in Elements(reqs) : IF e \in waiting
                            THEN req[e].cancel_on_connection_lost
                            ELSE req[e].cancel_if_unresponded}

\* Variants: the notifier of a removed request is left alone, or not closed.
stop_requests_silently(S, W) ==
    /\ reqs' = Keep(reqs, Execs \ S)
    /\ notified' = notified \cup W
    /\ UNCHANGED stopped
stop_requests_by_proceed(S, W) ==
    /\ reqs' = Keep(reqs, Execs \ S)
    /\ notified' = notified \cup S \cup W
    /\ UNCHANGED stopped

\* Removes the requests in S from the queue and stops them, in a handler that
\* has told those in W to proceed.
stop_requests(S, W) ==
    /\ reqs' = Keep(reqs, Execs \ S)
    /\ stopped' = stopped \cup S
    /\ notified' = notified \cup S \cup W

\* Variant: the requests that stay are not marked as waiting.
cancel_on_conn_lost_unmarked(W) == stop_requests(lost, W) /\ UNCHANGED status
cancel_on_conn_lost(W) ==
    /\ stop_requests(lost, W)
    /\ status' = [e \in Execs |-> IF e \in Elements(reqs) \ lost
                                  THEN "waiting" ELSE status[e]]

cancel_unwritten_requests ==
    /\ stop_requests(Elements(reqs) \cap waiting, {})
    /\ UNCHANGED status

\* cancel_impl(operation::run), except for what it does to reader and writer.
cancel_run(W) ==
    IF cancel_run_called
    THEN /\ notified' = notified \cup W
         /\ UNCHANGED <<cancel_run_called, open, receiver, reqs, status, stopped>>
    ELSE /\ cancel_run_called' = TRUE
         /\ open' = FALSE
         /\ receiver' = FALSE
         /\ cancel_on_conn_lost(W)

\* Where writer_timer_.cancel() and receive_channel_.cancel() leave the
\* writer and the reader, after a variant that leaves the reader blocked.
send_not_cancelled == rd
timer_cancelled == IF wr = "timer" THEN "woken" ELSE wr
send_cancelled  == IF rd = "sending" THEN "send_err" ELSE rd

\* cancel(operation::run) called by an operation other than reader and writer.
cancel_run_and_wake ==
    /\ cancel_run({})
    /\ wr' = IF cancel_run_called THEN wr ELSE timer_cancelled
    /\ rd' = IF cancel_run_called THEN rd ELSE send_cancelled

user_cancel_run ==
    /\ "cancel" \in Env /\ ExecutorFree
    /\ cancel_run_and_wake
    /\ UNCHANGED <<exec_vars, wr_cancelled, write_buffer, handed, sent,
                   rd_cancelled, read_buffer, partial, on_push,
                   run, runs, channel, server_vars>>

user_cancel_exec ==
    /\ "cancel" \in Env /\ ExecutorFree
    /\ cancel_unwritten_requests
    /\ UNCHANGED <<exec_vars, writer_vars, reader_vars, conn_vars, chan_vars,
                   server_vars>>

user_cancel_receive ==
    /\ "cancel" \in Env /\ ExecutorFree
    /\ receiver' = FALSE
    /\ rd' = send_cancelled
    /\ UNCHANGED <<exec_vars, queue_vars, writer_vars, rd_cancelled,
                   read_buffer, partial, on_push, conn_vars, channel,
                   server_vars>>

\* operation::all: run, receive and exec in this order.  After the first,
\* every request still in the queue is waiting, so the third removes it.
user_cancel_all ==
    /\ "cancel" \in Env /\ ExecutorFree
    /\ IF cancel_run_called
       THEN /\ cancel_unwritten_requests
            /\ UNCHANGED wr
       ELSE /\ stop_requests(Elements(reqs), {})
            /\ status' = [e \in Execs |-> IF e \in Elements(reqs) \ lost
                                          THEN "waiting" ELSE status[e]]
            /\ wr' = timer_cancelled
    /\ cancel_run_called' = TRUE
    /\ open' = (open /\ cancel_run_called)
    /\ receiver' = FALSE
    /\ rd' = send_cancelled
    /\ UNCHANGED <<exec_vars, wr_cancelled, write_buffer, handed, sent,
                   rd_cancelled, read_buffer, partial, on_push,
                   run, runs, channel, server_vars>>

-----------------------------------------------------------------------------
(* exec_op.                                                                *)

\* Variant: the writer counts as busy until the responses have come.
is_writing_until_answered == Elements(reqs) \ waiting # {}
is_writing == \E i \in DOMAIN write_buffer : req[write_buffer[i]].cmds # <<>>

\* Variants: a HELLO goes to the very front, or gets no priority.
hello_point_front == 0
hello_point_back == Len(reqs)
\* Where a request with priority is rotated to: before the waiting requests.
hello_point == PartitionPoint(reqs, Execs \ waiting)

add_request_info(e, k) ==
    /\ reqs' = IF k.has_hello_priority THEN InsertAfter(reqs, hello_point, e)
                                       ELSE Append(reqs, e)
    /\ wr' = IF open /\ ~is_writing THEN timer_cancelled ELSE wr

\* async_exec up to the first suspension of exec_op.
async_exec(e, k) ==
    /\ ExecutorFree
    /\ op[e] = "idle"
    /\ req' = [req EXCEPT ![e] = k]
    /\ expected_responses' = [expected_responses EXCEPT ![e] = get_expected_responses(k)]
    /\ IF k.cancel_if_not_connected /\ ~open
       THEN /\ op' = [op EXCEPT ![e] = "posted"]
            /\ UNCHANGED <<reqs, wr>>
       ELSE /\ op' = [op EXCEPT ![e] = "waiting"]
            /\ add_request_info(e, k)
    /\ UNCHANGED <<status, notified, stopped, failed, cancelled, wr_cancelled,
                   write_buffer, handed, sent, reader_vars, conn_vars,
                   chan_vars, server_vars>>

exec_op_not_connected(e) ==
    /\ ExecutorFree
    /\ op[e] = "posted"
    /\ op' = [op EXCEPT ![e] = "not_connected"]
    /\ UNCHANGED <<req, expected_responses, failed, cancelled, queue_vars,
                   writer_vars, reader_vars, conn_vars, chan_vars, server_vars>>

\* The user's cancellation slot emits a terminal cancellation to exec e: its
\* pending receive on notifier_ completes.
cancel_exec_op(e) ==
    /\ "cancel_exec_op" \in Env /\ ExecutorFree
    /\ op[e] = "waiting"
    /\ cancelled' = cancelled \cup {e}
    /\ notified' = notified \cup {e}
    /\ UNCHANGED <<op, req, expected_responses, failed, reqs, status, stopped,
                   writer_vars, reader_vars, conn_vars, chan_vars, server_vars>>

complete(e, result) == op' = [op EXCEPT ![e] = result]

\* exec_op after async_wait, for each way it can complete.
exec_op_completes(e) ==
    /\ ExecutorFree
    /\ op[e] = "waiting" /\ e \in notified
    /\ \/ e \in failed /\ complete(e, "error")
       \/ e \in stopped \ failed /\ complete(e, "aborted")
       \/ e \notin failed \cup stopped \cup cancelled /\ complete(e, "ok")
    /\ UNCHANGED <<req, expected_responses, failed, cancelled, queue_vars,
                   writer_vars, reader_vars, conn_vars, chan_vars, server_vars>>

remove_request(e) == reqs' = Keep(reqs, Execs \ {e})

exec_op_cancelled(e) ==
    /\ ExecutorFree
    /\ op[e] = "waiting" /\ e \in notified
    /\ e \in cancelled \ (failed \cup stopped)
    /\ complete(e, "aborted")
    /\ IF e \in waiting
       THEN /\ remove_request(e)
            /\ UNCHANGED <<status, notified, stopped, open, cancel_run_called,
                           receiver, wr, rd>>
       ELSE cancel_run_and_wake
    /\ UNCHANGED <<req, expected_responses, failed, cancelled,
                   wr_cancelled, write_buffer, handed, sent,
                   rd_cancelled, read_buffer, partial, on_push,
                   run, runs, channel, server_vars>>

-----------------------------------------------------------------------------
(* writer_op.                                                              *)

\* An operation of run_op's parallel group ends; the group cancels the other.
writer_exits ==
    /\ wr' = "exited"
    /\ rd_cancelled' = TRUE
    /\ rd' = send_cancelled

\* coalesce_requests on the queue q whose requests have status st, with the
\* payload b in write_buffer_, and what writer_op starts next.
coalesce_requests(q, st, b) ==
    LET point  == PartitionPoint(q, {e \in Execs : st[e] # "waiting"})
        staged == SubSeq(q, point + 1, Len(q))
    IN  /\ reqs' = q
        /\ status' = [e \in Execs |-> IF e \in Elements(staged) THEN "staged" ELSE st[e]]
        /\ write_buffer' = b \o staged
        /\ handed' = 0
        /\ wr' = IF staged # <<>> THEN "writing" ELSE "timer"

\* The transport accepts the payload of the next request.
write_some ==
    /\ ExecutorFree
    /\ wr = "writing" /\ open /\ ~wr_cancelled
    /\ handed < Len(write_buffer)
    /\ handed' = handed + 1
    /\ LET e == write_buffer[handed + 1]
       IN  /\ sent' = [sent EXCEPT ![e] = @ + 1]
           /\ commands' = IF peer /\ req[e].cmds # <<>>
                          THEN Append(commands, e) ELSE commands
    /\ UNCHANGED <<exec_vars, queue_vars, wr, wr_cancelled, write_buffer,
                   reader_vars, conn_vars, chan_vars, peer, answered, replies, pushes>>

\* async_write completes.
async_write_done ==
    /\ ExecutorFree
    /\ wr = "writing"
    /\ \/ open /\ handed = Len(write_buffer) /\ wr' = "wrote"
       \/ (~open \/ ~peer \/ wr_cancelled) /\ wr' = "write_err"
    /\ UNCHANGED <<exec_vars, queue_vars, wr_cancelled, write_buffer, handed, sent,
                   reader_vars, conn_vars, chan_vars, server_vars>>

writer_op_error ==
    /\ ExecutorFree
    /\ wr = "write_err"
    /\ cancel_run({})
    /\ writer_exits
    /\ UNCHANGED <<exec_vars, wr_cancelled, write_buffer, handed, sent,
                   read_buffer, partial, on_push, run, runs, channel, server_vars>>

\* Staged requests without a response: cancel_push_requests completes them.
push_requests == {e \in Elements(reqs) : status[e] = "staged"
                                         /\ get_expected_responses(req[e]) = 0}

\* The status that on_write leaves the requests in, with the queue q.
on_write_status(q) ==
    [e \in Execs |-> IF e \in Elements(q) /\ status[e] = "staged" THEN "written" ELSE status[e]]

\* on_write, then the writer stops or goes on with the next requests.
writer_op_on_write ==
    /\ ExecutorFree
    /\ wr = "wrote" /\ ~wr_cancelled
    /\ notified' = notified \cup push_requests
    /\ LET q  == Keep(reqs, Execs \ push_requests)
           st == on_write_status(q)
       IN  \/ /\ open
              /\ coalesce_requests(q, st, <<>>)
              /\ UNCHANGED <<rd, rd_cancelled>>
           \/ /\ ~open
              /\ reqs' = q /\ status' = st
              /\ write_buffer' = <<>> /\ handed' = 0
              /\ writer_exits
    /\ UNCHANGED <<exec_vars, stopped, wr_cancelled, sent, read_buffer, partial,
                   on_push, conn_vars, chan_vars, server_vars>>

\* The writer has been woken from writer_timer_ and there may be requests.
writer_op_woken ==
    /\ ExecutorFree
    /\ wr = "woken" /\ open /\ ~wr_cancelled
    /\ coalesce_requests(reqs, status, write_buffer)
    /\ UNCHANGED <<exec_vars, notified, stopped, wr_cancelled, sent, reader_vars,
                   conn_vars, chan_vars, server_vars>>

writer_op_cancelled ==
    /\ ExecutorFree
    /\ \/ wr = "wrote" /\ wr_cancelled
       \/ wr = "woken" /\ (~open \/ wr_cancelled)
    /\ writer_exits
    /\ UNCHANGED <<exec_vars, queue_vars, wr_cancelled, write_buffer, handed, sent,
                   read_buffer, partial, on_push, conn_vars, chan_vars, server_vars>>

-----------------------------------------------------------------------------
(* reader_op.                                                              *)

reader_exits ==
    /\ rd' = "exited"
    /\ wr_cancelled' = TRUE
    /\ wr' = timer_cancelled

\* async_append_some completes with the next n messages, of which the last
\* one may be incomplete, or with the rest of the incomplete one.
append_some ==
    /\ rd = "reading" /\ open /\ ~rd_cancelled
    /\ \E n \in 0 .. Len(replies), h \in BOOLEAN :
          /\ n = 0 => partial /\ ~h
          /\ h => "split" \in Env
          /\ read_buffer' = read_buffer \o SubSeq(replies, 1, n)
          /\ replies' = SubSeq(replies, n + 1, Len(replies))
          /\ partial' = h
    /\ rd' = "read"
    /\ UNCHANGED <<exec_vars, queue_vars, writer_vars, rd_cancelled, on_push,
                   conn_vars, chan_vars, peer, commands, answered, pushes>>

\* async_append_some completes with an error or with EOF.
append_some_fails ==
    /\ rd = "reading"
    /\ ~open \/ ~peer \/ rd_cancelled
    /\ rd' = "read_err"
    /\ UNCHANGED <<exec_vars, queue_vars, writer_vars, rd_cancelled, read_buffer,
                   partial, on_push, conn_vars, chan_vars, server_vars>>

\* EOF, a read error, or receive_channel_.async_send has failed.
reader_op_error ==
    /\ rd \in {"read_err", "send_err"}
    /\ cancel_run({})
    /\ reader_exits
    /\ UNCHANGED <<exec_vars, write_buffer, handed, sent, rd_cancelled,
                   read_buffer, partial, on_push, run, runs, channel, server_vars>>

\* The reader's handler runs after a read or a send that succeeded.
reader_op_resumes ==
    /\ rd \in {"read", "sent"}
    /\ IF open /\ ~rd_cancelled
       THEN rd' = "parsing" /\ UNCHANGED <<wr, wr_cancelled>>
       ELSE reader_exits
    /\ UNCHANGED <<exec_vars, queue_vars, write_buffer, handed, sent, rd_cancelled,
                   read_buffer, partial, on_push, conn_vars, chan_vars, server_vars>>

\* Variant: the test before issue 170, a response needs a written request.
is_waiting_response_written == reqs # <<>> /\ status[Head(reqs)] = "written"
is_waiting_response == reqs # <<>> /\ Head(reqs) \notin waiting

is_next_push ==
    \/ Head(read_buffer) = Push
    \/ ~(is_waiting_response /\ expected_responses[Head(reqs)] # 0)

\* The next message is in the buffer, at least in part.
parsing_message == rd = "parsing" /\ read_buffer # <<>>
is_complete     == partial => Len(read_buffer) > 1

\* The buffer is empty or ends in an incomplete message: read again.
on_read_needs_more ==
    /\ rd = "parsing"
    /\ IF read_buffer = <<>>
       THEN UNCHANGED on_push
       ELSE ~is_complete /\ on_push' = (on_push \/ is_next_push)
    /\ rd' = "reading"
    /\ UNCHANGED <<exec_vars, queue_vars, writer_vars, rd_cancelled, read_buffer,
                   partial, conn_vars, chan_vars, server_vars>>

\* A complete push: into receive_channel_, or wait for room in it.
on_read_push ==
    /\ parsing_message /\ is_complete /\ (on_push \/ is_next_push)
    /\ read_buffer' = Tail(read_buffer)
    /\ on_push' = FALSE
    /\ \/ receiver /\ receiver' = FALSE /\ UNCHANGED <<channel, rd>>
       \/ /\ ~receiver /\ channel < Capacity
          /\ channel' = channel + 1 /\ UNCHANGED <<receiver, rd>>
       \/ ~receiver /\ channel = Capacity /\ rd' = "sending" /\ UNCHANGED chan_vars
    /\ UNCHANGED <<exec_vars, queue_vars, writer_vars, rd_cancelled, partial,
                   conn_vars, server_vars>>

\* A complete response: one less to come for the request at the front.
on_read_resp ==
    /\ parsing_message /\ is_complete /\ ~(on_push \/ is_next_push)
    /\ read_buffer' = Tail(read_buffer)
    /\ LET e == Head(reqs)
       IN  /\ expected_responses' = [expected_responses EXCEPT ![e] = @ - 1]
           /\ IF expected_responses[e] = 1
              THEN reqs' = Tail(reqs) /\ notified' = notified \cup {e}
              ELSE UNCHANGED <<reqs, notified>>
    /\ UNCHANGED <<op, req, failed, cancelled, status, stopped, writer_vars, rd,
                   rd_cancelled, partial, on_push, conn_vars, chan_vars, server_vars>>

\* The message does not parse, or the adapter rejects it.  A response takes
\* its request with it, which on_read leaves in the queue.
on_read_error ==
    /\ "adapter_error" \in Env
    /\ parsing_message
    /\ on_push' = (on_push \/ is_next_push)
    /\ LET rejected == IF on_push \/ is_next_push THEN {} ELSE {Head(reqs)}
       IN  failed' = failed \cup rejected /\ cancel_run(rejected)
    /\ reader_exits
    /\ UNCHANGED <<op, req, expected_responses, cancelled, write_buffer, handed, sent,
                   rd_cancelled, read_buffer, partial, run, runs, channel, server_vars>>

-----------------------------------------------------------------------------
(* receive_channel_: async_receive and receive.                            *)

\* A push is taken from the channel; a blocked send of the reader moves up.
receive ==
    /\ ExecutorFree
    /\ channel > 0
    /\ IF rd = "sending"
       THEN rd' = "sent" /\ UNCHANGED channel
       ELSE channel' = channel - 1 /\ UNCHANGED rd
    /\ UNCHANGED <<exec_vars, queue_vars, writer_vars, rd_cancelled, read_buffer,
                   partial, on_push, conn_vars, receiver, server_vars>>

\* async_receive finds the channel empty and suspends.
async_receive_waits ==
    /\ "receive" \in Env /\ ExecutorFree
    /\ channel = 0 /\ ~receiver
    /\ receiver' = TRUE
    /\ UNCHANGED <<exec_vars, queue_vars, writer_vars, reader_vars, conn_vars,
                   channel, server_vars>>

-----------------------------------------------------------------------------
(* The life of a connection: run_all_op and run_op.                        *)

\* async_connect opens a socket to the server.
async_connect ==
    /\ run = "off" /\ runs < MaxRuns
    /\ run' = "connecting" /\ runs' = runs + 1
    /\ open' = TRUE
    /\ peer' = TRUE /\ commands' = <<>> /\ answered' = 0 /\ replies' = <<>>
    /\ UNCHANGED <<exec_vars, queue_vars, writer_vars, reader_vars,
                   cancel_run_called, chan_vars, pushes>>

\* Connecting fails: run_all_op cancels run.
run_all_op_fails ==
    /\ run = "connecting"
    /\ ~open \/ ~peer
    /\ cancel_run({})
    /\ run' = "off"
    /\ UNCHANGED <<exec_vars, writer_vars, reader_vars, runs, channel, server_vars>>

\* reset(), but for write_buffer_, which coalesce_requests is given.
reset ==
    /\ cancel_run_called' = FALSE
    /\ read_buffer' = <<>> /\ partial' = FALSE /\ on_push' = FALSE

\* run_op: reset, then reader and writer start.
run_op_starts ==
    /\ run = "connecting"
    /\ run' = "up"
    /\ reset
    /\ rd' = "reading"
    /\ coalesce_requests(reqs, status, <<>>)
    /\ UNCHANGED <<exec_vars, notified, stopped, wr_cancelled, sent, rd_cancelled,
                   open, runs, chan_vars, server_vars>>

\* Terminal cancellation of async_run reaches reader and writer.
cancel_run_op ==
    /\ "cancel_run_op" \in Env /\ ExecutorFree
    /\ run = "up"
    /\ rd_cancelled' = TRUE /\ wr_cancelled' = TRUE
    /\ wr' = timer_cancelled /\ rd' = send_cancelled
    /\ UNCHANGED <<exec_vars, queue_vars, write_buffer, handed, sent, read_buffer,
                   partial, on_push, conn_vars, chan_vars, server_vars>>

\* Both operations of the group have ended.  Nobody reads from the socket
\* any more, and async_connect will replace it.
run_op_completes ==
    /\ rd = "exited" /\ wr = "exited"
    /\ run' = "off"
    /\ rd' = "off" /\ wr' = "off"
    /\ rd_cancelled' = FALSE /\ wr_cancelled' = FALSE
    /\ peer' = FALSE /\ commands' = <<>> /\ answered' = 0 /\ replies' = <<>>
    /\ UNCHANGED <<exec_vars, queue_vars, write_buffer, handed, sent, read_buffer,
                   partial, on_push, open, cancel_run_called, runs, chan_vars, pushes>>

-----------------------------------------------------------------------------
(* The server: it answers commands in the order it receives them.  What it *)
(* does once the client has closed the socket cannot be observed.          *)

server_replies ==
    /\ ExecutorFree
    /\ peer /\ open /\ commands # <<>>
    /\ LET e    == Head(commands)
           cmds == req[e].cmds
           n    == answered + 1
       IN  /\ replies' = Append(replies, IF cmds[n] = "resp"
                                         THEN <<e, Responding(cmds, n)>> ELSE Push)
           /\ IF n = Len(cmds)
              THEN commands' = Tail(commands) /\ answered' = 0
              ELSE answered' = n /\ UNCHANGED commands
    /\ UNCHANGED <<exec_vars, queue_vars, writer_vars, reader_vars, conn_vars,
                   chan_vars, peer, pushes>>

server_pushes ==
    /\ ExecutorFree
    /\ peer /\ open /\ run = "up" /\ pushes < MaxPushes
    /\ pushes' = pushes + 1
    /\ replies' = Append(replies, Push)
    /\ UNCHANGED <<exec_vars, queue_vars, writer_vars, reader_vars, conn_vars,
                   chan_vars, peer, commands, answered>>

server_leaves ==
    /\ "peer_loss" \in Env /\ ExecutorFree
    /\ peer /\ open /\ run # "off"
    /\ peer' = FALSE /\ commands' = <<>> /\ answered' = 0
    /\ UNCHANGED <<exec_vars, queue_vars, writer_vars, reader_vars, conn_vars,
                   chan_vars, replies, pushes>>

-----------------------------------------------------------------------------
ExecNext(e) ==
    \/ exec_op_not_connected(e)
    \/ exec_op_completes(e)
    \/ exec_op_cancelled(e)

WriterNext ==
    \/ write_some
    \/ async_write_done
    \/ writer_op_error
    \/ writer_op_on_write
    \/ writer_op_woken
    \/ writer_op_cancelled

ReaderNext ==
    \/ append_some
    \/ append_some_fails
    \/ reader_op_error
    \/ reader_op_resumes
    \/ on_read_needs_more
    \/ on_read_push
    \/ on_read_resp
    \/ on_read_error

RunNext ==
    \/ async_connect
    \/ run_all_op_fails
    \/ run_op_starts
    \/ run_op_completes

UserNext ==
    \/ \E e \in Execs : \E k \in Kinds : async_exec(e, k)
    \/ \E e \in Execs : cancel_exec_op(e)
    \/ user_cancel_run
    \/ user_cancel_exec
    \/ user_cancel_receive
    \/ user_cancel_all
    \/ cancel_run_op
    \/ async_receive_waits

Next ==
    \/ \E e \in Execs : ExecNext(e)
    \/ WriterNext
    \/ ReaderNext
    \/ RunNext
    \/ UserNext
    \/ receive
    \/ server_replies
    \/ server_pushes
    \/ server_leaves

Spec == Init /\ [][Next]_vars

(***************************************************************************)
(* The executor runs every handler that is queued, and the transport and   *)
(* the server make progress.  Nothing obliges the user to connect, to call *)
(* async_exec, to cancel or to receive pushes.                             *)
(***************************************************************************)
Fairness ==
    /\ \A e \in Execs : WF_vars(ExecNext(e))
    /\ WF_vars(WriterNext)
    /\ WF_vars(ReaderNext)
    /\ WF_vars(run_all_op_fails \/ run_op_starts \/ run_op_completes)
    /\ WF_vars(server_replies)

FairSpec == Spec /\ Fairness

-----------------------------------------------------------------------------
(* Properties.                                                             *)

Ordered(q, st) ==
    \A e, f \in Execs : Before(q, e, f) =>
        /\ e # f
        /\ st[f] = "written" => st[e] = "written"
        /\ st[f] = "staged"  => st[e] # "waiting"

\* The queue holds no request twice, and in it written requests come first,
\* then staged ones, then waiting ones.  std::partition_point in
\* coalesce_requests and add_request_info is undefined on any other queue,
\* and responses are matched with requests by this order alone.
QueueOrder == Ordered(reqs, status)

\* An exec_op suspended on its notifier_, with nothing on its way to wake it
\* up, is in the queue: only from there can proceed() or stop() reach it.
SuspendedAreQueued ==
    \A e \in Execs : op[e] = "waiting" /\ e \notin notified => e \in Elements(reqs)

\* When exec_op calls remove_request the request is in the queue.  Were it
\* not, std::remove would return end() and erase(end()) is undefined.
RemoveFindsRequest ==
    \A e \in Execs :
        /\ op[e] = "waiting" /\ e \in cancelled \ (failed \cup stopped)
        /\ status[e] = "waiting"
        => e \in Elements(reqs)

\* The writer does not sleep on writer_timer_ while a request waits to be
\* written on an open socket: add_request_info wakes it whenever it has to,
\* although it looks at write_buffer_ and not at the writer.
NoLostWakeup ==
    wr = "timer" /\ open => Elements(reqs) \cap waiting = {}

\* A message that on_read hands to the adapter of the request at the front
\* of the queue is the response to that very command of that request, and
\* no response is taken for a push.
ResponsesMatch ==
    parsing_message =>
        LET m == Head(read_buffer)
        IN  IF on_push \/ is_next_push
            THEN m = Push
            ELSE m = <<Head(reqs), get_expected_responses(req[Head(reqs)])
                                   - expected_responses[Head(reqs)] + 1>>

\* A request in the queue belongs to an async_exec that has not completed:
\* its payload is read and its adapter called through pointers to objects of
\* the caller.
QueuedAreLive ==
    \A e \in Elements(reqs) : op[e] = "waiting"

\* When run_op starts, every request in the queue is waiting to be written.
AllWaitingAtStart ==
    run # "up" => Elements(reqs) \subseteq waiting

\* A request with cancel_if_unresponded is handed to the transport at most
\* once, however often the connection is lost.
AtMostOnce ==
    \A e \in Execs : req[e].cancel_if_unresponded => sent[e] <= 1

D == INSTANCE Delivery WITH
         result  <- [e \in Execs |-> IF op[e] \in {"posted", "waiting"} THEN "pending" ELSE op[e]],
         once    <- {e \in Execs : op[e] # "idle" /\ req[e].cancel_if_unresponded},
         missing <- expected_responses

\* connection_base implements Delivery: every async_exec completes once, no
\* request is handed over after its call has completed or more often than it
\* may be, and success means that all the responses were read, whatever the
\* writer had in its buffer when a connection was lost.
Delivers == D!DSpec

\* Among the waiting requests, one with priority for its HELLO is not behind
\* one without.
HelloFirst ==
    \A e, f \in Execs :
        Before(reqs, e, f) /\ e \in waiting /\ req[f].has_hello_priority
        => req[e].has_hello_priority

\* No step changes the order of two requests that stay in the queue: the
\* partitions are stable and a HELLO is put between requests, so requests
\* that survive a lost connection are written again in the order of the calls.
OrderIsStable ==
    [][\A e, f \in Elements(reqs) \cap Elements(reqs') :
          Before(reqs, e, f) => Before(reqs', e, f)]_vars

connected == run = "up" /\ open /\ peer

\* While the connection stays up every async_exec completes, unless the user
\* leaves the reader blocked on a full receive_channel_: no wakeup of the
\* writer is lost, no response goes astray, nobody waits for anybody else.
ExecsComplete ==
    []<>(rd # "sending") =>
        \A e \in Execs : op[e] = "waiting" ~> op[e] # "waiting" \/ ~connected

\* Once the socket of a run has been closed, the run ends: reader and writer
\* both get to know, wherever they are suspended, and whether or not the user
\* makes room in receive_channel_.
ClosedRunEnds ==
    run = "up" /\ ~open ~> run = "off"
=============================================================================
