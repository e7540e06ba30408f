------------------------------- MODULE Runner -------------------------------
(***************************************************************************)
(* What happens around a connection: reconnection_op (connection.hpp) runs *)
(* runner_op (detail/runner.hpp), which runs three operations in parallel  *)
(* and waits for all of them:                                              *)
(*   run_all_op       resolves, connects, shakes hands and runs the session*)
(*   check_health_op  ping_op and check_timeout_op, whichever ends first   *)
(*   hello_op         sends HELLO                                          *)
(*                                                                         *)
(* connection_base, the subject of module Connection, is reduced to what   *)
(* these operations see of it: the state of their two requests, the socket *)
(* and cancel_run_called_.  An action is one handler; a completed          *)
(* operation and its handler are kept apart.  Error codes are reduced to   *)
(* success and failure, on which alone the operations act.                 *)
(***************************************************************************)
EXTENDS Naturals, FiniteSets

CONSTANTS
    Configs,      \* the configurations async_run may be called with
    MaxAttempts,  \* bound: connection attempts
    Env           \* what the environment may do, see Events

Events == {"loss",        \* the server goes away
           "cancel",      \* the user calls connection::cancel
           "terminal",    \* terminal per-operation cancellation of async_run
           "error_reply"} \* the server answers HELLO or PING with an error

ASSUME RunnerAssumption ==
    /\ Configs \subseteq [use_ssl : BOOLEAN, health_check : BOOLEAN, reconnect : BOOLEAN]
    /\ MaxAttempts \in Nat \ {0}
    /\ Env \subseteq Events

Requests == {"HELLO", "PING"}

VARIABLES
    cfg,                 \* cfg_, but for reconnect_wait_interval
    will_reconnect,      \* reconnect_wait_interval is not zero
    rec,                 \* reconnection_op
    cancelled,           \* async_run has been sent a terminal cancellation
    step,                \* run_all_op: the operation it waits for
    first,               \* what completed first, the operation or its timer
    both,                \* the other one has completed as well
    session,             \* how run_op ended, if it did
    hello,               \* hello_op
    health, ping, chk,   \* check_health_op, ping_op and check_timeout_op
    checker_has_exited,  \* checker_has_exited_
    rq,                  \* HELLO and PING in the connection
    killed,              \* those whose exec_op has been sent a terminal
                         \* cancellation
    resp,                \* hello_resp_, and resp_ of the health checker
    thrown,              \* an adapter has thrown in the reader's handler
    open,                \* is_open()
    cancel_run_called,   \* cancel_run_called_
    attempts,            \* counter for the bound
    asked                \* history: the user wants async_run to end

rec_vars    == <<cfg, will_reconnect, rec, cancelled, attempts, asked>>
run_all_vars == <<step, first, both, session>>
health_vars == <<health, ping, chk, checker_has_exited>>
conn_vars   == <<rq, open, cancel_run_called>>
reply_vars  == <<resp, thrown>>
vars == <<rec_vars, run_all_vars, hello, health_vars, conn_vars, killed, reply_vars>>

Timer == {"timer", "fired", "aborted"}   \* waiting on a timer, or woken up

\* Every variable has its type, and a request is in the connection exactly
\* while the operation that made it waits for it.
TypeOK ==
    /\ cfg \in Configs /\ will_reconnect \in BOOLEAN
    /\ rec \in {"off", "running", "completed"} \cup Timer
    /\ cancelled \in BOOLEAN /\ asked \in BOOLEAN /\ attempts \in 0 .. MaxAttempts
    /\ step \in {"off", "resolve", "connect", "handshake", "lean", "exited"}
    /\ first \in {"none", "ok", "failed", "timer"} /\ both \in BOOLEAN
    /\ session \in {"pending", "failed"}
    /\ hello \in {"off", "exec", "exited"}
    /\ health \in {"off", "posted", "checking", "exited"}
    /\ ping \in {"off", "exec", "exited"} \cup Timer
    /\ chk \in {"off", "exited"} \cup Timer
    /\ checker_has_exited \in BOOLEAN
    /\ rq \in [Requests -> {"none", "waiting", "written", "answered", "stopped"}]
    /\ killed \subseteq Requests
    /\ resp \in [Requests -> {"empty", "value", "error"}] /\ thrown \in BOOLEAN
    /\ open \in BOOLEAN /\ cancel_run_called \in BOOLEAN
    /\ rq["HELLO"] # "none" <=> hello = "exec"
    /\ rq["PING"] # "none" <=> ping = "exec"

Init ==
    /\ cfg \in Configs /\ will_reconnect = FALSE
    /\ rec = "off" /\ cancelled = FALSE /\ asked = FALSE /\ attempts = 0
    /\ step = "off" /\ first = "none" /\ both = FALSE /\ session = "pending"
    /\ hello = "off" /\ health = "off" /\ ping = "off" /\ chk = "off"
    /\ checker_has_exited = FALSE
    /\ rq = [r \in Requests |-> "none"] /\ killed = {}
    /\ resp = [r \in Requests |-> "empty"] /\ thrown = FALSE
    /\ open = FALSE /\ cancel_run_called = FALSE

-----------------------------------------------------------------------------
(* connection_base, as the runner sees it.                                 *)

\* Variant: requests that wait for their response are forgotten.
stopped_requests_unwritten ==
    [r \in Requests |-> IF rq[r] = "waiting" THEN "stopped" ELSE rq[r]]
\* The requests after cancel(operation::run): the configuration of HELLO and
\* PING is the default one, so both are stopped.
stopped_requests ==
    [r \in Requests |-> IF rq[r] \in {"waiting", "written"} THEN "stopped" ELSE rq[r]]

\* cancel_impl(operation::run), for a handler that ends the exec_op of the
\* requests in done.
cancel_run(done) ==
    /\ rq' = [r \in Requests |-> IF r \in done THEN "none"
                                 ELSE IF cancel_run_called THEN rq[r]
                                 ELSE stopped_requests[r]]
    /\ open' = (open /\ cancel_run_called)
    /\ cancel_run_called' = TRUE

\* exec_op of r has something to wake up for, and how it completes.
exec_op_resumes(r) == rq[r] \in {"answered", "stopped"} \/ (rq[r] # "none" /\ r \in killed)
exec_op_succeeds(r) == rq[r] = "answered" /\ r \notin killed

\* exec_op after a terminal cancellation has to close the connection.
exec_op_cancels_run(r) == r \in killed /\ rq[r] \in {"written", "answered"}

\* Variant: a cancelled request that was not written stays in the queue.
exec_op_ends_unremoved(r) ==
    /\ rq' = [rq EXCEPT ![r] = IF @ = "waiting" THEN @ ELSE "none"]
    /\ UNCHANGED <<open, cancel_run_called>>
\* exec_op of r ends, and leaves the connection alone.
exec_op_ends(r) ==
    /\ rq' = [rq EXCEPT ![r] = "none"]
    /\ UNCHANGED <<open, cancel_run_called>>

session_up == step = "lean" /\ session = "pending" /\ open

\* The session writes r; HELLO has priority.
writes(r) ==
    /\ session_up
    /\ rq[r] = "waiting" /\ (r = "PING" => rq["HELLO"] # "waiting")
    /\ rq' = [rq EXCEPT ![r] = "written"]
    /\ UNCHANGED <<rec_vars, run_all_vars, hello, health_vars, killed, open,
                   cancel_run_called, reply_vars>>

\* The server answers r, in the order of the requests, and the reader hands
\* the answer a to general_aggregate: an error replaces the result, a value is
\* appended to the value of the result, which throws if it has none.  The
\* exception leaves on_read before the request is popped, and takes reader_op
\* with it: run_op, which waits for it, never completes.
answers(r, a) ==
    /\ session_up /\ ~thrown
    /\ rq[r] = "written" /\ (r = "PING" => rq["HELLO"] # "written")
    /\ a = "error" => "error_reply" \in Env
    /\ thrown' = (a = "value" /\ resp[r] = "error")
    /\ rq' = [rq EXCEPT ![r] = IF thrown' THEN @ ELSE "answered"]
    /\ resp' = [resp EXCEPT ![r] = IF thrown' THEN @ ELSE a]
    /\ UNCHANGED <<rec_vars, run_all_vars, hello, health_vars, killed, open,
                   cancel_run_called>>

\* Reader and writer of run_op end: the connection is lost, or has been closed.
run_op_fails ==
    /\ step = "lean" /\ session = "pending" /\ ~thrown
    /\ "loss" \in Env \/ ~open
    /\ session' = "failed"
    /\ cancel_run({})
    /\ UNCHANGED <<rec_vars, step, first, both, hello, health_vars, killed, reply_vars>>

\* They are cancelled, and need not have called cancel(operation::run).
run_op_cancelled ==
    /\ step = "lean" /\ session = "pending" /\ ~thrown
    /\ cancelled
    /\ session' = "failed"
    /\ UNCHANGED <<rec_vars, step, first, both, hello, health_vars, conn_vars, killed, reply_vars>>

-----------------------------------------------------------------------------
(* run_all_op.                                                             *)

Timed == {"resolve", "connect", "handshake"}

\* resolve_op, connect_op and handshake_op run an operation and a timer in a
\* group that is complete when both are.  The operation completes, with
\* success or an error; it may still do so after the timer.
timed_op_completes(s, can_succeed) ==
    /\ step = s /\ ~both
    /\ \/ /\ first = "none"
          /\ first' \in {"failed"} \cup (IF can_succeed THEN {"ok"} ELSE {})
          /\ UNCHANGED both
       \/ first = "timer" /\ both' = TRUE /\ UNCHANGED first
    /\ UNCHANGED <<rec_vars, step, session, hello, health_vars, conn_vars, killed, reply_vars>>

async_resolve_completes   == timed_op_completes("resolve", TRUE)
async_connect_completes   == timed_op_completes("connect", open)
async_handshake_completes == timed_op_completes("handshake", open)

\* The timer expires, or has been cancelled by the group.
step_timer_completes ==
    /\ step \in Timed /\ ~both
    /\ \/ first = "none" /\ first' = "timer" /\ UNCHANGED both
       \/ first \in {"ok", "failed"} /\ both' = TRUE /\ UNCHANGED first
    /\ UNCHANGED <<rec_vars, step, session, hello, health_vars, conn_vars, killed, reply_vars>>

\* Variant: the group waits for both.
wait_for_one_all == FALSE
\* wait_for_one: the operation is cancelled once its timer has expired.
wait_for_one == first = "timer"

\* What the operation of each step reports to run_all_op.
resolve_op   == step = "resolve"   /\ both /\ first = "ok" /\ ~cancelled
connect_op   == step = "connect"   /\ both /\ first = "ok" /\ ~cancelled
handshake_op == step = "handshake" /\ both /\ first = "ok" /\ ~cancelled

\* A step has failed, or run_all_op has been cancelled.
run_all_op_fails ==
    /\ step \in Timed /\ both
    /\ ~resolve_op /\ ~connect_op /\ ~handshake_op
    /\ step' = "exited" /\ first' = "none" /\ both' = FALSE
    /\ cancel_run({})
    /\ UNCHANGED <<rec_vars, session, hello, health_vars, killed, reply_vars>>

\* The next step: connecting opens the socket, run_op calls reset().
run_all_op_continues ==
    /\ first' = "none" /\ both' = FALSE
    /\ \/ /\ resolve_op /\ step' = "connect"
          /\ open' = TRUE
          /\ UNCHANGED cancel_run_called
       \/ /\ connect_op /\ cfg.use_ssl /\ step' = "handshake"
          /\ UNCHANGED <<open, cancel_run_called>>
       \/ /\ handshake_op \/ (connect_op /\ ~cfg.use_ssl)
          /\ step' = "lean"
          /\ cancel_run_called' = FALSE
          /\ UNCHANGED open
    /\ UNCHANGED <<rec_vars, session, hello, health_vars, rq, killed, reply_vars>>

run_all_op_exits ==
    /\ step = "lean" /\ session = "failed"
    /\ step' = "exited"
    /\ UNCHANGED <<rec_vars, first, both, session, hello, health_vars, conn_vars, killed,
                   reply_vars>>

-----------------------------------------------------------------------------
(* hello_op.                                                               *)

\* Without a value, or with an error among its nodes.
has_error_in_response == resp["HELLO"] = "error"

hello_op_completes ==
    /\ hello = "exec" /\ exec_op_resumes("HELLO")
    /\ hello' = "exited"
    /\ IF exec_op_succeeds("HELLO") /\ ~has_error_in_response /\ ~cancelled
       THEN exec_op_ends("HELLO")
       ELSE cancel_run({"HELLO"})
    /\ UNCHANGED <<rec_vars, run_all_vars, health_vars, killed, reply_vars>>

-----------------------------------------------------------------------------
(* check_health_op: ping_op and check_timeout_op.  The first to end cancels *)
(* the other one.                                                           *)

cancel_timer(t) == IF t = "timer" THEN "aborted" ELSE t

ping_is_cancelled == cancelled \/ chk = "exited"
chk_is_cancelled  == cancelled \/ ping = "exited"

\* ping_op ends: check_timeout_op's timer is cancelled, by ping_op itself or
\* by the group.
ping_op_exits ==
    /\ ping' = "exited"
    /\ chk' = cancel_timer(chk)

\* PING has been answered: wait before the next one.
ping_op_waits ==
    /\ ping = "exec" /\ exec_op_succeeds("PING") /\ ~ping_is_cancelled
    /\ ping' = "timer"
    /\ exec_op_ends("PING")
    /\ UNCHANGED <<rec_vars, run_all_vars, hello, health, chk, checker_has_exited,
                   killed, reply_vars>>

ping_op_fails ==
    /\ ping = "exec" /\ exec_op_resumes("PING")
    /\ ~exec_op_succeeds("PING") \/ ping_is_cancelled
    /\ IF exec_op_cancels_run("PING") THEN cancel_run({"PING"}) ELSE exec_op_ends("PING")
    /\ ping_op_exits
    /\ UNCHANGED <<rec_vars, run_all_vars, hello, health, checker_has_exited,
                   killed, reply_vars>>

ping_timer_fires ==
    /\ ping = "timer" /\ ping' = "fired"
    /\ UNCHANGED <<rec_vars, run_all_vars, hello, health, chk, checker_has_exited,
                   conn_vars, killed, reply_vars>>

\* ping_op after its timer: ping again, or end.
ping_op_resumes ==
    /\ \/ /\ ping = "fired" /\ ~ping_is_cancelled /\ ~checker_has_exited
          /\ ping' = "exec"
          /\ rq' = [rq EXCEPT !["PING"] = "waiting"]
          /\ UNCHANGED chk
       \/ /\ ping = "aborted" \/ (ping = "fired" /\ (ping_is_cancelled \/ checker_has_exited))
          /\ ping_op_exits
          /\ UNCHANGED rq
    /\ UNCHANGED <<rec_vars, run_all_vars, hello, health, checker_has_exited,
                   open, cancel_run_called, killed, reply_vars>>

\* check_timeout_op ends: the group cancels ping_op, wherever it is.
check_timeout_op_exits ==
    /\ chk' = "exited"
    /\ ping' = cancel_timer(ping)
    /\ killed' = IF ping = "exec" THEN killed \cup {"PING"} ELSE killed

wait_timer_fires ==
    /\ chk = "timer" /\ chk' = "fired"
    /\ UNCHANGED <<rec_vars, run_all_vars, hello, health, ping, checker_has_exited,
                   conn_vars, killed, reply_vars>>

\* Variant: a PONG that has been seen is not forgotten.
resp_after_check_kept == resp
resp_after_check == [resp EXCEPT !["PING"] = "empty"]

\* check_timeout_op after its timer: PONG has come, wait again.
check_timeout_op_waits ==
    /\ chk = "fired" /\ ~chk_is_cancelled /\ resp["PING"] = "value"
    /\ resp' = resp_after_check
    /\ chk' = "timer"
    /\ UNCHANGED <<rec_vars, run_all_vars, hello, health, ping, checker_has_exited,
                   conn_vars, killed, thrown>>

\* Variant: check_timeout_op gives up and leaves the connection open.
check_timeout_op_times_out_alone ==
    /\ chk = "fired" /\ ~chk_is_cancelled /\ resp["PING"] = "empty"
    /\ checker_has_exited' = TRUE
    /\ check_timeout_op_exits
    /\ UNCHANGED <<rec_vars, run_all_vars, hello, health, conn_vars, reply_vars>>

\* No PONG: the connection is closed.
check_timeout_op_times_out ==
    /\ chk = "fired" /\ ~chk_is_cancelled /\ resp["PING"] = "empty"
    /\ cancel_run({})
    /\ checker_has_exited' = TRUE
    /\ check_timeout_op_exits
    /\ UNCHANGED <<rec_vars, run_all_vars, hello, health, reply_vars>>

\* check_timeout_op has been cancelled, by the user or because ping_op has ended.
check_is_cancelled == chk = "aborted" \/ (chk = "fired" /\ chk_is_cancelled)

\* PING has been answered with an error, after which nobody looks any more.
check_finds_error == chk = "fired" /\ resp["PING"] = "error"

check_timeout_op_ends ==
    /\ check_is_cancelled \/ check_finds_error
    /\ check_timeout_op_exits
    /\ UNCHANGED <<rec_vars, run_all_vars, hello, health, checker_has_exited,
                   conn_vars, reply_vars>>

\* check_health_op: health checks are disabled, or both operations have ended.
check_health_op_completes ==
    /\ health = "posted" \/ (health = "checking" /\ ping = "exited" /\ chk = "exited")
    /\ health' = "exited"
    /\ UNCHANGED <<rec_vars, run_all_vars, hello, ping, chk, checker_has_exited,
                   conn_vars, killed, reply_vars>>

-----------------------------------------------------------------------------
(* runner_op and reconnection_op.                                          *)

\* add_hello clears the old response only if there is a value in it.
add_hello == resp' = [resp EXCEPT !["HELLO"] = IF @ = "error" THEN @ ELSE "empty"]

\* ping_op sends PING and check_timeout_op sets its timer, unless health checks
\* are disabled.
async_check_health(c) ==
    /\ checker_has_exited' = FALSE
    /\ health' = IF c.health_check THEN "checking" ELSE "posted"
    /\ ping'   = IF c.health_check THEN "exec" ELSE "off"
    /\ chk'    = IF c.health_check THEN "timer" ELSE "off"

\* runner_op starts its three operations.
runner_op_starts(c) ==
    /\ rec' = "running"
    /\ attempts < MaxAttempts /\ attempts' = attempts + 1
    /\ step' = "resolve" /\ first' = "none" /\ both' = FALSE /\ session' = "pending"
    /\ async_check_health(c)
    /\ hello' = "exec" /\ add_hello
    /\ rq' = [r \in Requests |-> IF r = "HELLO" \/ c.health_check THEN "waiting" ELSE "none"]
    /\ UNCHANGED killed

async_run ==
    /\ rec \in {"off", "completed"}
    /\ cfg' \in Configs /\ will_reconnect' = cfg'.reconnect
    /\ cancelled' = FALSE /\ asked' = FALSE
    /\ runner_op_starts(cfg')
    /\ UNCHANGED <<open, cancel_run_called, thrown>>

\* Variant: runner_op does not wait for hello_op.
runner_op_done_early == step = "exited" /\ health = "exited"
\* wait_for_all: all three operations have ended.
runner_op_done == step = "exited" /\ health = "exited" /\ hello = "exited"

\* Variant: reconnection_op gives up when cancel(operation::run) was called.
gives_up_on_cancel == ~will_reconnect \/ cancelled \/ cancel_run_called
gives_up == ~will_reconnect \/ cancelled

\* runner_op completes: reconnection_op ends, or waits before it reconnects.
reconnection_op_after_run ==
    /\ rec = "running" /\ runner_op_done
    /\ rec' = IF gives_up THEN "completed" ELSE "timer"
    /\ will_reconnect' = (will_reconnect /\ ~gives_up)
    /\ step' = "off" /\ hello' = "off"
    /\ health' = "off" /\ ping' = "off" /\ chk' = "off"
    /\ first' = "none" /\ both' = FALSE /\ session' = "pending" /\ killed' = {}
    /\ UNCHANGED <<cfg, cancelled, attempts, asked, checker_has_exited,
                   conn_vars, reply_vars>>

reconnect_timer_fires ==
    /\ rec = "timer" /\ rec' = "fired"
    /\ UNCHANGED <<cfg, will_reconnect, cancelled, attempts, asked, run_all_vars,
                   hello, health_vars, conn_vars, killed, reply_vars>>

\* A new stream, whose socket is closed.
reset_stream == open' = FALSE

reconnection_op_reconnects ==
    /\ rec = "fired" /\ ~gives_up
    /\ reset_stream
    /\ runner_op_starts(cfg)
    /\ UNCHANGED <<cfg, will_reconnect, cancelled, asked, cancel_run_called, thrown>>

reconnection_op_ends ==
    /\ rec = "aborted" \/ (rec = "fired" /\ gives_up)
    /\ rec' = "completed"
    /\ UNCHANGED <<cfg, will_reconnect, cancelled, attempts, asked, run_all_vars,
                   hello, health_vars, conn_vars, killed, reply_vars>>

-----------------------------------------------------------------------------
(* The user.                                                               *)

Operations == {"resolve", "connect", "ssl_handshake", "exec", "run",
               "reconnection", "health_check", "all"}

\* The parts of the runner that cancel(o) cancels.
resolver_cancelled(o)       == o \in {"resolve", "all"}
connector_cancelled(o)      == o \in {"connect", "all"}
handshaker_cancelled(o)     == o \in {"ssl_handshake", "all"}
health_checker_cancelled(o) == o \in {"health_check", "all"}

\* run_all_op waits for an operation whose timer cancel(o) cancels, and with it
\* the operation; the resolver is cancelled at the same time.
step_cancelled(o) ==
    \/ step = "resolve" /\ resolver_cancelled(o)
    \/ step = "connect" /\ connector_cancelled(o)
    \/ step = "handshake" /\ handshaker_cancelled(o)

\* cancel_unwritten_requests, on the requests q.
unwritten_stopped(q) == [r \in Requests |-> IF q[r] = "waiting" THEN "stopped" ELSE q[r]]

\* connection::cancel(o).
user_cancel(o) ==
    /\ "cancel" \in Env
    /\ rec \notin {"off", "completed"}
    /\ IF o \in {"reconnection", "all"}
       THEN will_reconnect' = FALSE /\ rec' = cancel_timer(rec) /\ asked' = TRUE
       ELSE UNCHANGED <<will_reconnect, rec, asked>>
    /\ first' = IF step_cancelled(o) /\ first = "none" THEN "timer" ELSE first
    /\ IF health_checker_cancelled(o)
       THEN ping' = cancel_timer(ping) /\ chk' = cancel_timer(chk)
       ELSE UNCHANGED <<ping, chk>>
    /\ \/ o = "run" /\ cancel_run({})
       \/ /\ o = "exec" /\ rq' = unwritten_stopped(rq)
          /\ UNCHANGED <<open, cancel_run_called>>
       \/ /\ o = "all"
          /\ rq' = unwritten_stopped(IF cancel_run_called THEN rq ELSE stopped_requests)
          /\ open' = (open /\ cancel_run_called) /\ cancel_run_called' = TRUE
       \/ o \notin {"run", "exec", "all"} /\ UNCHANGED conn_vars
    /\ UNCHANGED <<cfg, cancelled, attempts, step, both, session, hello, health, checker_has_exited,
                   killed, reply_vars>>

\* Variant: the terminal cancellation does not reach HELLO.
pending_execs_ping == IF ping = "exec" THEN {"PING"} ELSE {}
pending_execs == {r \in Requests : rq[r] # "none"}

\* A terminal cancellation of async_run reaches every operation below it.
terminal_cancel ==
    /\ "terminal" \in Env
    /\ rec \notin {"off", "completed"}
    /\ cancelled' = TRUE /\ asked' = TRUE
    /\ rec' = cancel_timer(rec)
    /\ first' = IF step_cancelled("all") /\ first = "none" THEN "timer" ELSE first
    /\ ping' = cancel_timer(ping) /\ chk' = cancel_timer(chk)
    /\ killed' = killed \cup pending_execs
    /\ UNCHANGED <<cfg, will_reconnect, attempts, step, both, session, hello, health,
                   checker_has_exited, conn_vars, reply_vars>>

-----------------------------------------------------------------------------
SessionNext ==
    \/ run_op_fails
    \/ run_op_cancelled

TimedNext ==
    \/ async_resolve_completes
    \/ async_connect_completes
    \/ async_handshake_completes

RunAllNext ==
    \/ run_all_op_fails
    \/ run_all_op_continues
    \/ run_all_op_exits

PingNext ==
    \/ ping_op_waits
    \/ ping_op_fails
    \/ ping_timer_fires
    \/ ping_op_resumes

CheckTimeoutNext ==
    \/ wait_timer_fires
    \/ check_timeout_op_waits
    \/ check_timeout_op_times_out
    \/ check_timeout_op_ends

ReconnectionNext ==
    \/ reconnection_op_after_run
    \/ reconnect_timer_fires
    \/ reconnection_op_reconnects
    \/ reconnection_op_ends

Next ==
    \/ async_run
    \/ \E r \in Requests : writes(r)
    \/ \E r \in Requests, a \in {"value", "error"} : answers(r, a)
    \/ SessionNext
    \/ TimedNext
    \/ step_timer_completes
    \/ RunAllNext
    \/ hello_op_completes
    \/ PingNext
    \/ CheckTimeoutNext
    \/ check_health_op_completes
    \/ ReconnectionNext
    \/ \E o \in Operations : user_cancel(o)
    \/ terminal_cancel

Spec == Init /\ [][Next]_vars

(***************************************************************************)
(* The executor runs every handler that is queued and timers expire.       *)
(* Resolving, connecting and shaking hands need not end by themselves,     *)
(* only once they have been cancelled.  A session whose socket is closed   *)
(* or that is cancelled ends (ClosedRunEnds of module Connection); nothing *)
(* else obliges it to.  The server need not answer.                        *)
(***************************************************************************)
Fairness ==
    /\ WF_vars(SessionNext /\ (~open \/ cancelled))
    /\ WF_vars(TimedNext /\ wait_for_one)
    /\ WF_vars(step_timer_completes)
    /\ WF_vars(RunAllNext)
    /\ WF_vars(hello_op_completes)
    /\ WF_vars(PingNext)
    /\ WF_vars(CheckTimeoutNext)
    /\ WF_vars(check_health_op_completes)
    /\ WF_vars(ReconnectionNext)

FairSpec == Spec /\ Fairness

-----------------------------------------------------------------------------
(* Properties.                                                             *)

\* While reconnection_op waits, or when it has ended, nothing of the last
\* attempt is left: no request is queued and no timer runs, although the next
\* attempt uses the same hello_req_, hello_resp_, resp_ and timers.
NothingLeftOver ==
    rec # "running" =>
        /\ \A r \in Requests : rq[r] = "none"
        /\ ping \notin Timer /\ chk \notin Timer /\ step # "lean"

\* "When a connection is lost for any reason, a new one is stablished
\* automatically" (connection.hpp:134): async_run ends only if the user has
\* asked for it or has disabled reconnection.
EndsOnlyWhenAsked ==
    rec = "completed" => asked \/ ~cfg.reconnect

\* A session whose socket has been closed is followed by the end of runner_op:
\* hello_op and check_health_op get to know, wherever they are suspended.  An
\* exception from an adapter is the one thing that prevents it.
LostSessionEnds ==
    step = "lean" /\ ~open ~> rec # "running" \/ thrown

\* A terminal cancellation ends async_run, whatever it is doing, unless an
\* adapter has thrown.
CancelledRunEnds ==
    cancelled ~> rec = "completed" \/ thrown

\* A host that does not answer at all holds no attempt up: every step of
\* run_all_op ends, by its timeout if nothing else ends it, although the
\* operation may go on for a while after the timer.
StepsEnd == step \in Timed ~> step \in {"lean", "exited"}

\* A session that check_timeout_op watches is closed when the server stops to
\* answer PING: "it will be considered unresponsive and the connection will be
\* closed" (connection.hpp:127).  Two things end the watch before: it is
\* cancelled (by cancel(health_check), by a terminal cancellation of async_run
\* or because ping_op has ended, as after cancel(exec)), or it finds that the
\* server has answered PING with an error.
SilenceIsNoticed ==
    \/ []<><<\E a \in {"value", "error"} : answers("PING", a)>>_vars
    \/ session_up /\ chk = "timer" ~> ~session_up \/ check_is_cancelled \/ check_finds_error

\* An attempt that has failed is followed by another one: runner_op ends once
\* run_all_op has.
FailedAttemptEnds ==
    step = "exited" ~> rec # "running"
=============================================================================
